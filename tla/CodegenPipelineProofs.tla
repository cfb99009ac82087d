----------------------- MODULE CodegenPipelineProofs -----------------------
(***************************************************************************)
(* The codegen pipeline is an instance of the engine: what is proved of    *)
(* the engine for every pipeline and for every chain holds of it. Of its   *)
(* own it keeps the generations and pull requests: their types, that a     *)
(* completed run has a generation, that a pull request is recorded and     *)
(* announced, and that no work is paid for twice but after a crash.        *)
(***************************************************************************)
EXTENDS CodegenPipeline, PipelineEngineProofs, FiniteSetTheorems

(* Every step of the codegen pipeline is one of the engine, or does not    *)
(* touch the run, its tasks and its jobs.                                  *)
LEMMA CodegenStep ==
    ASSUME CodegenNext
    PROVE  [Next]_vars
<1>1. ASSUME NEW j \in JobIds, Work(j) PROVE Next
  BY <1>1 DEF Next
<1>2. ASSUME NEW j \in JobIds, NEW p, p \in Plans[jobs[j].kind], MarkTask(j, p)
      PROVE  Work(j)
  BY <1>2 DEF Work
<1>3. ASSUME NEW j \in JobIds, CodegenWork(j) PROVE [Next]_vars
  <2>1. CASE CodegenStart(j)
    BY <1>1, <2>1 DEF CodegenStart, Work
  <2>2. CASE \/ ReadOnlyWork(j) \/ GenerateCodeEnds(j) \/ CreatePREnds(j)
             \/ NotifyEnds(j)
    <3>1. \E p \in Plans[jobs[j].kind] : MarkTask(j, p)
      BY <2>2 DEF ReadOnlyWork, GenerateCodeEnds, CreatePREnds, NotifyEnds, Mark, Fail,
         MarkTask
    <3>2. QED
      BY <1>1, <1>2, <3>1
  <2>3. CASE CreateGeneration(j) \/ OpenPR(j)
    BY <2>3 DEF CreateGeneration, OpenPR
  <2>4. CASE SavePR(j) \/ SaveWithoutPR(j) \/ NotifyByEmail(j)
    BY <1>1, <2>4 DEF SavePR, SaveWithoutPR, NotifyByEmail, Work
  <2>5. CASE \E n \in JobIds : CodegenChain(j, n)
    BY <1>1, <2>5 DEF CodegenChain, Work
  <2>6. CASE CodegenReturn(j)
    BY <1>1, <2>6 DEF CodegenReturn, Work
  <2>7. CASE \/ ChainLost(j) \/ CheckRead(j) \/ CheckWriteStatus(j)
             \/ CheckWriteError(j) \/ CheckNotify(j) \/ AskReview(j)
    BY <1>1, <2>7 DEF Work
  <2>8. QED
    BY <1>3, <2>1, <2>2, <2>3, <2>4, <2>5, <2>6, <2>7 DEF CodegenWork
<1>4. CASE EnqueueCodegen
  BY <1>4 DEF EnqueueCodegen, CreateRequestedGen, Create, Next
<1>5. QED
  BY <1>3, <1>4 DEF CodegenNext, Next

(* The codegen pipeline implements the engine. *)
THEOREM CodegenRunsTheEngine == CodegenSpec => Spec
<1>1. CodegenInit => Init
  BY DEF CodegenInit
<1>2. ASSUME [CodegenNext]_codegenVars PROVE [Next]_vars
  BY <1>2, CodegenStep DEF codegenVars
<1>3. QED
  BY <1>1, <1>2, PTL DEF CodegenSpec, Spec

(* A codegen run is reported completed only when its six tasks have been   *)
(* completed, failed only when one of them has failed.                     *)
THEOREM CodegenKeepsContract == CodegenSpec => KeepsContract
<1>1. QED
  BY CodegenRunsTheEngine, ContractIsKept

-----------------------------------------------------------------------------
(* The place of each worker; no two share one. *)
LEMMA CodegenOrderValues ==
    /\ CodegenOrder["fetch_spec"] = 0 /\ CodegenOrder["index_repo"] = 1
    /\ CodegenOrder["build_context"] = 2 /\ CodegenOrder["generate_code"] = 3
    /\ CodegenOrder["create_pr"] = 4 /\ CodegenOrder["notify"] = 5
BY DEF CodegenTasks, CodegenOrder

LEMMA CodegenOrderIsTotal ==
    \A t, u \in CodegenTasks : CodegenOrder[t] = CodegenOrder[u] => t = u
BY CodegenOrderValues DEF CodegenTasks

(* Its six workers are one chain. *)
LEMMA CodegenIsChain == IsChain(Tasks)
<1>1. /\ Tasks \subseteq CodegenTasks /\ Entry \in Tasks
      /\ \A t \in Tasks : SortOrder[Entry] <= SortOrder[t]
      /\ \A t \in Tasks : SortOrder[t] = CodegenOrder[t]
      /\ \A t \in Tasks : Plans[t] = CodegenPlans[t]
      /\ \A t \in Tasks : Spawns[t] = {}
  <2>1. \A t \in Tasks : SortOrder[t] = CodegenOrder[t]
    BY CodegenAssumption
  <2>2. \A t \in Tasks : Plans[t] = CodegenPlans[t]
    BY CodegenAssumption
  <2>3. \A t \in Tasks : Spawns[t] = {}
    BY CodegenAssumption DEF NoSpawns
  <2>4. QED
    BY <2>1, <2>2, <2>3, CodegenAssumption, EngineAssumption
<1>2. \A t, u \in Tasks : SortOrder[t] = SortOrder[u] => t = u
  BY <1>1, CodegenOrderIsTotal
<1>3. ASSUME NEW t \in Tasks, NEW p \in Plan, p \in Plans[t], p.chain # <<>>
      PROVE  Links(Tasks, t, p)
  <2>1. Head(p.chain) \in Tasks
    BY <1>3, ChainRestType
  <2>2. p \in CodegenPlans[t] /\ t \in CodegenTasks
    BY <1>1, <1>3
  <2>3. /\ p = Chains(Head(p.chain)) /\ Tail(p.chain) = <<>>
        /\ CodegenOrder[Head(p.chain)] = CodegenOrder[t] + 1 /\ CodegenOrder[t] \in Nat
    <3>1. PICK next \in CodegenTasks :
             p = Chains(next) /\ CodegenOrder[next] = CodegenOrder[t] + 1
      BY <1>3, <2>2 DEF CodegenTasks, CodegenPlans, CodegenOrder, FetchSpecPlans,
         IndexRepoPlans, BuildContextPlans, GenerateCodePlans, CreatePRPlans, NotifyPlans,
         FailsAndTells, FinishesAndAsks, Fails, Finishes
    <3>2. p.chain = <<next>>
      BY <3>1 DEF Chains
    <3>3. Head(p.chain) = next /\ Tail(p.chain) = <<>>
      BY <3>2
    <3>4. CodegenOrder[t] \in Nat
      BY <2>2 DEF CodegenTasks, CodegenOrder
    <3>5. QED
      BY <3>1, <3>3, <3>4
  <2>4. p.mark = "completed" /\ ~p.check /\ ~p.review
    BY <2>3 DEF Chains
  <2>5. \A u \in Tasks : SortOrder[u] \in Nat
    BY EngineAssumption
  <2>6. QED
    BY <1>1, <2>1, <2>3, <2>4, <2>5 DEF Links
<1>4. QED
  BY <1>1, <1>2, <1>3 DEF IsChain

(* The chain's invariant holds of every codegen run. *)
LEMMA CodegenChainKept == CodegenSpec => [](TypeOK /\ Consistent /\ ChainInv(Tasks))
<1>1. Init => ChainInv(Tasks)
  BY ChainInit
<1>2. TypeOK /\ Consistent /\ ChainInv(Tasks) /\ [Next]_vars => ChainInv(Tasks)'
  BY CodegenIsChain, ChainStep
<1>3. QED
  BY <1>1, <1>2, CodegenRunsTheEngine, TypeCorrect, VerdictsAreCovered, PTL DEF Spec

(* A worker's job exists only when every task before its own has been      *)
(* completed, whatever is re-executed, rescued or retried.                 *)
THEOREM CodegenInOrder == CodegenSpec => []InOrder
<1>1. TypeOK /\ ChainInv(Tasks) => InOrder
  BY DEF ChainInv, EarlierCompleted, InOrder, Exists, TypeOK, Job
<1>2. QED
  BY <1>1, CodegenChainKept, PTL

(* Without a crash River has one job for each worker, however often its    *)
(* statements fail, its executions time out or users retry.                *)
THEOREM CodegenStepsOnce == CodegenSpec => []NoStepTwice
<1>1. TypeOK /\ ChainInv(Tasks) => NoStepTwice
  BY DEF ChainInv, OneAtATime, NoStepTwice, Exists, TypeOK, Job
<1>2. QED
  BY <1>1, CodegenChainKept, PTL

-----------------------------------------------------------------------------
(* What each step does to the jobs and to the generations they carry. *)

(* The steps, by what they do to both. *)
LEMMA CodegenCases ==
    ASSUME CodegenNext
    PROVE  \/ LeavesJobs /\ UNCHANGED genVars
           \/ CreateRequestedGen
           \/ \E n \in JobIds : EnqueueEntry(n) /\ UNCHANGED genVars
           \/ \E j \in JobIds :
                 \/ CodegenStart(j) \/ CreateGeneration(j) \/ OpenPR(j)
                 \/ SavePR(j) \/ SaveWithoutPR(j) \/ NotifyByEmail(j)
                 \/ ReadOnlyWork(j) \/ GenerateCodeEnds(j) \/ CreatePREnds(j)
                 \/ NotifyEnds(j)
                 \/ \E n \in JobIds : CodegenChain(j, n)
                 \/ CodegenReturn(j)
                 \/ (ChainLost(j) \/ Reports(j)) /\ UNCHANGED genVars
                 \/ (Timeout(j) \/ Crash(j) \/ Rescue(j)) /\ UNCHANGED genVars
<1>1. ASSUME NEW j \in JobIds, CodegenWork(j)
      PROVE  \/ CodegenStart(j) \/ CreateGeneration(j) \/ OpenPR(j)
             \/ SavePR(j) \/ SaveWithoutPR(j) \/ NotifyByEmail(j)
             \/ ReadOnlyWork(j) \/ GenerateCodeEnds(j) \/ CreatePREnds(j)
             \/ NotifyEnds(j)
             \/ \E n \in JobIds : CodegenChain(j, n)
             \/ CodegenReturn(j)
             \/ (ChainLost(j) \/ Reports(j)) /\ UNCHANGED genVars
  BY <1>1 DEF CodegenWork, Reports
<1>2. ASSUME EnqueueCodegen
      PROVE  \/ LeavesJobs /\ UNCHANGED genVars
             \/ CreateRequestedGen
             \/ \E n \in JobIds : EnqueueEntry(n) /\ UNCHANGED genVars
  BY <1>2 DEF EnqueueCodegen, LeavesJobs
<1>3. QED
  BY <1>1, <1>2 DEF CodegenNext, LeavesJobs

LocalRow == [gen : Gens \cup {NoGen}, step : Step]

GenTypeOK ==
    /\ genStatus \in [Gens -> GenStatus]
    /\ genPR \in SUBSET Gens
    /\ github \in SUBSET Gens
    /\ unsaved \in SUBSET Gens
    /\ local \in [JobIds -> LocalRow]
    /\ emails \in 0 .. MaxCount

Untouched(i) == jobs'[i] = jobs[i] /\ local'[i] = local[i]
OnlyMoves(j) == \A i \in JobIds : i # j => Untouched(i)

LEMMA StepToEffect ==
    ASSUME GenTypeOK, NEW j \in JobIds, NEW s \in Step,
           local' = [local EXCEPT ![j].step = s]
    PROVE  /\ local' \in [JobIds -> LocalRow]
           /\ local'[j].step = s /\ local'[j].gen = local[j].gen
           /\ \A i \in JobIds : i # j => local'[i] = local[i]
<1>1. [local[j] EXCEPT !.step = s] \in LocalRow
  BY DEF GenTypeOK, LocalRow
<1>2. local'[j] = [local[j] EXCEPT !.step = s]
  BY DEF GenTypeOK
<1>3. local'[j].step = s /\ local'[j].gen = local[j].gen
  BY <1>2 DEF GenTypeOK, LocalRow
<1>4. QED
  BY <1>1, <1>3 DEF GenTypeOK

LEMMA CodegenStartEffect ==
    ASSUME TypeOK, GenTypeOK, NEW j \in JobIds, CodegenStart(j)
    PROVE  /\ OnlyMoves(j) /\ Stays(j)
           /\ jobs[j].state = "available" /\ jobs'[j].pc = "body"
           /\ local' \in [JobIds -> LocalRow]
           /\ local'[j].step = "start" /\ local'[j].gen = local[j].gen
           /\ UNCHANGED <<runVars, everCompleted, genStatus, genPR, github, unsaved, emails>>
<1>1. /\ Others(j) /\ Stays(j)
      /\ jobs[j].state = "available" /\ jobs'[j].pc = "body"
      /\ UNCHANGED runVars /\ SetTask(j, "running")
  BY StartEffect DEF CodegenStart
<1>2. /\ local' = [local EXCEPT ![j].step = "start"] /\ "start" \in Step
      /\ UNCHANGED <<genStatus, genPR, github, unsaved, emails>>
  BY DEF CodegenStart, Step
<1>3. UNCHANGED everCompleted
  BY <1>1 DEF SetTask, rowVars
<1>4. QED
  BY <1>1, <1>2, <1>3, StepToEffect DEF OnlyMoves, Untouched, Others

LEMMA CreateGenerationEffect ==
    ASSUME TypeOK, GenTypeOK, NEW j \in JobIds, CreateGeneration(j)
    PROVE  /\ OnlyMoves(j) /\ jobs' = jobs
           /\ jobs[j].pc = "body" /\ jobs[j].kind = "generate_code"
           /\ local' \in [JobIds -> LocalRow]
           /\ local[j].step = "start" /\ local'[j].step = "created"
           /\ local'[j].gen \in FreeGens
           /\ genStatus' = [genStatus EXCEPT ![local'[j].gen] = "running"]
           /\ UNCHANGED <<vars, genPR, github, unsaved, emails>>
<1>1. PICK g \in FreeGens :
         /\ genStatus' = [genStatus EXCEPT ![g] = "running"]
         /\ local' = [local EXCEPT ![j] = [gen |-> g, step |-> "created"]]
  BY DEF CreateGeneration
<1>2. /\ jobs[j].pc = "body" /\ jobs[j].kind = "generate_code" /\ local[j].step = "start"
      /\ UNCHANGED <<vars, genPR, github, unsaved, emails>>
  BY DEF CreateGeneration, At
<1>3. [gen |-> g, step |-> "created"] \in LocalRow
  BY DEF FreeGens, LocalRow, Step
<1>4. /\ local'[j].gen = g /\ local'[j].step = "created"
      /\ \A i \in JobIds : i # j => local'[i] = local[i]
      /\ local' \in [JobIds -> LocalRow]
  BY <1>1, <1>3 DEF GenTypeOK
<1>5. QED
  BY <1>1, <1>2, <1>4 DEF OnlyMoves, Untouched, vars

LEMMA OpenPREffect ==
    ASSUME TypeOK, GenTypeOK, NEW j \in JobIds, OpenPR(j)
    PROVE  /\ OnlyMoves(j) /\ jobs' = jobs
           /\ jobs[j].pc = "body" /\ jobs[j].kind = "create_pr"
           /\ local' \in [JobIds -> LocalRow]
           /\ local[j].step = "start" /\ local'[j].gen = local[j].gen
           /\ local'[j].step = IF local[j].gen \in github THEN "refused" ELSE "opened"
           /\ github' = github \cup {local[j].gen}
           /\ UNCHANGED <<vars, genStatus, genPR, unsaved, emails>>
<1> DEFINE s == IF local[j].gen \in github THEN "refused" ELSE "opened"
<1>1. /\ local' = [local EXCEPT ![j].step = s] /\ s \in Step
      /\ jobs[j].pc = "body" /\ jobs[j].kind = "create_pr" /\ local[j].step = "start"
      /\ github' = github \cup {local[j].gen}
      /\ UNCHANGED <<vars, genStatus, genPR, unsaved, emails>>
  BY DEF OpenPR, At, Step
<1> HIDE DEF s
<1>2. /\ local' \in [JobIds -> LocalRow]
      /\ local'[j].step = s /\ local'[j].gen = local[j].gen
      /\ \A i \in JobIds : i # j => local'[i] = local[i]
  BY <1>1, StepToEffect
<1>3. QED
  BY <1>1, <1>2 DEF OnlyMoves, Untouched, vars, s

(* UpdateGeneration, with and without a pull request. *)
LEMMA SaveEffect ==
    ASSUME TypeOK, GenTypeOK, NEW j \in JobIds, SavePR(j) \/ SaveWithoutPR(j)
    PROVE  /\ OnlyMoves(j) /\ jobs' = jobs
           /\ jobs[j].pc = "body" /\ jobs[j].kind = "create_pr"
           /\ local' \in [JobIds -> LocalRow]
           /\ local'[j].gen = local[j].gen
           /\ \/ SavePR(j) /\ local[j].step = "opened"
              \/ SaveWithoutPR(j) /\ local[j].step = "start" /\ genPR' = genPR
           /\ \/ /\ Succeeds(j) /\ local'[j].step = "saved"
                 /\ genStatus' = [genStatus EXCEPT ![local[j].gen] = "completed"]
                 /\ SavePR(j) => genPR' = genPR \cup {local[j].gen}
                 /\ UNCHANGED unsaved
              \/ /\ Errs(j) /\ UNCHANGED <<genStatus, genPR>>
                 /\ \/ local'[j].step = "failed" /\ UNCHANGED unsaved
                    \/ local'[j].step = "saved" /\ unsaved' = unsaved \cup {local[j].gen}
           /\ UNCHANGED <<runVars, rowVars, github, emails>>
<1>1. CASE SavePR(j)
  <2>1. /\ jobs[j].pc = "body" /\ jobs[j].kind = "create_pr" /\ local[j].step = "opened"
        /\ jobs' = jobs /\ UNCHANGED <<runVars, rowVars, github, unsaved, emails>>
    BY <1>1 DEF SavePR, At, WorkStatement
  <2>2. PICK s \in Step :
           /\ local' = [local EXCEPT ![j].step = s]
           /\ \/ /\ Succeeds(j) /\ s = "saved"
                 /\ genStatus' = [genStatus EXCEPT ![local[j].gen] = "completed"]
                 /\ genPR' = genPR \cup {local[j].gen}
              \/ /\ Errs(j) /\ s = "failed" /\ UNCHANGED <<genStatus, genPR>>
    BY <1>1 DEF SavePR, StepTo, Saved, Step
  <2>3. /\ local' \in [JobIds -> LocalRow]
        /\ local'[j].step = s /\ local'[j].gen = local[j].gen
        /\ \A i \in JobIds : i # j => local'[i] = local[i]
    BY <2>2, StepToEffect
  <2>4. QED
    BY <1>1, <2>1, <2>2, <2>3 DEF OnlyMoves, Untouched
<1>2. CASE SaveWithoutPR(j)
  <2>1. /\ jobs[j].pc = "body" /\ jobs[j].kind = "create_pr" /\ local[j].step = "start"
        /\ jobs' = jobs /\ UNCHANGED <<runVars, rowVars, genPR, github, emails>>
    BY <1>2 DEF SaveWithoutPR, At, WorkStatement
  <2>2. /\ local' = [local EXCEPT ![j].step = "saved"] /\ "saved" \in Step
        /\ \/ /\ Succeeds(j)
              /\ genStatus' = [genStatus EXCEPT ![local[j].gen] = "completed"]
              /\ UNCHANGED unsaved
           \/ /\ Errs(j) /\ UNCHANGED genStatus
              /\ unsaved' = unsaved \cup {local[j].gen}
    BY <1>2 DEF SaveWithoutPR, StepTo, Saved, Step
  <2>3. /\ local' \in [JobIds -> LocalRow]
        /\ local'[j].step = "saved" /\ local'[j].gen = local[j].gen
        /\ \A i \in JobIds : i # j => local'[i] = local[i]
    BY <2>2, StepToEffect
  <2>4. ~SavePR(j)
    BY <2>1 DEF SavePR
  <2>5. QED
    BY <1>2, <2>1, <2>2, <2>3, <2>4 DEF OnlyMoves, Untouched
<1>3. QED
  BY <1>1, <1>2

LEMMA NotifyByEmailEffect ==
    ASSUME TypeOK, GenTypeOK, NEW j \in JobIds, NotifyByEmail(j)
    PROVE  /\ OnlyMoves(j) /\ jobs' = jobs
           /\ jobs[j].pc = "body" /\ jobs[j].kind = "notify"
           /\ local' \in [JobIds -> LocalRow]
           /\ local[j].step = "start" /\ local'[j].step = "mailed"
           /\ local'[j].gen = local[j].gen
           /\ \/ Succeeds(j) /\ emails' = IF emails < MaxCount THEN emails + 1 ELSE emails
              \/ Errs(j) /\ UNCHANGED emails
           /\ UNCHANGED <<runVars, rowVars, genStatus, genPR, github, unsaved>>
<1>1. /\ jobs[j].pc = "body" /\ jobs[j].kind = "notify" /\ local[j].step = "start"
      /\ jobs' = jobs /\ UNCHANGED <<runVars, rowVars, genStatus, genPR, github, unsaved>>
      /\ local' = [local EXCEPT ![j].step = "mailed"] /\ "mailed" \in Step
      /\ \/ Succeeds(j) /\ emails' = IF emails < MaxCount THEN emails + 1 ELSE emails
         \/ Errs(j) /\ UNCHANGED emails
  BY DEF NotifyByEmail, At, WorkStatement, StepTo, Step
<1>2. QED
  BY <1>1, StepToEffect DEF OnlyMoves, Untouched

(* A worker that has completed its task has done its work. *)
DoneBy(kind, step, gen, recorded) ==
    /\ kind = "generate_code" => step = "created"
    /\ kind = "create_pr" => step = "saved"
    /\ kind = "notify" => step = "mailed" \/ gen \notin recorded

(* One that has failed it has left nothing half done. *)
GivenUpBy(kind, step) ==
    /\ kind = "generate_code" => step = "start"
    /\ kind = "create_pr" => step \in {"start", "refused", "failed"}
    /\ kind = "notify" => step = "start"

Ends(j) == ReadOnlyWork(j) \/ GenerateCodeEnds(j) \/ CreatePREnds(j) \/ NotifyEnds(j)

LEMMA EndsEffect ==
    ASSUME TypeOK, ExecutionSound, GenTypeOK, NEW j \in JobIds, Ends(j)
    PROVE  /\ OnlyMoves(j) /\ Stays(j)
           /\ jobs[j].pc = "body" /\ jobs[j].state = "running"
           /\ local' = local
           /\ UNCHANGED <<runVars, genVars>>
           /\ \E p \in Plan :
                 /\ MarkTask(j, p) /\ SetTask(j, p.mark)
                 /\ p \in Plans[jobs[j].kind]
                 /\ jobs'[j].pc = AfterMark(p) /\ jobs'[j].plan = p
                 /\ p.mark = "completed" =>
                       DoneBy(jobs[j].kind, local[j].step, local[j].gen, genPR)
                 /\ p.mark = "failed" => GivenUpBy(jobs[j].kind, local[j].step)
<1>1. UNCHANGED genVars
  BY DEF Ends, ReadOnlyWork, GenerateCodeEnds, CreatePREnds, NotifyEnds, Mark, Fail
<1>2. PICK p :
         /\ MarkTask(j, p)
         /\ p.mark = "completed" =>
               DoneBy(jobs[j].kind, local[j].step, local[j].gen, genPR)
         /\ p.mark = "failed" => GivenUpBy(jobs[j].kind, local[j].step)
  <2>1. /\ Chains("create_pr").mark = "completed" /\ Chains("notify").mark = "completed"
        /\ FinishesAndAsks.mark = "completed"
    BY DEF Chains, FinishesAndAsks, Finishes
  <2>2. CASE ReadOnlyWork(j)
    BY <2>2 DEF ReadOnlyWork, At, Mark, DoneBy, GivenUpBy
  <2>3. CASE GenerateCodeEnds(j)
    BY <2>1, <2>3 DEF GenerateCodeEnds, At, Mark, Fail, DoneBy, GivenUpBy
  <2>4. CASE CreatePREnds(j)
    BY <2>1, <2>4 DEF CreatePREnds, At, Mark, Fail, DoneBy, GivenUpBy
  <2>5. CASE NotifyEnds(j)
    BY <2>1, <2>5 DEF NotifyEnds, At, Mark, Fail, DoneBy, GivenUpBy
  <2>6. QED
    BY <2>2, <2>3, <2>4, <2>5 DEF Ends
<1>3. /\ Others(j) /\ Stays(j)
      /\ jobs[j].pc = "body" /\ jobs[j].state = "running"
      /\ p \in Plans[jobs[j].kind] /\ p \in Plan
      /\ jobs'[j].pc = AfterMark(p) /\ jobs'[j].plan = p
      /\ SetTask(j, p.mark) /\ UNCHANGED runVars
  BY <1>2, MarkEffect
<1>4. QED
  BY <1>1, <1>2, <1>3 DEF OnlyMoves, Untouched, Others, genVars

LEMMA CodegenChainEffect ==
    ASSUME TypeOK, ExecutionSound, PlansHeld, GenTypeOK,
           NEW j \in JobIds, NEW n \in JobIds, CodegenChain(j, n)
    PROVE  /\ n # j /\ Stays(j)
           /\ \A i \in JobIds : i # j /\ i # n => Untouched(i)
           /\ jobs[j].pc = "chain" /\ jobs[j].state = "running"
           /\ jobs[j].plan \in Plans[jobs[j].kind] /\ jobs[j].plan.chain # <<>>
           /\ jobs'[j].pc = "return" /\ jobs'[j].plan.mark = "completed"
           /\ local'[j] = local[j]
           /\ jobs[n].state = "none"
           /\ Inserted(jobs'[n], Head(jobs[j].plan.chain))
           /\ local' \in [JobIds -> LocalRow]
           /\ local'[n].gen = local[j].gen /\ local'[n].step = local[n].step
           /\ UNCHANGED <<runVars, rowVars, genStatus, genPR, github, unsaved, emails>>
<1>1. /\ n # j /\ Stays(j)
      /\ \A i \in JobIds : i # j /\ i # n => jobs'[i] = jobs[i]
      /\ jobs[j].pc = "chain" /\ jobs[j].state = "running"
      /\ jobs'[j].pc = "return" /\ jobs'[j].plan.mark = "completed"
      /\ jobs[n].state = "none"
      /\ Inserted(jobs'[n], Head(jobs[j].plan.chain))
      /\ UNCHANGED <<runVars, rowVars>>
  BY ChainInsertEffect, ChainLeft, CodegenIsChain DEF CodegenChain
<1>2. jobs[j].plan \in Plans[jobs[j].kind] /\ jobs[j].plan.chain # <<>>
  BY <1>1 DEF PlansHeld, PlanHeld
<1>3. /\ local' = [local EXCEPT ![n].gen = local[j].gen]
      /\ UNCHANGED <<genStatus, genPR, github, unsaved, emails>>
  BY DEF CodegenChain
<1>4. [local[n] EXCEPT !.gen = local[j].gen] \in LocalRow
  BY DEF GenTypeOK, LocalRow
<1>5. local'[n] = [local[n] EXCEPT !.gen = local[j].gen]
  BY <1>3 DEF GenTypeOK
<1>6. local'[n].gen = local[j].gen /\ local'[n].step = local[n].step
  BY <1>5 DEF GenTypeOK, LocalRow
<1>7. local' \in [JobIds -> LocalRow] /\ \A i \in JobIds : i # n => local'[i] = local[i]
  BY <1>3, <1>4 DEF GenTypeOK
<1>8. QED
  BY <1>1, <1>2, <1>3, <1>6, <1>7 DEF Untouched

LEMMA CodegenReturnEffect ==
    ASSUME TypeOK, ExecutionSound, GenTypeOK, NEW j \in JobIds, CodegenReturn(j)
    PROVE  /\ OnlyMoves(j)
           /\ jobs[j].pc = "return" /\ jobs[j].state = "running"
           /\ jobs'[j].kind = jobs[j].kind /\ jobs'[j].pc = "idle"
           /\ jobs'[j].state # "none"
           /\ jobs[j].plan.mark # "failed" => jobs'[j].state = "completed"
           /\ local' \in [JobIds -> LocalRow]
           /\ local'[j].gen = local[j].gen
           /\ UNCHANGED <<runVars, rowVars, genStatus, genPR, github, unsaved, emails>>
<1>1. /\ Others(j)
      /\ jobs[j].pc = "return" /\ jobs[j].state = "running"
      /\ jobs'[j].kind = jobs[j].kind /\ jobs'[j].pc = "idle"
      /\ jobs'[j].state # "none"
      /\ jobs[j].plan.mark # "failed" => jobs'[j].state = "completed"
      /\ UNCHANGED <<runVars, rowVars>>
  BY ReturnEffect DEF CodegenReturn
<1>2. /\ local' = [local EXCEPT ![j].step = "start"] /\ "start" \in Step
      /\ UNCHANGED <<genStatus, genPR, github, unsaved, emails>>
  BY DEF CodegenReturn, Step
<1>3. QED
  BY <1>1, <1>2, StepToEffect DEF OnlyMoves, Untouched, Others

(* What is left: an execution moves on, or ends in a crash, and the        *)
(* generations are left alone.                                             *)
MovesOn(j) == \/ ChainLost(j) \/ Reports(j) \/ Timeout(j) \/ Crash(j) \/ Rescue(j)

LEMMA MovesOnEffect ==
    ASSUME TypeOK, ExecutionSound, PlansHeld, NEW j \in JobIds, MovesOn(j), UNCHANGED genVars
    PROVE  /\ OnlyMoves(j)
           /\ jobs[j].state # "none" /\ jobs'[j].state # "none"
           /\ jobs'[j].kind = jobs[j].kind
           /\ \/ Timeout(j) /\ jobs'[j].pc = jobs[j].pc
              \/ jobs'[j].pc \in Past \cup {"lost", "idle"}
           /\ UNCHANGED <<rowVars, genStatus, genPR, github, unsaved, local, emails>>
<1>1. local' = local /\ UNCHANGED <<genStatus, genPR, github, unsaved, local, emails>>
  BY DEF genVars
<1>2. CASE ChainLost(j)
  <2>1. /\ Others(j) /\ Stays(j) /\ jobs[j].pc = "chain" /\ jobs[j].state = "running"
        /\ jobs'[j].pc = AfterMark(ChainRest(jobs[j].plan)) /\ UNCHANGED rowVars
    BY <1>2, ChainLostEffect
  <2>2. jobs'[j].pc = "return"
    BY <2>1, ChainLeft, CodegenIsChain
  <2>3. QED
    BY <1>1, <2>1, <2>2 DEF OnlyMoves, Untouched, Others, Stays, Past
<1>3. CASE Reports(j)
  BY <1>1, <1>3, ReportEffect DEF OnlyMoves, Untouched, Others, Stays, Past
<1>4. CASE Timeout(j)
  BY <1>1, <1>4, TimeoutEffect DEF OnlyMoves, Untouched, Others
<1>5. CASE Crash(j)
  BY <1>1, <1>5, CrashEffect DEF OnlyMoves, Untouched, Others, Stays
<1>6. CASE Rescue(j)
  BY <1>1, <1>6, RescueEffect DEF OnlyMoves, Untouched, Others
<1>7. QED
  BY <1>2, <1>3, <1>4, <1>5, <1>6 DEF MovesOn

-----------------------------------------------------------------------------
(* The generations a run creates and hands from worker to worker. *)

(* create_pr has a generation from the moment its job exists, generate_code*)
(* from the moment it has inserted the row.                                *)
CarriesGen(r, l) ==
    /\ r.kind = "create_pr" /\ Exists(r) => l.gen \in Gens
    /\ r.kind = "generate_code" =>
          (r.pc = "chain" \/ (r.pc = "body" /\ l.step = "created") => l.gen \in Gens)

GensCarried == \A j \in JobIds : CarriesGen(jobs[j], local[j])

(* The statements on generations keep their types. *)
LEMMA GenTypeStep ==
    ASSUME TypeOK, Consistent, PlansHeld, GenTypeOK, GensCarried, CodegenNext
    PROVE  GenTypeOK'
<1> USE DEF GenTypeOK
<1>1. ExecutionSound
  BY DEF Consistent
<1>2. CASE UNCHANGED genVars
  BY <1>2 DEF genVars
<1>3. CASE CreateRequestedGen
  BY <1>3 DEF CreateRequestedGen, GenStatus
<1>4. ASSUME NEW j \in JobIds, CodegenStart(j) \/ CodegenReturn(j) PROVE GenTypeOK'
  BY <1>1, <1>4, CodegenStartEffect, CodegenReturnEffect
<1>5. ASSUME NEW j \in JobIds, CreateGeneration(j) PROVE GenTypeOK'
  <2>1. genStatus' \in [Gens -> GenStatus]
    BY <1>5, CreateGenerationEffect DEF FreeGens, GenStatus
  <2>2. QED
    BY <1>5, <2>1, CreateGenerationEffect
<1>6. ASSUME NEW j \in JobIds, jobs[j].pc = "body", jobs[j].kind = "create_pr"
      PROVE  local[j].gen \in Gens
  BY <1>1, <1>6 DEF GensCarried, CarriesGen, Exists, ExecutionSound
<1>7. ASSUME NEW j \in JobIds, OpenPR(j) PROVE GenTypeOK'
  BY <1>6, <1>7, OpenPREffect
<1>8. ASSUME NEW j \in JobIds, SavePR(j) \/ SaveWithoutPR(j) PROVE GenTypeOK'
  <2>1. local[j].gen \in Gens
    BY <1>6, <1>8, SaveEffect
  <2>2. genStatus' \in [Gens -> GenStatus] /\ genPR' \in SUBSET Gens
    BY <1>8, <2>1, SaveEffect DEF GenStatus
  <2>3. unsaved' \in SUBSET Gens
    BY <1>8, <2>1, SaveEffect
  <2>4. QED
    BY <1>8, <2>2, <2>3, SaveEffect
<1>9. ASSUME NEW j \in JobIds, NotifyByEmail(j) PROVE GenTypeOK'
  <2>1. emails' \in 0 .. MaxCount
    BY <1>9, NotifyByEmailEffect, EngineAssumption
  <2>2. QED
    BY <1>9, <2>1, NotifyByEmailEffect
<1>10. ASSUME NEW j \in JobIds, Ends(j) PROVE GenTypeOK'
  BY <1>1, <1>2, <1>10, EndsEffect
<1>11. ASSUME NEW j \in JobIds, NEW n \in JobIds, CodegenChain(j, n) PROVE GenTypeOK'
  BY <1>1, <1>11, CodegenChainEffect
<1>12. QED
  BY <1>2, <1>3, <1>4, <1>5, <1>7, <1>8, <1>9, <1>10, <1>11, CodegenCases DEF Ends

(* Only generate_code hands its generation on to create_pr, create_pr its  *)
(* own to notify.                                                          *)
LEMMA Handovers ==
    ASSUME NEW t \in Tasks, NEW p \in Plans[t], p.chain # <<>>
    PROVE  /\ Head(p.chain) = "create_pr" <=> t = "generate_code"
           /\ Head(p.chain) = "notify" <=> t = "create_pr"
           /\ Head(p.chain) = "generate_code" <=> t = "build_context"
           /\ t # "notify"
<1>1. p \in CodegenPlans[t] /\ t \in CodegenTasks
  BY CodegenAssumption
<1>2. PICK next \in CodegenTasks :
         /\ p = Chains(next)
         /\ next = "create_pr" <=> t = "generate_code"
         /\ next = "notify" <=> t = "create_pr"
         /\ next = "generate_code" <=> t = "build_context"
         /\ t # "notify"
  BY <1>1 DEF CodegenTasks, CodegenPlans, FetchSpecPlans, IndexRepoPlans,
     BuildContextPlans, GenerateCodePlans, CreatePRPlans, NotifyPlans,
     FailsAndTells, FinishesAndAsks, Fails, Finishes
<1>3. p.chain = <<next>>
  BY <1>2 DEF Chains
<1>4. Head(p.chain) = next
  BY <1>3
<1>5. QED
  BY <1>2, <1>4

LEMMA GensCarriedStep ==
    ASSUME TypeOK, Consistent, PlansHeld, GenTypeOK, GensCarried, CodegenNext
    PROVE  GensCarried'
<1>1. SUFFICES ASSUME NEW i \in JobIds PROVE CarriesGen(jobs'[i], local'[i])
  BY DEF GensCarried
<1> DEFINE Goal == CarriesGen(jobs'[i], local'[i])
<1> SUFFICES Goal
  OBVIOUS
<1>2. ExecutionSound /\ RunCreatedFirst
  BY DEF Consistent
<1>3. \A j \in JobIds : CarriesGen(jobs[j], local[j])
  BY DEF GensCarried
<1>4. ASSUME Untouched(i) PROVE Goal
  BY <1>3, <1>4 DEF Untouched
<1>5. ASSUME Exists(jobs[i]), jobs'[i].kind = jobs[i].kind, local'[i].gen = local[i].gen,
             jobs'[i].pc \notin {"chain", "body"}
      PROVE  Goal
  BY <1>3, <1>5 DEF CarriesGen
<1> HIDE DEF Goal
<1>6. CASE LeavesJobs /\ UNCHANGED genVars
  <2>1. Untouched(i)
    BY <1>6, LeavesJobsEffect DEF Untouched, genVars
  <2>2. QED
    BY <1>4, <2>1
<1>7. CASE CreateRequestedGen
  BY <1>4, <1>7 DEF CreateRequestedGen, Untouched, vars
<1>8. ASSUME NEW n \in JobIds, EnqueueEntry(n), UNCHANGED genVars PROVE Goal
  <2>1. Others(n) /\ Inserted(jobs'[n], Entry) /\ local' = local
    BY <1>2, <1>8, EnqueueEffect DEF genVars
  <2>2. Entry # "create_pr"
    <3>1. SortOrder[Entry] <= SortOrder["generate_code"]
      BY CodegenAssumption
    <3>2. SortOrder["generate_code"] = 3
      BY CodegenAssumption, CodegenOrderValues
    <3>3. Entry = "create_pr" => SortOrder[Entry] = 4
      BY CodegenAssumption, CodegenOrderValues
    <3>4. QED
      BY <3>1, <3>2, <3>3
  <2>3. i = n => Goal
    BY <2>1, <2>2 DEF Goal, CarriesGen, Inserted
  <2>4. QED
    BY <1>4, <2>1, <2>3 DEF Others, Untouched
<1>9. ASSUME NEW j \in JobIds, CodegenStart(j) PROVE Goal
  <2>1. /\ OnlyMoves(j) /\ jobs'[j].kind = jobs[j].kind /\ Exists(jobs[j])
        /\ jobs'[j].pc = "body" /\ local'[j].step = "start" /\ local'[j].gen = local[j].gen
    BY <1>9, CodegenStartEffect DEF Stays, Exists
  <2>2. i = j => Goal
    BY <1>3, <2>1 DEF Goal, CarriesGen
  <2>3. QED
    BY <1>4, <2>1, <2>2 DEF OnlyMoves
<1>10. ASSUME NEW j \in JobIds, CreateGeneration(j) PROVE Goal
  <2>1. /\ OnlyMoves(j) /\ jobs'[j] = jobs[j] /\ jobs[j].kind = "generate_code"
        /\ local'[j].gen \in Gens
    BY <1>10, CreateGenerationEffect DEF FreeGens
  <2>2. i = j => Goal
    BY <2>1 DEF Goal, CarriesGen
  <2>3. QED
    BY <1>4, <2>1, <2>2 DEF OnlyMoves
<1>11. ASSUME NEW j \in JobIds,
              OpenPR(j) \/ SavePR(j) \/ SaveWithoutPR(j) \/ NotifyByEmail(j)
       PROVE  Goal
  <2>1. /\ OnlyMoves(j) /\ jobs'[j] = jobs[j] /\ jobs[j].kind \in {"create_pr", "notify"}
        /\ local'[j].gen = local[j].gen
    BY <1>11, OpenPREffect, SaveEffect, NotifyByEmailEffect
  <2>2. i = j => Goal
    BY <1>3, <2>1 DEF Goal, CarriesGen
  <2>3. QED
    BY <1>4, <2>1, <2>2 DEF OnlyMoves
<1>12. ASSUME NEW j \in JobIds, Ends(j) PROVE Goal
  <2>1. /\ OnlyMoves(j) /\ jobs'[j].kind = jobs[j].kind /\ Exists(jobs[j]) /\ local' = local
        /\ jobs[j].pc = "body"
    BY <1>2, <1>12, EndsEffect DEF Stays, Exists
  <2>2. PICK p \in Plans[jobs[j].kind] :
           /\ p \in Plan /\ jobs'[j].pc = AfterMark(p)
           /\ p.mark = "completed" =>
                 DoneBy(jobs[j].kind, local[j].step, local[j].gen, genPR)
    BY <1>2, <1>12, EndsEffect
  <2>3. jobs'[j].pc # "body" /\ (jobs'[j].pc = "chain" => p.chain # <<>>)
    BY <2>2 DEF AfterMark, AfterCheck
  <2>4. p.chain # <<>> => p.mark = "completed"
    BY <2>2, CodegenIsChain DEF IsChain, Links, TypeOK, Job
  <2>5. i = j => Goal
    BY <1>3, <2>1, <2>2, <2>3, <2>4 DEF Goal, CarriesGen, DoneBy
  <2>6. QED
    BY <1>4, <2>1, <2>5 DEF OnlyMoves
<1>13. ASSUME NEW j \in JobIds, NEW n \in JobIds, CodegenChain(j, n) PROVE Goal
  <2>1. /\ Stays(j) /\ jobs[j].state = "running" /\ jobs[j].pc = "chain"
        /\ \A k \in JobIds : k # j /\ k # n => Untouched(k)
        /\ jobs'[j].pc = "return" /\ local'[j] = local[j]
        /\ jobs[j].plan \in Plans[jobs[j].kind] /\ jobs[j].plan.chain # <<>>
        /\ Inserted(jobs'[n], Head(jobs[j].plan.chain)) /\ local'[n].gen = local[j].gen
    BY <1>2, <1>13, CodegenChainEffect
  <2>2. i = j => Goal
    BY <1>5, <2>1 DEF Stays, Exists
  <2>3. Head(jobs[j].plan.chain) = "create_pr" => jobs[j].kind = "generate_code"
    BY <2>1, Handovers DEF TypeOK, Job
  <2>4. i = n => Goal
    BY <1>3, <2>1, <2>3 DEF Goal, CarriesGen, Inserted
  <2>5. QED
    BY <1>4, <2>1, <2>2, <2>4
<1>14. ASSUME NEW j \in JobIds, CodegenReturn(j) PROVE Goal
  <2>1. /\ OnlyMoves(j) /\ jobs[j].state = "running" /\ jobs'[j].kind = jobs[j].kind
        /\ jobs'[j].pc = "idle" /\ local'[j].gen = local[j].gen
    BY <1>2, <1>14, CodegenReturnEffect
  <2>2. i = j => Goal
    BY <1>5, <2>1 DEF Exists
  <2>3. QED
    BY <1>4, <2>1, <2>2 DEF OnlyMoves
<1>15. ASSUME NEW j \in JobIds, MovesOn(j), UNCHANGED genVars PROVE Goal
  <2>1. /\ OnlyMoves(j) /\ jobs[j].state # "none" /\ jobs'[j].kind = jobs[j].kind
        /\ local' = local
        /\ jobs'[j].pc = jobs[j].pc \/ jobs'[j].pc \in Past \cup {"lost", "idle"}
    BY <1>2, <1>15, MovesOnEffect
  <2>2. i = j => Goal
    BY <1>3, <2>1 DEF Goal, CarriesGen, Past, ReportPlaces, Exists
  <2>3. QED
    BY <1>4, <2>1, <2>2 DEF OnlyMoves
<1>16. QED
  <2>1. ASSUME NEW j \in JobIds,
               \/ CodegenStart(j) \/ CreateGeneration(j) \/ OpenPR(j)
               \/ SavePR(j) \/ SaveWithoutPR(j) \/ NotifyByEmail(j)
               \/ ReadOnlyWork(j) \/ GenerateCodeEnds(j) \/ CreatePREnds(j)
               \/ NotifyEnds(j)
        PROVE  Goal
    BY <1>9, <1>10, <1>11, <1>12, <2>1 DEF Ends
  <2>2. ASSUME NEW j \in JobIds,
               \/ \E n \in JobIds : CodegenChain(j, n)
               \/ CodegenReturn(j)
               \/ (ChainLost(j) \/ Reports(j)) /\ UNCHANGED genVars
               \/ (Timeout(j) \/ Crash(j) \/ Rescue(j)) /\ UNCHANGED genVars
        PROVE  Goal
    BY <1>13, <1>14, <1>15, <2>2 DEF MovesOn
  <2>3. QED
    BY <1>6, <1>7, <1>8, <2>1, <2>2, CodegenCases

(* The generations and who carries them. *)
CodegenSound == GenTypeOK /\ GensCarried

LEMMA CodegenSoundKept ==
    CodegenSpec => [](TypeOK /\ Consistent /\ ChainInv(Tasks) /\ CodegenSound)
<1>1. CodegenInit => CodegenSound
  <2> SUFFICES ASSUME CodegenInit PROVE CodegenSound
    OBVIOUS
  <2>1. GenTypeOK
    BY EngineAssumption DEF CodegenInit, GenTypeOK, GenStatus, LocalRow, Step
  <2>2. GensCarried
    BY DEF CodegenInit, Init, NoJob, GensCarried, CarriesGen, Exists
  <2>3. QED
    BY <2>1, <2>2 DEF CodegenSound
<1>2. /\ TypeOK /\ Consistent /\ ChainInv(Tasks) /\ CodegenSound
      /\ [CodegenNext]_codegenVars
      => CodegenSound'
  <2> SUFFICES ASSUME TypeOK, Consistent, ChainInv(Tasks), CodegenSound,
                      [CodegenNext]_codegenVars
               PROVE  CodegenSound'
    OBVIOUS
  <2>1. CASE CodegenNext
    BY <2>1, GenTypeStep, GensCarriedStep DEF CodegenSound, ChainInv
  <2>2. CASE UNCHANGED codegenVars
    BY <2>2 DEF codegenVars, vars, genVars, CodegenSound, GenTypeOK, GensCarried
  <2>3. QED
    BY <2>1, <2>2
<1>3. QED
  BY <1>1, <1>2, CodegenChainKept, PTL DEF CodegenSpec

(* Every variable of a codegen run keeps its type: an execution of         *)
(* create_pr, however often it is repeated, has a generation to work on.   *)
THEOREM CodegenTypeCorrect == CodegenSpec => []CodegenTypeOK
<1>1. CodegenInit => readable \in BOOLEAN
  BY CodegenAssumption DEF CodegenInit
<1>2. readable \in BOOLEAN /\ [CodegenNext]_codegenVars => (readable \in BOOLEAN)'
  BY DEF CodegenNext, codegenVars
<1>3. TypeOK /\ CodegenSound /\ readable \in BOOLEAN => CodegenTypeOK
  BY DEF CodegenSound, GenTypeOK, LocalRow, CodegenTypeOK
<1>4. QED
  BY <1>1, <1>2, <1>3, CodegenSoundKept, PTL DEF CodegenSpec

-----------------------------------------------------------------------------
(* What a step does to one job and its generation: at most one of its own  *)
(* statements, or its insertion.                                           *)
RowMoves(i) ==
    \/ CodegenStart(i) \/ CreateGeneration(i) \/ OpenPR(i)
    \/ SavePR(i) \/ SaveWithoutPR(i) \/ NotifyByEmail(i)
    \/ Ends(i)
    \/ \E n \in JobIds : CodegenChain(i, n)
    \/ CodegenReturn(i)
    \/ MovesOn(i) /\ UNCHANGED genVars

RowInserted(i) ==
    \/ EnqueueEntry(i) /\ UNCHANGED genVars
    \/ \E j \in JobIds : CodegenChain(j, i)

CodegenReady == TypeOK /\ Consistent /\ ChainInv(Tasks) /\ CodegenSound

LEMMA RowCases ==
    ASSUME CodegenReady, CodegenNext, NEW i \in JobIds
    PROVE  Untouched(i) \/ RowInserted(i) \/ RowMoves(i)
<1> DEFINE Goal == Untouched(i) \/ RowInserted(i) \/ RowMoves(i)
<1> SUFFICES Goal
  OBVIOUS
<1>1. /\ TypeOK /\ ExecutionSound /\ RunCreatedFirst /\ PlansHeld /\ GenTypeOK
  BY DEF CodegenReady, Consistent, ChainInv, CodegenSound
<1>2. ASSUME NEW j \in JobIds, OnlyMoves(j), RowMoves(j) PROVE Goal
  BY <1>2 DEF OnlyMoves
<1> HIDE DEF Goal
<1>3. CASE LeavesJobs /\ UNCHANGED genVars
  BY <1>3, LeavesJobsEffect DEF Goal, Untouched, genVars
<1>4. CASE CreateRequestedGen
  BY <1>4 DEF Goal, CreateRequestedGen, Untouched, vars
<1>5. ASSUME NEW n \in JobIds, EnqueueEntry(n), UNCHANGED genVars PROVE Goal
  BY <1>1, <1>5, EnqueueEffect DEF Goal, RowInserted, Others, Untouched, genVars
<1>6. ASSUME NEW j \in JobIds,
             \/ CodegenStart(j) \/ CreateGeneration(j) \/ OpenPR(j)
             \/ SavePR(j) \/ SaveWithoutPR(j) \/ NotifyByEmail(j)
      PROVE  Goal
  <2>1. OnlyMoves(j)
    BY <1>1, <1>6, CodegenStartEffect, CreateGenerationEffect, OpenPREffect, SaveEffect,
       NotifyByEmailEffect
  <2>2. QED
    BY <1>2, <1>6, <2>1 DEF RowMoves
<1>7. ASSUME NEW j \in JobIds, Ends(j) PROVE Goal
  BY <1>1, <1>2, <1>7, EndsEffect DEF RowMoves
<1>8. ASSUME NEW j \in JobIds, CodegenReturn(j) PROVE Goal
  BY <1>1, <1>2, <1>8, CodegenReturnEffect DEF RowMoves
<1>9. ASSUME NEW j \in JobIds, MovesOn(j), UNCHANGED genVars PROVE Goal
  BY <1>1, <1>2, <1>9, MovesOnEffect DEF RowMoves
<1>10. ASSUME NEW j \in JobIds, NEW n \in JobIds, CodegenChain(j, n) PROVE Goal
  <2>1. i # j /\ i # n => Untouched(i)
    BY <1>1, <1>10, CodegenChainEffect
  <2>2. QED
    BY <1>10, <2>1 DEF Goal, RowInserted, RowMoves
<1>11. QED
  <2>1. ASSUME NEW j \in JobIds,
               \/ CodegenStart(j) \/ CreateGeneration(j) \/ OpenPR(j)
               \/ SavePR(j) \/ SaveWithoutPR(j) \/ NotifyByEmail(j)
               \/ ReadOnlyWork(j) \/ GenerateCodeEnds(j) \/ CreatePREnds(j)
               \/ NotifyEnds(j)
        PROVE  Goal
    BY <1>6, <1>7, <2>1 DEF Ends
  <2>2. ASSUME NEW j \in JobIds,
               \/ \E n \in JobIds : CodegenChain(j, n)
               \/ CodegenReturn(j)
               \/ (ChainLost(j) \/ Reports(j)) /\ UNCHANGED genVars
               \/ (Timeout(j) \/ Crash(j) \/ Rescue(j)) /\ UNCHANGED genVars
        PROVE  Goal
    BY <1>8, <1>9, <1>10, <2>2 DEF MovesOn
  <2>3. QED
    BY <1>3, <1>4, <1>5, <2>1, <2>2, CodegenCases

(* What a step may do to the generations, the pull requests and the emails.*)
LEMMA WorkCases ==
    ASSUME CodegenReady, CodegenNext
    PROVE  \/ UNCHANGED <<genStatus, genPR, github, unsaved, emails>>
           \/ CreateRequestedGen /\ UNCHANGED <<genPR, github, unsaved, emails>>
           \/ \E j \in JobIds :
                 \/ CreateGeneration(j) \/ OpenPR(j) \/ SavePR(j) \/ SaveWithoutPR(j)
                 \/ NotifyByEmail(j)
<1>1. /\ TypeOK /\ ExecutionSound /\ PlansHeld /\ GenTypeOK
  BY DEF CodegenReady, Consistent, ChainInv, CodegenSound
<1>2. CASE UNCHANGED genVars
  BY <1>2 DEF genVars
<1>3. CASE CreateRequestedGen
  BY <1>3 DEF CreateRequestedGen
<1>4. ASSUME NEW j \in JobIds,
             \/ CodegenStart(j) \/ Ends(j) \/ CodegenReturn(j)
             \/ \E n \in JobIds : CodegenChain(j, n)
      PROVE  UNCHANGED <<genStatus, genPR, github, unsaved, emails>>
  BY <1>4 DEF CodegenStart, CodegenReturn, CodegenChain, Ends, ReadOnlyWork,
     GenerateCodeEnds, CreatePREnds, NotifyEnds, Mark, Fail, genVars
<1>5. QED
  BY <1>2, <1>3, <1>4, CodegenCases DEF Ends

(* A generation that is completed stays completed, a pull request recorded *)
(* or open stays so, and so does the memory of a failed update.            *)
LEMMA WorkIsKept ==
    ASSUME CodegenReady, CodegenNext
    PROVE  /\ \A g \in Gens : genStatus[g] = "completed" => genStatus'[g] = "completed"
           /\ genPR \subseteq genPR' /\ github \subseteq github' /\ unsaved \subseteq unsaved'
<1>1. /\ TypeOK /\ GenTypeOK
  BY DEF CodegenReady, CodegenSound
<1>2. CASE CreateRequestedGen /\ UNCHANGED <<genPR, github, unsaved, emails>>
  BY <1>1, <1>2 DEF CreateRequestedGen, GenTypeOK
<1>3. ASSUME NEW j \in JobIds, CreateGeneration(j)
      PROVE  /\ \A g \in Gens : genStatus[g] = "completed" => genStatus'[g] = "completed"
             /\ UNCHANGED <<genPR, github, unsaved>>
  BY <1>1, <1>3, CreateGenerationEffect DEF FreeGens, GenTypeOK
<1>4. ASSUME NEW j \in JobIds, SavePR(j) \/ SaveWithoutPR(j)
      PROVE  /\ \A g \in Gens : genStatus[g] = "completed" => genStatus'[g] = "completed"
             /\ genPR \subseteq genPR' /\ UNCHANGED github /\ unsaved \subseteq unsaved'
  BY <1>1, <1>4, SaveEffect DEF GenTypeOK
<1>5. ASSUME NEW j \in JobIds, OpenPR(j) \/ NotifyByEmail(j)
      PROVE  UNCHANGED <<genStatus, genPR, unsaved>> /\ github \subseteq github'
  BY <1>1, <1>5, OpenPREffect, NotifyByEmailEffect
<1>6. QED
  BY <1>2, <1>3, <1>4, <1>5, WorkCases

(* The run begins before there is code to publish. *)
LEMMA EntryIsEarly == Entry \in Tasks /\ Entry # "create_pr" /\ Entry # "notify"
<1>1. SortOrder[Entry] <= SortOrder["generate_code"] /\ Entry \in Tasks
  BY CodegenAssumption, EngineAssumption
<1>2. SortOrder["generate_code"] = 3
  BY CodegenAssumption, CodegenOrderValues
<1>3. SortOrder["create_pr"] = 4 /\ SortOrder["notify"] = 5
  BY CodegenAssumption, CodegenOrderValues
<1>4. QED
  BY <1>1, <1>2, <1>3

LEMMA TroublesGrow ==
    ASSUME CodegenReady, CodegenNext
    PROVE  /\ budget'.faults = 0 => budget.faults = 0
           /\ budget'.crashes = 0 => budget.crashes = 0
           /\ budget'.retries = 0 => budget.retries = 0
<1>1. TypeOK
  BY DEF CodegenReady
<1>2. CASE Next
  BY <1>1, <1>2, BudgetGrows DEF TypeOK, Budget
<1>3. CASE UNCHANGED vars
  BY <1>3 DEF vars
<1>4. QED
  BY <1>2, <1>3, CodegenStep

(* Without a fault every statement of a job succeeds; without a crash none *)
(* is lost.                                                                *)
LEMMA CalmCodegenSteps ==
    ASSUME CodegenReady, CodegenNext, budget'.faults = 0, NEW j \in JobIds
    PROVE  budget.faults = 0 /\ ~Errs(j) /\ ~Timeout(j)
<1>1. TypeOK /\ Unhurt
  BY DEF CodegenReady, ChainInv
<1>2. CASE Next
  <2>1. budget.faults = 0 /\ ~Errs(j) /\ ~Fault
    BY <1>1, <1>2, CalmStatements
  <2>2. QED
    BY <2>1 DEF Timeout
<1>3. CASE UNCHANGED vars
  <2>1. budget.faults = 0 /\ ~Fault
    BY <1>1, <1>3 DEF Fault, vars, TypeOK, Budget
  <2>2. QED
    BY <1>1, <2>1 DEF Unhurt, Errs, Timeout
<1>4. QED
  BY <1>2, <1>3, CodegenStep

LEMMA SteadySteps ==
    ASSUME CodegenReady, CodegenNext, budget'.crashes = 0, NEW j \in JobIds
    PROVE  budget.crashes = 0 /\ ~Crash(j)
<1>1. TypeOK /\ ExecutionSound
  BY DEF CodegenReady, Consistent
<1>2. CASE Next
  <2>1. budget.crashes = 0
    BY <1>1, <1>2, BudgetGrows DEF TypeOK, Budget
  <2>2. QED
    BY <1>1, <2>1, CrashEffect
<1>3. CASE UNCHANGED vars
  <2>1. budget' = budget
    BY <1>3 DEF vars
  <2>2. QED
    BY <1>1, <2>1, CrashEffect
<1>4. QED
  BY <1>2, <1>3, CodegenStep

-----------------------------------------------------------------------------
(* A run that goes on after create_pr has a generation that is completed,  *)
(* or of which only the update was lost.                                   *)

SomeGenSaved == \E g \in Gens : genStatus[g] = "completed" \/ g \in unsaved

(* What has happened to the generation when the job is where it is. *)
BeyondSave(r, l) ==
    \/ r.kind = "create_pr" /\ (r.pc = "chain" \/ (r.pc = "body" /\ l.step = "saved"))
    \/ r.kind = "notify" /\ Exists(r)

SavedFirst == \A j \in JobIds : BeyondSave(jobs[j], local[j]) => SomeGenSaved

LEMMA SavedFirstStep ==
    ASSUME CodegenReady, SavedFirst, CodegenNext
    PROVE  SavedFirst'
<1>1. SUFFICES ASSUME NEW i \in JobIds,
                      BeyondSave(jobs'[i], local'[i]), ~SomeGenSaved'
               PROVE  FALSE
  BY DEF SavedFirst
<1>2. /\ TypeOK /\ ExecutionSound /\ RunCreatedFirst /\ PlansHeld /\ GenTypeOK
  BY DEF CodegenReady, Consistent, ChainInv, CodegenSound
<1>4. ASSUME NEW j \in JobIds, BeyondSave(jobs[j], local[j]) PROVE FALSE
  BY <1>1, <1>4, WorkIsKept DEF SavedFirst, SomeGenSaved
<1>5. CASE Untouched(i)
  BY <1>1, <1>4, <1>5 DEF Untouched
<1>6. CASE RowInserted(i)
  <2>1. ASSUME EnqueueEntry(i) PROVE jobs'[i].kind = Entry /\ jobs'[i].pc = "idle"
    BY <1>2, <2>1, EnqueueEffect DEF Inserted
  <2>2. ASSUME NEW j \in JobIds, CodegenChain(j, i) PROVE FALSE
    <3>1. /\ jobs[j].pc = "chain" /\ jobs[j].plan \in Plans[jobs[j].kind]
          /\ jobs[j].plan.chain # <<>>
          /\ Inserted(jobs'[i], Head(jobs[j].plan.chain))
      BY <1>2, <2>2, CodegenChainEffect
    <3>2. jobs'[i].kind = "notify"
      BY <1>1, <3>1 DEF BeyondSave, Inserted
    <3>3. jobs[j].kind = "create_pr"
      BY <1>2, <3>1, <3>2, Handovers DEF Inserted, TypeOK, Job
    <3>4. QED
      BY <1>4, <3>1, <3>3 DEF BeyondSave
  <2>3. QED
    BY <1>1, <1>6, <2>1, <2>2, EntryIsEarly DEF RowInserted, BeyondSave
<1>7. ASSUME Exists(jobs[i]), jobs'[i].kind = jobs[i].kind,
             \/ jobs'[i].pc \notin {"chain", "body"}
             \/ jobs'[i].pc = "body" /\ local'[i].step # "saved"
             \/ jobs'[i].pc = jobs[i].pc /\ local'[i].step = local[i].step
      PROVE  FALSE
  BY <1>1, <1>4, <1>7 DEF BeyondSave
<1>8. CASE CodegenStart(i) \/ CodegenReturn(i)
  BY <1>2, <1>7, <1>8, CodegenStartEffect, CodegenReturnEffect DEF Exists, Stays
<1>9. CASE CreateGeneration(i)
  BY <1>1, <1>2, <1>9, CreateGenerationEffect DEF BeyondSave
<1>10. CASE OpenPR(i)
  BY <1>1, <1>2, <1>10, OpenPREffect DEF BeyondSave
<1>11. CASE SavePR(i) \/ SaveWithoutPR(i)
  <2>1. /\ \/ genStatus' = [genStatus EXCEPT ![local[i].gen] = "completed"]
           \/ unsaved' = unsaved \cup {local[i].gen}
        /\ jobs' = jobs /\ jobs[i].pc = "body" /\ jobs[i].kind = "create_pr"
    BY <1>1, <1>2, <1>11, SaveEffect DEF BeyondSave
  <2>2. local[i].gen \in Gens
    BY <1>2, <2>1 DEF CodegenReady, CodegenSound, GensCarried, CarriesGen, Exists, ExecutionSound
  <2>3. SomeGenSaved'
    BY <1>2, <2>1, <2>2 DEF SomeGenSaved, GenTypeOK
  <2>4. QED
    BY <1>1, <2>3
<1>12. CASE NotifyByEmail(i)
  BY <1>2, <1>4, <1>12, NotifyByEmailEffect DEF BeyondSave, Exists, ExecutionSound
<1>13. CASE Ends(i)
  <2>1. /\ jobs[i].pc = "body" /\ jobs[i].state = "running" /\ jobs'[i].kind = jobs[i].kind
        /\ local' = local
    BY <1>2, <1>13, EndsEffect DEF Stays
  <2>2. PICK p \in Plan :
           /\ p \in Plans[jobs[i].kind] /\ jobs'[i].pc = AfterMark(p)
           /\ p.mark = "completed" =>
                 DoneBy(jobs[i].kind, local[i].step, local[i].gen, genPR)
    BY <1>2, <1>13, EndsEffect
  <2>3. jobs'[i].pc # "body" /\ (jobs'[i].pc = "chain" => p.chain # <<>>)
    BY <2>2 DEF AfterMark, AfterCheck
  <2>4. p.chain # <<>> => p.mark = "completed"
    BY <1>2, <2>2, CodegenIsChain DEF IsChain, Links, TypeOK, Job
  <2>5. QED
    BY <1>1, <1>4, <2>1, <2>2, <2>3, <2>4 DEF BeyondSave, DoneBy, Exists
<1>14. CASE \E n \in JobIds : CodegenChain(i, n)
  BY <1>2, <1>7, <1>14, CodegenChainEffect DEF Exists, Stays
<1>15. CASE MovesOn(i) /\ UNCHANGED genVars
  <2>1. /\ jobs[i].state # "none" /\ jobs'[i].kind = jobs[i].kind /\ local' = local
        /\ jobs'[i].pc = jobs[i].pc \/ jobs'[i].pc \in Past \cup {"lost", "idle"}
    BY <1>2, <1>15, MovesOnEffect
  <2>2. QED
    BY <1>7, <2>1 DEF Exists, Past, ReportPlaces
<1>16. QED
  BY <1>5, <1>6, <1>8, <1>9, <1>10, <1>11, <1>12, <1>13, <1>14, <1>15, RowCases DEF RowMoves

(* A run is reported completed only when create_pr has completed a         *)
(* generation of it, or has logged that the one statement that should have *)
(* done so failed, whatever else fails or crashes.                         *)
THEOREM CompletionHasGeneration == CodegenSpec => []CompletedRunHasGeneration
<1>1. CodegenInit => SavedFirst
  BY DEF CodegenInit, Init, NoJob, SavedFirst, BeyondSave, Exists
<1>2. CodegenReady /\ SavedFirst /\ [CodegenNext]_codegenVars => SavedFirst'
  <2> SUFFICES ASSUME CodegenReady, SavedFirst, [CodegenNext]_codegenVars PROVE SavedFirst'
    OBVIOUS
  <2>1. CASE CodegenNext
    BY <2>1, SavedFirstStep
  <2>2. CASE UNCHANGED codegenVars
    BY <2>2 DEF codegenVars, vars, genVars, SavedFirst, SomeGenSaved
  <2>3. QED
    BY <2>1, <2>2
<1>3. CodegenReady /\ SavedFirst => CompletedRunHasGeneration
  <2> SUFFICES ASSUME CodegenReady, SavedFirst, runStatus = "completed"
               PROVE  SomeGenSaved
    BY DEF CompletedRunHasGeneration, SomeGenSaved
  <2>1. "notify" \in everCompleted
    BY CodegenAssumption DEF CodegenReady, ChainInv, CompletionCovered
  <2>2. \E j \in JobIds : Exists(jobs[j]) /\ jobs[j].kind = "notify"
    BY <2>1 DEF CodegenReady, ChainInv, CompletedByJobs
  <2>3. QED
    BY <2>2 DEF SavedFirst, BeyondSave
<1>4. CodegenSpec => []CodegenReady
  BY CodegenSoundKept DEF CodegenReady
<1>5. QED
  BY <1>1, <1>2, <1>3, <1>4, PTL DEF CodegenSpec

-----------------------------------------------------------------------------
(* Pull requests are recorded.                                             *)

(* The execution that has opened g's pull request and not yet said so. *)
HasOpened(r, l, g) ==
    r.kind = "create_pr" /\ r.pc = "body" /\ l.step = "opened" /\ l.gen = g

Recorded(g) == g \in genPR /\ genStatus[g] = "completed"

OpenedOrRecorded ==
    budget.faults = 0 /\ budget.crashes = 0 => \A g \in github :
        Recorded(g) \/ \E j \in JobIds : HasOpened(jobs[j], local[j], g)

LEMMA OpenedOrRecordedStep ==
    ASSUME CodegenReady, OpenedOrRecorded, CodegenNext
    PROVE  OpenedOrRecorded'
<1>1. SUFFICES ASSUME budget'.faults = 0, budget'.crashes = 0, NEW g \in github'
               PROVE  Recorded(g)' \/ \E j \in JobIds : HasOpened(jobs'[j], local'[j], g)
  BY DEF OpenedOrRecorded
<1>2. /\ TypeOK /\ ExecutionSound /\ PlansHeld /\ GenTypeOK
  BY DEF CodegenReady, Consistent, ChainInv, CodegenSound
<1>3. \A j \in JobIds : ~Errs(j) /\ ~Timeout(j) /\ ~Crash(j)
  BY <1>1, CalmCodegenSteps, SteadySteps
<1>4. budget.faults = 0 /\ budget.crashes = 0
  BY <1>1, TroublesGrow
<1>5. CASE g \in github
  <2>1. CASE Recorded(g)
    BY <1>2, <1>5, <2>1, WorkIsKept DEF Recorded, GenTypeOK
  <2>2. ASSUME NEW i \in JobIds, HasOpened(jobs[i], local[i], g)
        PROVE  Recorded(g)' \/ HasOpened(jobs'[i], local'[i], g)
    <3> USE DEF HasOpened
    <3>1. jobs[i].kind = "create_pr" /\ jobs[i].pc = "body" /\ local[i].step = "opened"
          /\ local[i].gen = g /\ jobs[i].state = "running"
      BY <1>2, <2>2 DEF ExecutionSound
    <3>2. CASE Untouched(i)
      BY <2>2, <3>2 DEF Untouched
    <3>3. ~RowInserted(i)
      BY <1>2, <3>1, CodegenChainEffect
         DEF RowInserted, EnqueueEntry, IsNextId
    <3>4. ~(\/ CodegenStart(i) \/ CreateGeneration(i) \/ OpenPR(i) \/ SaveWithoutPR(i)
            \/ NotifyByEmail(i) \/ Ends(i) \/ CodegenReturn(i)
            \/ \E n \in JobIds : CodegenChain(i, n))
      <4>1. ~CodegenStart(i) /\ ~CreateGeneration(i) /\ ~OpenPR(i) /\ ~SaveWithoutPR(i)
            /\ ~NotifyByEmail(i)
        BY <3>1 DEF CodegenStart, StartTask, CreateGeneration, OpenPR, SaveWithoutPR,
           NotifyByEmail, At
      <4>2. ~Ends(i)
        BY <1>2, <3>1, EndsEffect DEF Plan, DoneBy, GivenUpBy
      <4>3. ~CodegenReturn(i) /\ ~\E n \in JobIds : CodegenChain(i, n)
        BY <3>1 DEF CodegenReturn, Return, CodegenChain, ChainInsert
      <4>4. QED
        BY <4>1, <4>2, <4>3
    <3>5. CASE SavePR(i)
      <4>1. /\ genStatus' = [genStatus EXCEPT ![g] = "completed"] /\ genPR' = genPR \cup {g}
        BY <1>2, <1>3, <3>1, <3>5, SaveEffect
      <4>2. QED
        BY <1>2, <1>5, <4>1 DEF Recorded, GenTypeOK
    <3>6. ~MovesOn(i)
      <4>1. ~Reports(i)
        BY <1>2, <3>1, ReportEffect DEF ReportPlaces
      <4>2. QED
        BY <1>3, <3>1, <4>1 DEF MovesOn, ChainLost, Rescue
    <3>7. QED
      BY <3>2, <3>3, <3>4, <3>5, <3>6, RowCases DEF RowMoves
  <2>3. QED
    BY <1>4, <1>5, <2>1, <2>2 DEF OpenedOrRecorded
<1>6. CASE g \notin github
  <2>1. PICK j \in JobIds : OpenPR(j)
    BY <1>1, <1>2, <1>6, WorkCases, CreateGenerationEffect, SaveEffect, NotifyByEmailEffect
  <2>2. /\ jobs' = jobs /\ jobs[j].kind = "create_pr" /\ jobs[j].pc = "body"
        /\ local'[j].gen = local[j].gen /\ github' = github \cup {local[j].gen}
        /\ local'[j].step = IF local[j].gen \in github THEN "refused" ELSE "opened"
    BY <1>2, <2>1, OpenPREffect
  <2>3. g = local[j].gen
    BY <1>1, <1>6, <2>2
  <2>4. HasOpened(jobs'[j], local'[j], g)
    BY <1>6, <2>2, <2>3 DEF HasOpened
  <2>5. QED
    BY <2>4
<1>7. QED
  BY <1>5, <1>6

(* What is recorded is open and completed, and what an execution has       *)
(* opened is open.                                                         *)
PRsSound ==
    /\ genPR \subseteq github
    /\ \A g \in genPR : genStatus[g] = "completed"
    /\ \A j \in JobIds : HasOpened(jobs[j], local[j], local[j].gen) => local[j].gen \in github

LEMMA PRsSoundStep ==
    ASSUME CodegenReady, PRsSound, CodegenNext
    PROVE  PRsSound'
<1>1. /\ TypeOK /\ ExecutionSound /\ RunCreatedFirst /\ PlansHeld /\ GenTypeOK
  BY DEF CodegenReady, Consistent, ChainInv, CodegenSound
<1>2. github \subseteq github'
  BY WorkIsKept
<1>3. ASSUME NEW g \in genPR' PROVE g \in github' /\ genStatus'[g] = "completed"
  <2>1. CASE g \in genPR
    BY <1>1, <1>2, <2>1, WorkIsKept DEF PRsSound, GenTypeOK
  <2>2. CASE g \notin genPR
    <3>1. PICK j \in JobIds : SavePR(j)
      BY <1>1, <1>3, <2>2, WorkCases, CreateGenerationEffect, OpenPREffect, SaveEffect,
         NotifyByEmailEffect
    <3>2. /\ jobs[j].pc = "body" /\ jobs[j].kind = "create_pr" /\ local[j].step = "opened"
          /\ genPR' # genPR => /\ genStatus' = [genStatus EXCEPT ![local[j].gen] = "completed"]
                               /\ genPR' = genPR \cup {local[j].gen}
      BY <1>1, <3>1, SaveEffect DEF SavePR
    <3>3. g = local[j].gen /\ genStatus' = [genStatus EXCEPT ![g] = "completed"]
      BY <1>3, <2>2, <3>2
    <3>4. g \in github
      BY <3>2, <3>3 DEF PRsSound, HasOpened
    <3>5. QED
      BY <1>1, <1>2, <3>3, <3>4 DEF GenTypeOK
  <2>3. QED
    BY <2>1, <2>2
<1>4. ASSUME NEW i \in JobIds, HasOpened(jobs'[i], local'[i], local'[i].gen)
      PROVE  local'[i].gen \in github'
  <2> USE DEF HasOpened
  <2>1. CASE Untouched(i)
    BY <1>2, <1>4, <2>1 DEF Untouched, PRsSound
  <2>2. ~RowInserted(i)
    BY <1>1, <1>4, EnqueueEffect, CodegenChainEffect DEF RowInserted, Inserted
  <2>3. /\ ~CodegenStart(i) /\ ~CreateGeneration(i) /\ ~SavePR(i) /\ ~SaveWithoutPR(i)
        /\ ~NotifyByEmail(i) /\ ~CodegenReturn(i) /\ ~\E n \in JobIds : CodegenChain(i, n)
    BY <1>1, <1>4, CodegenStartEffect, CreateGenerationEffect, SaveEffect,
       NotifyByEmailEffect, CodegenReturnEffect, CodegenChainEffect
  <2>4. ~Ends(i)
    <3>1. \A p : AfterMark(p) # "body"
      BY DEF AfterMark, AfterCheck
    <3>2. QED
      BY <1>1, <1>4, <3>1, EndsEffect
  <2>5. CASE OpenPR(i)
    BY <1>1, <2>5, OpenPREffect
  <2>6. CASE MovesOn(i) /\ UNCHANGED genVars
    <3>1. /\ jobs'[i].kind = jobs[i].kind /\ local' = local /\ github' = github
          /\ jobs'[i].pc = jobs[i].pc \/ jobs'[i].pc \in Past \cup {"lost", "idle"}
      BY <1>1, <2>6, MovesOnEffect
    <3>2. QED
      BY <1>4, <3>1 DEF Past, ReportPlaces, PRsSound
  <2>7. QED
    BY <2>1, <2>2, <2>3, <2>4, <2>5, <2>6, RowCases DEF RowMoves
<1>5. QED
  BY <1>3, <1>4 DEF PRsSound

(* The execution that has opened g's pull request can still record it.     *)
MayRecord(r, l, g) == HasOpened(r, l, g) /\ r.ctx = "live"

(* The pull requests that nobody will record any more.                     *)
Forgotten == {g \in github \ genPR : \A j \in JobIds : ~MayRecord(jobs[j], local[j], g)}

(* The execution that was about to record g fails to, for a trouble.       *)
Forgets(i, g) == /\ MayRecord(jobs[i], local[i], g)
                 /\ \/ SavePR(i) /\ Errs(i)
                    \/ Timeout(i) \/ Crash(i)

LEMMA ForgettingCosts ==
    ASSUME CodegenReady, NEW i \in JobIds, NEW g, Forgets(i, g)
    PROVE  budget'.crashes + budget'.faults = budget.crashes + budget.faults + 1
<1>1. TypeOK /\ ExecutionSound /\ jobs[i].ctx = "live"
  BY DEF CodegenReady, Consistent, Forgets, MayRecord
<1>2. budget.faults \in Nat /\ budget.crashes \in Nat
  BY <1>1, EngineAssumption DEF TypeOK, Budget
<1>3. Fault => budget'.faults = budget.faults + 1 /\ budget'.crashes = budget.crashes
  BY <1>1 DEF Fault, TypeOK, Budget
<1>4. Fault \/ Crash(i)
  BY <1>1, TimeoutEffect DEF Forgets, Errs
<1>5. QED
  BY <1>1, <1>2, <1>3, <1>4, CrashEffect

LEMMA NewlyForgotten ==
    ASSUME CodegenReady, CodegenNext, NEW g \in Forgotten' \ Forgotten
    PROVE  \E i \in JobIds : Forgets(i, g) /\ OnlyMoves(i)
<1>1. /\ TypeOK /\ ExecutionSound /\ RunCreatedFirst /\ PlansHeld /\ GenTypeOK
  BY DEF CodegenReady, Consistent, ChainInv, CodegenSound
<1>2. /\ g \in github' /\ g \notin genPR' /\ g \notin genPR
      /\ \A j \in JobIds : ~MayRecord(jobs'[j], local'[j], g)
  BY WorkIsKept DEF Forgotten
<1>3. g \in github
  <2>1. SUFFICES ASSUME g \notin github PROVE FALSE
    OBVIOUS
  <2>2. PICK j \in JobIds : OpenPR(j)
    BY <1>1, <1>2, <2>1, WorkCases, CreateGenerationEffect, SaveEffect, NotifyByEmailEffect
  <2>3. /\ jobs' = jobs /\ jobs[j].kind = "create_pr" /\ jobs[j].pc = "body"
        /\ local'[j].gen = local[j].gen /\ github' = github \cup {local[j].gen}
        /\ local'[j].step = IF local[j].gen \in github THEN "refused" ELSE "opened"
    BY <1>1, <2>2, OpenPREffect
  <2>4. g = local[j].gen /\ jobs[j].ctx = "live"
    BY <1>2, <2>1, <2>2, <2>3 DEF OpenPR
  <2>5. MayRecord(jobs'[j], local'[j], g)
    BY <2>1, <2>3, <2>4 DEF MayRecord, HasOpened
  <2>6. QED
    BY <1>2, <2>5
<1>4. PICK i \in JobIds : MayRecord(jobs[i], local[i], g)
  BY <1>2, <1>3 DEF Forgotten
<1>5. /\ jobs[i].kind = "create_pr" /\ jobs[i].pc = "body" /\ local[i].step = "opened"
      /\ local[i].gen = g /\ jobs[i].state = "running" /\ jobs[i].ctx = "live"
  BY <1>1, <1>4 DEF MayRecord, HasOpened, ExecutionSound
<1>6. ~Untouched(i)
  BY <1>2, <1>4 DEF Untouched
<1>7. ~RowInserted(i)
  BY <1>1, <1>5, CodegenChainEffect DEF RowInserted, EnqueueEntry, IsNextId
<1>8. ~CodegenStart(i) /\ ~CreateGeneration(i) /\ ~OpenPR(i) /\ ~SaveWithoutPR(i)
      /\ ~NotifyByEmail(i)
  BY <1>5 DEF CodegenStart, StartTask, CreateGeneration, OpenPR, SaveWithoutPR,
     NotifyByEmail, At
<1>9. ~Ends(i)
  BY <1>1, <1>5, EndsEffect DEF Plan, DoneBy, GivenUpBy
<1>10. ~CodegenReturn(i) /\ ~\E n \in JobIds : CodegenChain(i, n)
  BY <1>5 DEF CodegenReturn, Return, CodegenChain, ChainInsert
<1>11. CASE SavePR(i)
  <2>1. Errs(i) /\ OnlyMoves(i)
    BY <1>1, <1>2, <1>5, <1>11, SaveEffect
  <2>2. QED
    BY <1>4, <1>11, <2>1 DEF Forgets
<1>12. CASE MovesOn(i) /\ UNCHANGED genVars
  <2>1. ~Reports(i)
    BY <1>1, <1>5, ReportEffect DEF ReportPlaces
  <2>2. Timeout(i) \/ Crash(i)
    BY <1>5, <1>12, <2>1 DEF MovesOn, ChainLost, Rescue
  <2>3. OnlyMoves(i)
    BY <1>1, <1>12, MovesOnEffect
  <2>4. QED
    BY <1>4, <2>2, <2>3 DEF Forgets
<1>13. QED
  BY <1>6, <1>7, <1>8, <1>9, <1>10, <1>11, <1>12, RowCases DEF RowMoves

ForgottenPaid == /\ IsFiniteSet(Forgotten)
                 /\ Cardinality(Forgotten) <= budget.crashes + budget.faults

LEMMA ForgottenPaidStep ==
    ASSUME CodegenReady, ForgottenPaid, CodegenNext
    PROVE  ForgottenPaid'
<1>1. TypeOK
  BY DEF CodegenReady
<1>2. /\ budget.faults \in Nat /\ budget.crashes \in Nat
      /\ budget'.faults \in Nat /\ budget'.crashes \in Nat
      /\ budget'.faults >= budget.faults /\ budget'.crashes >= budget.crashes
  <2>1. budget.faults \in Nat /\ budget.crashes \in Nat
    BY <1>1, EngineAssumption DEF TypeOK, Budget
  <2>2. CASE Next
    BY <1>1, <2>1, <2>2, BudgetGrows
  <2>3. CASE UNCHANGED vars
    BY <2>1, <2>3 DEF vars
  <2>4. QED
    BY <2>2, <2>3, CodegenStep, <2>1
<1>3. IsFiniteSet(Forgotten) /\ Cardinality(Forgotten) \in Nat
  BY FS_CardinalityType DEF ForgottenPaid
<1>4. CASE Forgotten' \subseteq Forgotten
  <2>1. /\ IsFiniteSet(Forgotten') /\ Cardinality(Forgotten') <= Cardinality(Forgotten)
        /\ Cardinality(Forgotten') \in Nat
    BY <1>3, <1>4, FS_Subset, FS_CardinalityType
  <2>2. QED
    BY <1>2, <1>3, <2>1 DEF ForgottenPaid
<1>5. ASSUME NEW g \in Forgotten' \ Forgotten PROVE ForgottenPaid'
  <2>1. PICK i \in JobIds : Forgets(i, g) /\ OnlyMoves(i)
    BY <1>5, NewlyForgotten
  <2>2. ASSUME NEW h \in Forgotten' \ Forgotten PROVE h = g
    <3>1. PICK k \in JobIds : Forgets(k, h)
      BY <2>2, NewlyForgotten
    <3>2. k = i
      <4>1. SUFFICES ASSUME k # i PROVE FALSE
        OBVIOUS
      <4>2. MayRecord(jobs'[k], local'[k], h)
        BY <2>1, <3>1, <4>1 DEF Forgets, OnlyMoves, Untouched
      <4>3. QED
        BY <2>2, <4>2 DEF Forgotten
    <3>3. QED
      BY <2>1, <3>1, <3>2 DEF Forgets, MayRecord, HasOpened
  <2>3. Forgotten' \subseteq Forgotten \cup {g}
    BY <2>2
  <2>4. /\ IsFiniteSet(Forgotten \cup {g})
        /\ Cardinality(Forgotten \cup {g}) <= Cardinality(Forgotten) + 1
        /\ Cardinality(Forgotten \cup {g}) \in Nat
    <3>1. /\ IsFiniteSet(Forgotten \cup {g})
          /\ Cardinality(Forgotten \cup {g}) =
                IF g \in Forgotten THEN Cardinality(Forgotten) ELSE Cardinality(Forgotten) + 1
      BY <1>3, FS_AddElement
    <3>2. QED
      BY <1>3, <3>1
  <2>5. /\ IsFiniteSet(Forgotten') /\ Cardinality(Forgotten') <= Cardinality(Forgotten) + 1
        /\ Cardinality(Forgotten') \in Nat
    <3>1. /\ IsFiniteSet(Forgotten')
          /\ Cardinality(Forgotten') <= Cardinality(Forgotten \cup {g})
          /\ Cardinality(Forgotten') \in Nat
      BY <2>3, <2>4, FS_Subset, FS_CardinalityType
    <3>2. QED
      BY <1>3, <2>4, <3>1
  <2>6. budget'.crashes + budget'.faults = budget.crashes + budget.faults + 1
    BY <2>1, ForgettingCosts
  <2>7. QED
    BY <1>2, <1>3, <2>5, <2>6 DEF ForgottenPaid
<1>6. QED
  BY <1>4, <1>5

(* At rest, every pull request but one for each crash, failed statement    *)
(* and expired context is pointed to by its generation, which is           *)
(* completed: an execution that has opened one is not over before it has   *)
(* saved it or met a trouble of its own.                                   *)
THEOREM PullRequestsRecorded == CodegenSpec => []PRIsRecorded
<1> DEFINE Inv == PRsSound /\ ForgottenPaid
<1>1. CodegenInit => Inv
  <2> SUFFICES ASSUME CodegenInit PROVE Inv
    OBVIOUS
  <2>1. PRsSound
    BY DEF CodegenInit, Init, NoJob, PRsSound, HasOpened
  <2>2. Forgotten = {} /\ budget.crashes = 0 /\ budget.faults = 0
    BY DEF CodegenInit, Init, Forgotten
  <2>3. QED
    BY <2>1, <2>2, FS_EmptySet DEF ForgottenPaid
<1>2. CodegenReady /\ Inv /\ [CodegenNext]_codegenVars => Inv'
  <2> SUFFICES ASSUME CodegenReady, Inv, [CodegenNext]_codegenVars PROVE Inv'
    OBVIOUS
  <2>1. CASE CodegenNext
    BY <2>1, PRsSoundStep, ForgottenPaidStep
  <2>2. CASE UNCHANGED codegenVars
    <3>1. PRsSound'
      BY <2>2 DEF codegenVars, vars, genVars, PRsSound
    <3>2. Forgotten' = Forgotten /\ budget' = budget
      BY <2>2 DEF codegenVars, vars, genVars, Forgotten
    <3>3. QED
      BY <3>1, <3>2 DEF ForgottenPaid
  <2>3. QED
    BY <2>1, <2>2
<1>3. CodegenReady /\ Inv => PRIsRecorded
  <2> SUFFICES ASSUME CodegenReady, Inv, Quiescent
               PROVE  /\ Cardinality(github \ genPR) <= budget.crashes + budget.faults
                      /\ genPR \subseteq github
                      /\ \A g \in genPR : genStatus[g] = "completed"
    BY DEF PRIsRecorded
  <2>1. ASSUME NEW j \in JobIds, jobs[j].pc = "body" PROVE FALSE
    BY <2>1 DEF Quiescent, CodegenReady, Consistent, ExecutionSound
  <2>2. Forgotten = github \ genPR
    BY <2>1 DEF Forgotten, MayRecord, HasOpened
  <2>3. QED
    BY <2>2 DEF PRsSound, ForgottenPaid
<1>4. CodegenSpec => []CodegenReady
  BY CodegenSoundKept DEF CodegenReady
<1>5. QED
  BY <1>1, <1>2, <1>3, <1>4, PTL DEF CodegenSpec

-----------------------------------------------------------------------------
(* Pull requests are announced.                                            *)

(* A job other than generate_code's keeps the generation it was given. *)
LEMMA GenKept ==
    ASSUME CodegenReady, CodegenNext, NEW i \in JobIds, Exists(jobs[i]),
           jobs[i].kind # "generate_code"
    PROVE  /\ Exists(jobs'[i]) /\ jobs'[i].kind = jobs[i].kind
           /\ local'[i].gen = local[i].gen
<1>1. /\ TypeOK /\ ExecutionSound /\ RunCreatedFirst /\ PlansHeld /\ GenTypeOK /\ Consistent
  BY DEF CodegenReady, Consistent, ChainInv, CodegenSound
<1>2. Exists(jobs'[i]) /\ jobs'[i].kind = jobs[i].kind
  <2>1. CASE Next
    BY <1>1, <2>1, KindsKept
  <2>2. CASE UNCHANGED vars
    BY <2>2 DEF vars
  <2>3. QED
    BY <2>1, <2>2, CodegenStep
<1>3. local'[i].gen = local[i].gen
  <2>1. ~RowInserted(i)
    BY <1>1, CodegenChainEffect DEF RowInserted, EnqueueEntry, IsNextId, Exists
  <2>2. CASE Untouched(i) \/ (MovesOn(i) /\ UNCHANGED genVars)
    BY <2>2 DEF Untouched, genVars
  <2>3. CASE CodegenStart(i) \/ CodegenReturn(i)
    BY <1>1, <2>3, CodegenStartEffect, CodegenReturnEffect
  <2>4. ~CreateGeneration(i)
    BY <1>1, CreateGenerationEffect
  <2>5. CASE OpenPR(i) \/ SavePR(i) \/ SaveWithoutPR(i) \/ NotifyByEmail(i) \/ Ends(i)
    BY <1>1, <2>5, OpenPREffect, SaveEffect, NotifyByEmailEffect, EndsEffect
  <2>6. CASE \E n \in JobIds : CodegenChain(i, n)
    BY <1>1, <2>6, CodegenChainEffect
  <2>7. QED
    BY <2>1, <2>2, <2>3, <2>4, <2>5, <2>6, RowCases DEF RowMoves
<1>4. QED
  BY <1>2, <1>3

(* The worker that publishes generation g. *)
Publishes(j, g) == Exists(jobs[j]) /\ jobs[j].kind = "create_pr" /\ local[j].gen = g

(* A pull request was opened by a worker that has its generation, and what *)
(* notify announces was handed to it by one.                               *)
Published ==
    /\ \A g \in github : \E j \in JobIds : Publishes(j, g)
    /\ \A i \in JobIds : Exists(jobs[i]) /\ jobs[i].kind = "notify"
          => \E j \in JobIds : Publishes(j, local[i].gen)

LEMMA PublishedStep ==
    ASSUME CodegenReady, Published, CodegenNext
    PROVE  Published'
<1>1. /\ TypeOK /\ ExecutionSound /\ RunCreatedFirst /\ PlansHeld /\ GenTypeOK
  BY DEF CodegenReady, Consistent, ChainInv, CodegenSound
<1>2. ASSUME NEW g, \E j \in JobIds : Publishes(j, g)
      PROVE  \E j \in JobIds :
                Exists(jobs'[j]) /\ jobs'[j].kind = "create_pr" /\ local'[j].gen = g
  BY <1>2, GenKept DEF Publishes
<1>3. ASSUME NEW g \in github' PROVE \E j \in JobIds : Publishes(j, g)
  <2>1. CASE g \in github
    BY <2>1 DEF Published
  <2>2. CASE g \notin github
    <3>1. PICK j \in JobIds : OpenPR(j)
      BY <1>1, <1>3, <2>2, WorkCases, CreateGenerationEffect, SaveEffect, NotifyByEmailEffect
    <3>2. /\ jobs[j].kind = "create_pr" /\ jobs[j].pc = "body"
          /\ github' = github \cup {local[j].gen}
      BY <1>1, <3>1, OpenPREffect
    <3>3. g = local[j].gen
      BY <1>3, <2>2, <3>2
    <3>4. QED
      BY <1>1, <3>2, <3>3 DEF Publishes, Exists, ExecutionSound
  <2>3. QED
    BY <2>1, <2>2
<1>4. ASSUME NEW i \in JobIds, Exists(jobs'[i]), jobs'[i].kind = "notify"
      PROVE  \E j \in JobIds : Publishes(j, local'[i].gen)
  <2>1. CASE Exists(jobs[i])
    <3>1. jobs[i].kind = "notify"
      <4>1. CASE Next
        BY <1>4, <2>1, <4>1, KindsKept DEF CodegenReady
      <4>2. CASE UNCHANGED vars
        BY <1>4, <4>2 DEF vars
      <4>3. QED
        BY <4>1, <4>2, CodegenStep
    <3>2. QED
      BY <2>1, <3>1, GenKept DEF Published
  <2>2. CASE ~Exists(jobs[i])
    <3>1. ~Untouched(i)
      BY <1>4, <2>2 DEF Untouched
    <3>2. ~RowMoves(i)
      BY <1>1, <2>2, CodegenStartEffect, CreateGenerationEffect, OpenPREffect, SaveEffect,
         NotifyByEmailEffect, EndsEffect, CodegenChainEffect, CodegenReturnEffect,
         MovesOnEffect DEF RowMoves, Exists, ExecutionSound
    <3>3. ~EnqueueEntry(i)
      BY <1>1, <1>4, EnqueueEffect, EntryIsEarly DEF Inserted
    <3>4. PICK j \in JobIds : CodegenChain(j, i)
      BY <3>1, <3>2, <3>3, RowCases DEF RowInserted
    <3>5. /\ jobs[j].state = "running" /\ jobs[j].plan \in Plans[jobs[j].kind]
          /\ jobs[j].plan.chain # <<>>
          /\ Inserted(jobs'[i], Head(jobs[j].plan.chain)) /\ local'[i].gen = local[j].gen
      BY <1>1, <3>4, CodegenChainEffect
    <3>6. jobs[j].kind = "create_pr"
      BY <1>1, <1>4, <3>5, Handovers DEF Inserted, TypeOK, Job
    <3>7. QED
      BY <3>5, <3>6 DEF Publishes, Exists
  <2>3. QED
    BY <2>1, <2>2
<1>5. QED
  BY <1>2, <1>3, <1>4 DEF Published, Publishes

(* The email is on its way before notify is over. *)
Announced ==
    budget.faults = 0 /\ budget.crashes = 0 =>
        /\ \A j \in JobIds :
              jobs[j].kind = "notify" /\ jobs[j].pc = "body" /\ local[j].step = "mailed"
                  => emails > 0
        /\ "notify" \in everCompleted /\ github # {} => emails > 0

(* Nothing is opened any more when notify has been reached. *)
LEMMA PublishingIsOver ==
    ASSUME CodegenReady, budget.crashes = 0,
           NEW i \in JobIds, Exists(jobs[i]), jobs[i].kind = "notify",
           NEW j \in JobIds, jobs[j].kind = "create_pr"
    PROVE  jobs[j].pc # "body"
<1>1. SUFFICES ASSUME jobs[j].pc = "body" PROVE FALSE
  OBVIOUS
<1>2. Exists(jobs[j]) /\ ~Done(jobs[j])
  BY <1>1 DEF CodegenReady, Consistent, ExecutionSound, Exists, Done, Past, ReportPlaces
<1>3. /\ "create_pr" \in Tasks /\ "notify" \in Tasks
      /\ SortOrder["create_pr"] = 4 /\ SortOrder["notify"] = 5
  BY CodegenAssumption, CodegenOrderValues
<1>4. OneAtATime(Tasks)
  BY DEF CodegenReady, ChainInv
<1>5. QED
  BY <1>2, <1>3, <1>4 DEF OneAtATime

(* notify is put on record by its worker, whose work is done. *)
LEMMA NotifyIsMarked ==
    ASSUME CodegenReady, CodegenNext, "notify" \in everCompleted' \ everCompleted
    PROVE  \E i \in JobIds :
              /\ Ends(i) /\ jobs[i].kind = "notify"
              /\ DoneBy("notify", local[i].step, local[i].gen, genPR)
<1>1. /\ TypeOK /\ Consistent /\ ExecutionSound /\ PlansHeld /\ GenTypeOK
  BY DEF CodegenReady, Consistent, ChainInv, CodegenSound
<1>2. Next
  BY CodegenStep DEF vars
<1>3. PICK j \in JobIds, p \in Plan :
         /\ MarkTask(j, p) /\ p.mark = "completed"
         /\ everCompleted' = everCompleted \cup {jobs[j].kind}
  BY <1>1, <1>2, RecordStep
<1>4. jobs[j].kind = "notify" /\ jobs[j].pc = "body" /\ jobs'[j].pc # "body"
  <2>1. AfterMark(p) # "body"
    BY DEF AfterMark, AfterCheck
  <2>2. QED
    BY <1>1, <1>3, <2>1, MarkEffect
<1>5. ~Untouched(j) /\ ~RowInserted(j)
  <2>1. jobs[j].state = "running"
    BY <1>1, <1>4 DEF ExecutionSound
  <2>2. QED
    BY <1>1, <1>4, <2>1, CodegenChainEffect DEF Untouched, RowInserted, EnqueueEntry, IsNextId
<1>6. ~CodegenStart(j) /\ ~CodegenReturn(j) /\ ~\E n \in JobIds : CodegenChain(j, n)
  BY <1>1, <1>4, CodegenStartEffect, CodegenReturnEffect, CodegenChainEffect
<1>7. /\ ~CreateGeneration(j) /\ ~OpenPR(j) /\ ~SavePR(j) /\ ~SaveWithoutPR(j)
      /\ ~NotifyByEmail(j)
  BY <1>1, <1>4, CreateGenerationEffect, OpenPREffect, SaveEffect, NotifyByEmailEffect
<1>8. ~(MovesOn(j) /\ UNCHANGED genVars)
  <2>1. everCompleted' # everCompleted
    OBVIOUS
  <2>2. QED
    BY <1>1, <2>1, MovesOnEffect DEF rowVars
<1>9. Ends(j)
  BY <1>5, <1>6, <1>7, <1>8, RowCases DEF RowMoves
<1>10. PICK q \in Plan :
          /\ jobs'[j].plan = q
          /\ q.mark = "completed" =>
                 DoneBy(jobs[j].kind, local[j].step, local[j].gen, genPR)
  BY <1>1, <1>9, EndsEffect
<1>11. p = q
  BY <1>1, <1>3, <1>10, MarkEffect
<1>12. QED
  BY <1>3, <1>4, <1>9, <1>10, <1>11

LEMMA AnnouncedStep ==
    ASSUME CodegenReady, OpenedOrRecorded, Published, Announced, CodegenNext, MaxCount > 0
    PROVE  Announced'
<1>1. SUFFICES ASSUME budget'.faults = 0, budget'.crashes = 0
               PROVE  /\ \A j \in JobIds :
                            /\ jobs'[j].kind = "notify" /\ jobs'[j].pc = "body"
                            /\ local'[j].step = "mailed"
                            => emails' > 0
                      /\ "notify" \in everCompleted' /\ github' # {} => emails' > 0
  BY DEF Announced
<1>2. /\ TypeOK /\ Consistent /\ ExecutionSound /\ PlansHeld /\ GenTypeOK
  BY DEF CodegenReady, Consistent, ChainInv, CodegenSound
<1>3. budget.faults = 0 /\ budget.crashes = 0
  BY <1>1, TroublesGrow
<1>4. emails > 0 => emails' > 0
  <2>1. ASSUME NEW j \in JobIds, NotifyByEmail(j) PROVE emails > 0 => emails' > 0
    BY <1>2, <2>1, NotifyByEmailEffect, EngineAssumption DEF GenTypeOK
  <2>2. ASSUME NEW j \in JobIds,
               CreateGeneration(j) \/ OpenPR(j) \/ SavePR(j) \/ SaveWithoutPR(j)
        PROVE  emails' = emails
    BY <2>2 DEF CreateGeneration, OpenPR, SavePR, SaveWithoutPR
  <2>3. QED
    BY <2>1, <2>2, WorkCases
<1>5. ASSUME NEW i \in JobIds, jobs'[i].kind = "notify", jobs'[i].pc = "body",
             local'[i].step = "mailed"
      PROVE  emails' > 0
  <2>1. ASSUME jobs[i].kind = "notify", jobs[i].pc = "body", local[i].step = "mailed"
        PROVE  emails' > 0
    BY <1>3, <1>4, <2>1 DEF Announced
  <2>2. CASE Untouched(i)
    BY <1>5, <2>1, <2>2 DEF Untouched
  <2>3. ~RowInserted(i) /\ ~CodegenStart(i) /\ ~CodegenReturn(i)
    <3>1. ~RowInserted(i)
      BY <1>2, <1>5, EnqueueEffect, CodegenChainEffect DEF RowInserted, Inserted, Consistent
    <3>2. QED
      BY <1>2, <1>5, <3>1, CodegenStartEffect, CodegenReturnEffect
  <2>4. ~CreateGeneration(i) /\ ~OpenPR(i) /\ ~SavePR(i) /\ ~SaveWithoutPR(i)
    BY <1>2, <1>5, CreateGenerationEffect, OpenPREffect, SaveEffect
  <2>5. CASE NotifyByEmail(i)
    <3>1. ~Errs(i)
      BY <1>1, CalmCodegenSteps
    <3>2. emails' = IF emails < MaxCount THEN emails + 1 ELSE emails
      BY <1>2, <2>5, <3>1, NotifyByEmailEffect
    <3>3. QED
      BY <1>2, <3>2, EngineAssumption DEF GenTypeOK
  <2>6. ~Ends(i) /\ ~\E n \in JobIds : CodegenChain(i, n)
    <3>1. \A p : AfterMark(p) # "body"
      BY DEF AfterMark, AfterCheck
    <3>2. QED
      BY <1>2, <1>5, <3>1, EndsEffect, CodegenChainEffect
  <2>7. CASE MovesOn(i) /\ UNCHANGED genVars
    <3>1. /\ jobs'[i].kind = jobs[i].kind /\ local' = local
          /\ jobs'[i].pc = jobs[i].pc \/ jobs'[i].pc \in Past \cup {"lost", "idle"}
      BY <1>2, <2>7, MovesOnEffect
    <3>2. QED
      BY <1>5, <2>1, <3>1 DEF Past, ReportPlaces
  <2>8. QED
    BY <2>2, <2>3, <2>4, <2>5, <2>6, <2>7, RowCases DEF RowMoves
<1>6. ASSUME "notify" \in everCompleted', github' # {}
      PROVE  emails' > 0
  <2>1. CASE "notify" \in everCompleted /\ github # {}
    BY <1>3, <1>4, <2>1 DEF Announced
  <2>2. CASE "notify" \in everCompleted /\ github = {}
    <3>1. PICK j \in JobIds : OpenPR(j)
      BY <1>2, <1>6, <2>2, WorkCases, CreateGenerationEffect, SaveEffect, NotifyByEmailEffect
    <3>2. jobs[j].pc = "body" /\ jobs[j].kind = "create_pr"
      BY <1>2, <3>1, OpenPREffect
    <3>3. \E i \in JobIds : Exists(jobs[i]) /\ jobs[i].kind = "notify"
      BY <2>2 DEF CodegenReady, ChainInv, CompletedByJobs
    <3>4. QED
      BY <1>3, <3>2, <3>3, PublishingIsOver
  <2>3. CASE "notify" \notin everCompleted
    <3>1. PICK i \in JobIds :
             /\ Ends(i) /\ jobs[i].kind = "notify"
             /\ DoneBy("notify", local[i].step, local[i].gen, genPR)
      BY <1>2, <1>6, <2>3, NotifyIsMarked
    <3>2. /\ jobs[i].pc = "body" /\ Exists(jobs[i]) /\ UNCHANGED genVars
      BY <1>2, <3>1, EndsEffect DEF Exists
    <3>3. CASE local[i].step = "mailed"
      BY <1>3, <1>4, <3>1, <3>2, <3>3 DEF Announced
    <3>4. CASE local[i].gen \notin genPR
      <4>1. PICK g \in github : TRUE
        BY <1>6, <3>2 DEF genVars
      <4>2. PICK j \in JobIds : Publishes(j, g)
        BY DEF Published
      <4>3. PICK k \in JobIds : Publishes(k, local[i].gen)
        BY <3>1, <3>2 DEF Published
      <4>4. j = k
        BY <1>3, <4>2, <4>3, CodegenAssumption
           DEF Publishes, CodegenReady, ChainInv, OneAtATime
      <4>5. g \notin genPR
        BY <3>4, <4>2, <4>3, <4>4 DEF Publishes
      <4>6. PICK m \in JobIds : HasOpened(jobs[m], local[m], g)
        BY <1>3, <4>5 DEF OpenedOrRecorded, Recorded
      <4>7. QED
        BY <1>3, <3>1, <3>2, <4>6, PublishingIsOver DEF HasOpened
    <3>5. QED
      BY <3>1, <3>3, <3>4 DEF DoneBy
  <2>4. QED
    BY <2>1, <2>2, <2>3
<1>7. QED
  BY <1>5, <1>6

(* Where emails are counted, without crashes and faults: a completed run   *)
(* that has opened a pull request has sent the email about it.             *)
THEOREM PullRequestsAnnounced ==
    ASSUME MaxCount > 0
    PROVE  CodegenSpec => []PRIsAnnounced
<1> DEFINE Inv == OpenedOrRecorded /\ Published /\ Announced
<1>1. CodegenInit => Inv
  BY DEF CodegenInit, Init, NoJob, OpenedOrRecorded, Published, Announced, Exists
<1>2. CodegenReady /\ Inv /\ [CodegenNext]_codegenVars => Inv'
  <2> SUFFICES ASSUME CodegenReady, Inv, [CodegenNext]_codegenVars PROVE Inv'
    OBVIOUS
  <2>1. CASE CodegenNext
    BY <2>1, OpenedOrRecordedStep, PublishedStep, AnnouncedStep
  <2>2. CASE UNCHANGED codegenVars
    BY <2>2 DEF codegenVars, vars, genVars, OpenedOrRecorded, Recorded, Published, Publishes,
       Announced
  <2>3. QED
    BY <2>1, <2>2
<1>3. CodegenReady /\ Inv => PRIsAnnounced
  BY CodegenAssumption DEF CodegenReady, ChainInv, CompletionCovered, Announced, PRIsAnnounced
<1>4. CodegenSpec => []CodegenReady
  BY CodegenSoundKept DEF CodegenReady
<1>5. QED
  BY <1>1, <1>2, <1>3, <1>4, PTL DEF CodegenSpec

-----------------------------------------------------------------------------
(* How often work is done: every generation and every pull request is paid *)
(* for by a job that could still produce it, and only a crash gives a job  *)
(* another chance.                                                         *)

(* The set W of what was produced and the set T of those who may produce   *)
(* more, before and after a step: nothing is produced, and one of T may be *)
(* replaced or one join it for a crash; one of T produces something and    *)
(* leaves it; or all begins.                                               *)
Affordable(W, T, W2, T2, c, d) ==
    \/ W2 = W /\ T2 \subseteq T
    \/ W2 = W /\ \E j \in T : \E n : T2 \subseteq (T \ {j}) \cup {n}
    \/ W2 = W /\ d = c + 1 /\ \E j : T2 \subseteq T \cup {j}
    \/ \E j \in T : \E g : W2 = W \cup {g} /\ T2 \subseteq T \ {j}
    \/ W2 = {} /\ \E n : T2 \subseteq {n}

LEMMA Counting ==
    ASSUME NEW W, NEW T, NEW W2, NEW T2, NEW c \in Nat, NEW d \in Nat, d >= c,
           IsFiniteSet(W), IsFiniteSet(T), Cardinality(W) + Cardinality(T) <= 1 + c,
           Affordable(W, T, W2, T2, c, d)
    PROVE  /\ IsFiniteSet(W2) /\ IsFiniteSet(T2)
           /\ Cardinality(W2) + Cardinality(T2) <= 1 + d
<1>1. /\ Cardinality(W) \in Nat /\ Cardinality(T) \in Nat
      /\ IsFiniteSet({}) /\ Cardinality({}) = 0
  BY FS_CardinalityType, FS_EmptySet
<1>2. ASSUME NEW S, IsFiniteSet(S), NEW x
      PROVE  /\ IsFiniteSet(S \cup {x}) /\ Cardinality(S \cup {x}) <= Cardinality(S) + 1
             /\ Cardinality(S \cup {x}) \in Nat /\ Cardinality(S) \in Nat
  <2>1. Cardinality(S) \in Nat
    BY <1>2, FS_CardinalityType
  <2>2. /\ IsFiniteSet(S \cup {x})
        /\ Cardinality(S \cup {x}) = IF x \in S THEN Cardinality(S) ELSE Cardinality(S) + 1
    BY <1>2, FS_AddElement
  <2>3. QED
    BY <2>1, <2>2
<1>3. ASSUME NEW j \in T
      PROVE  IsFiniteSet(T \ {j}) /\ Cardinality(T \ {j}) = Cardinality(T) - 1
  BY <1>3, FS_RemoveElement
<1>4. ASSUME NEW S, IsFiniteSet(S), T2 \subseteq S
      PROVE  /\ IsFiniteSet(T2) /\ Cardinality(T2) <= Cardinality(S)
             /\ Cardinality(T2) \in Nat
  BY <1>4, FS_Subset, FS_CardinalityType
<1>5. CASE W2 = W /\ T2 \subseteq T
  BY <1>1, <1>4, <1>5
<1>6. ASSUME W2 = W, NEW j \in T, NEW n, T2 \subseteq (T \ {j}) \cup {n}
      PROVE  /\ IsFiniteSet(T2) /\ Cardinality(W) + Cardinality(T2) <= 1 + d
  <2>1. /\ IsFiniteSet((T \ {j}) \cup {n})
        /\ Cardinality((T \ {j}) \cup {n}) <= Cardinality(T)
        /\ Cardinality((T \ {j}) \cup {n}) \in Nat
    <3>1. /\ IsFiniteSet(T \ {j}) /\ Cardinality(T \ {j}) = Cardinality(T) - 1
      BY <1>3
    <3>2. /\ IsFiniteSet((T \ {j}) \cup {n})
          /\ Cardinality((T \ {j}) \cup {n}) <= Cardinality(T \ {j}) + 1
          /\ Cardinality((T \ {j}) \cup {n}) \in Nat
      BY <1>2, <3>1
    <3>3. QED
      BY <1>1, <3>1, <3>2
  <2>2. IsFiniteSet(T2) /\ Cardinality(T2) <= Cardinality(T) /\ Cardinality(T2) \in Nat
    BY <1>1, <1>4, <1>6, <2>1
  <2>3. QED
    BY <1>1, <1>6, <2>2
<1>7. ASSUME W2 = W, d = c + 1, NEW j, T2 \subseteq T \cup {j}
      PROVE  /\ IsFiniteSet(T2) /\ Cardinality(W) + Cardinality(T2) <= 1 + d
  <2>1. /\ IsFiniteSet(T \cup {j}) /\ Cardinality(T \cup {j}) <= Cardinality(T) + 1
        /\ Cardinality(T \cup {j}) \in Nat
    BY <1>2
  <2>2. /\ IsFiniteSet(T2) /\ Cardinality(T2) <= Cardinality(T) + 1
        /\ Cardinality(T2) \in Nat
    BY <1>1, <1>4, <1>7, <2>1
  <2>3. QED
    BY <1>1, <1>7, <2>2
<1>8. ASSUME NEW j \in T, NEW g, W2 = W \cup {g}, T2 \subseteq T \ {j}
      PROVE  /\ IsFiniteSet(W2) /\ IsFiniteSet(T2)
             /\ Cardinality(W2) + Cardinality(T2) <= 1 + d
  <2>1. /\ IsFiniteSet(W2) /\ Cardinality(W2) <= Cardinality(W) + 1
        /\ Cardinality(W2) \in Nat
    BY <1>2, <1>8
  <2>2. IsFiniteSet(T2) /\ Cardinality(T2) <= Cardinality(T) - 1 /\ Cardinality(T2) \in Nat
    BY <1>1, <1>3, <1>4, <1>8
  <2>3. QED
    BY <1>1, <1>8, <2>1, <2>2
<1>9. ASSUME W2 = {}, NEW n, T2 \subseteq {n}
      PROVE  /\ IsFiniteSet(W2) /\ IsFiniteSet(T2)
             /\ Cardinality(W2) + Cardinality(T2) <= 1 + d
  <2>1. IsFiniteSet({n}) /\ Cardinality({n}) = 1
    BY FS_Singleton
  <2>2. IsFiniteSet(T2) /\ Cardinality(T2) <= 1 /\ Cardinality(T2) \in Nat
    BY <1>4, <1>9, <2>1
  <2>3. QED
    BY <1>1, <1>9, <2>2
<1>10. QED
  BY <1>5, <1>6, <1>7, <1>8, <1>9 DEF Affordable

(* A generation that travels with a job has its row. *)
DrawnGen(r, l) ==
    /\ r.kind = "create_pr" /\ Exists(r) => genStatus[l.gen] # "none"
    /\ r.kind = "generate_code" =>
          (r.pc = "chain" \/ (r.pc = "body" /\ l.step = "created")
              => genStatus[l.gen] # "none")

GensDrawn == \A j \in JobIds : DrawnGen(jobs[j], local[j])

(* Before the run has a job it has nothing to show. *)
NothingYet == (\A j \in JobIds : ~Exists(jobs[j])) => WorkerGens = {} /\ github = {}

(* Rows of generations are not taken back, and those of the workers are    *)
(* drawn by generate_code alone.                                           *)
LEMMA GensStayDrawn ==
    ASSUME CodegenReady, CodegenNext
    PROVE  \A g \in Gens : genStatus[g] # "none" => genStatus'[g] # "none"
<1>1. TypeOK /\ GenTypeOK
  BY DEF CodegenReady, CodegenSound
<1>2. CASE CreateRequestedGen
  BY <1>1, <1>2 DEF CreateRequestedGen, GenTypeOK
<1>3. ASSUME NEW j \in JobIds,
             CreateGeneration(j) \/ OpenPR(j) \/ SavePR(j) \/ SaveWithoutPR(j) \/ NotifyByEmail(j)
      PROVE  \A g \in Gens : genStatus[g] # "none" => genStatus'[g] # "none"
  <2>1. CASE CreateGeneration(j)
    BY <1>1, <2>1, CreateGenerationEffect DEF GenTypeOK
  <2>2. CASE SavePR(j) \/ SaveWithoutPR(j)
    BY <1>1, <2>2, SaveEffect DEF GenTypeOK
  <2>3. CASE OpenPR(j) \/ NotifyByEmail(j)
    BY <1>1, <2>3, OpenPREffect, NotifyByEmailEffect
  <2>4. QED
    BY <1>3, <2>1, <2>2, <2>3
<1>4. QED
  BY <1>2, <1>3, WorkCases

LEMMA GensDrawnStep ==
    ASSUME CodegenReady, GensDrawn, CodegenNext
    PROVE  GensDrawn'
<1>1. SUFFICES ASSUME NEW i \in JobIds PROVE DrawnGen(jobs[i], local[i])'
  BY DEF GensDrawn, DrawnGen
<1> DEFINE Goal == /\ jobs'[i].kind = "create_pr" /\ Exists(jobs'[i])
                         => genStatus'[local'[i].gen] # "none"
                   /\ jobs'[i].kind = "generate_code" =>
                         (jobs'[i].pc = "chain"
                             \/ (jobs'[i].pc = "body" /\ local'[i].step = "created")
                             => genStatus'[local'[i].gen] # "none")
<1> SUFFICES Goal
  BY DEF DrawnGen
<1>2. /\ TypeOK /\ ExecutionSound /\ RunCreatedFirst /\ PlansHeld /\ GenTypeOK /\ GensCarried
  BY DEF CodegenReady, Consistent, ChainInv, CodegenSound
<1>3. /\ \A j \in JobIds : DrawnGen(jobs[j], local[j]) /\ CarriesGen(jobs[j], local[j])
      /\ \A g \in Gens : genStatus[g] # "none" => genStatus'[g] # "none"
  BY <1>2, GensStayDrawn DEF GensDrawn, GensCarried
<1>4. ASSUME Exists(jobs[i]) \/ Untouched(i),
             jobs'[i].kind = jobs[i].kind, local'[i].gen = local[i].gen,
             jobs'[i].pc \notin {"chain", "body"}
                \/ (jobs'[i].pc = jobs[i].pc /\ local'[i].step = local[i].step)
                \/ (jobs'[i].pc = "body" /\ local'[i].step # "created")
      PROVE  Goal
  BY <1>3, <1>4 DEF DrawnGen, CarriesGen, Untouched
<1> HIDE DEF Goal
<1>5. CASE Untouched(i)
  BY <1>4, <1>5 DEF Untouched
<1>6. ASSUME EnqueueEntry(i) PROVE Goal
  BY <1>2, <1>6, EnqueueEffect, EntryIsEarly DEF Goal, Inserted
<1>7. ASSUME NEW j \in JobIds, CodegenChain(j, i) PROVE Goal
  <2>1. /\ jobs[j].state = "running" /\ jobs[j].pc = "chain"
        /\ jobs[j].plan \in Plans[jobs[j].kind] /\ jobs[j].plan.chain # <<>>
        /\ Inserted(jobs'[i], Head(jobs[j].plan.chain)) /\ local'[i].gen = local[j].gen
    BY <1>2, <1>7, CodegenChainEffect
  <2>2. Head(jobs[j].plan.chain) = "create_pr" => jobs[j].kind = "generate_code"
    BY <1>2, <2>1, Handovers DEF TypeOK, Job
  <2>3. QED
    BY <1>3, <2>1, <2>2 DEF Goal, DrawnGen, CarriesGen, Inserted
<1>8. CASE CodegenStart(i)
  BY <1>2, <1>4, <1>8, CodegenStartEffect DEF Exists, Stays
<1>9. CASE CreateGeneration(i)
  <2>1. /\ jobs'[i] = jobs[i] /\ jobs[i].kind = "generate_code"
        /\ local'[i].gen \in FreeGens
        /\ genStatus' = [genStatus EXCEPT ![local'[i].gen] = "running"]
    BY <1>2, <1>9, CreateGenerationEffect
  <2>2. genStatus'[local'[i].gen] = "running"
    BY <1>2, <2>1 DEF GenTypeOK, FreeGens
  <2>3. QED
    BY <2>1, <2>2 DEF Goal
<1>10. CASE OpenPR(i) \/ SavePR(i) \/ SaveWithoutPR(i) \/ NotifyByEmail(i)
  <2>1. /\ jobs'[i] = jobs[i] /\ jobs[i].kind \in {"create_pr", "notify"}
        /\ local'[i].gen = local[i].gen
    BY <1>2, <1>10, OpenPREffect, SaveEffect, NotifyByEmailEffect
  <2>2. QED
    BY <1>3, <2>1 DEF Goal, DrawnGen, CarriesGen
<1>11. CASE Ends(i)
  <2>1. /\ jobs'[i].kind = jobs[i].kind /\ Exists(jobs[i]) /\ local' = local
        /\ jobs[i].pc = "body"
    BY <1>2, <1>11, EndsEffect DEF Stays, Exists
  <2>2. PICK p \in Plan :
           /\ p \in Plans[jobs[i].kind] /\ jobs'[i].pc = AfterMark(p)
           /\ p.mark = "completed" =>
                 DoneBy(jobs[i].kind, local[i].step, local[i].gen, genPR)
    BY <1>2, <1>11, EndsEffect
  <2>3. jobs'[i].pc # "body" /\ (jobs'[i].pc = "chain" => p.chain # <<>>)
    BY <2>2 DEF AfterMark, AfterCheck
  <2>4. p.chain # <<>> => p.mark = "completed"
    BY <1>2, <2>2, CodegenIsChain DEF IsChain, Links, TypeOK, Job
  <2>5. QED
    BY <1>3, <2>1, <2>2, <2>3, <2>4 DEF Goal, DrawnGen, CarriesGen, DoneBy
<1>12. CASE \E n \in JobIds : CodegenChain(i, n)
  BY <1>2, <1>4, <1>12, CodegenChainEffect DEF Exists, Stays
<1>13. CASE CodegenReturn(i)
  BY <1>2, <1>4, <1>13, CodegenReturnEffect DEF Exists
<1>14. CASE MovesOn(i) /\ UNCHANGED genVars
  <2>1. /\ jobs[i].state # "none" /\ jobs'[i].kind = jobs[i].kind /\ local' = local
        /\ jobs'[i].pc = jobs[i].pc \/ jobs'[i].pc \in Past \cup {"lost", "idle"}
    BY <1>2, <1>14, MovesOnEffect
  <2>2. QED
    BY <1>4, <2>1 DEF Exists, Past, ReportPlaces
<1>15. QED
  BY <1>5, <1>6, <1>7, <1>8, <1>9, <1>10, <1>11, <1>12, <1>13, <1>14, RowCases
     DEF RowMoves, RowInserted

(* The workers' generations are drawn by generate_code alone. *)
LEMMA WorkerGensStep ==
    ASSUME CodegenReady, GensDrawn, CodegenNext
    PROVE  \/ WorkerGens' = WorkerGens
           \/ \E j \in JobIds : /\ CreateGeneration(j)
                                /\ WorkerGens' = WorkerGens \cup {local'[j].gen}
<1>1. /\ TypeOK /\ ExecutionSound /\ GenTypeOK /\ GensCarried
  BY DEF CodegenReady, CodegenSound, Consistent
<1>2. CASE UNCHANGED genStatus
  BY <1>2 DEF WorkerGens
<1>3. CASE CreateRequestedGen
  BY <1>1, <1>3 DEF CreateRequestedGen, GenTypeOK, WorkerGens
<1>4. ASSUME NEW j \in JobIds, CreateGeneration(j)
      PROVE  WorkerGens' = WorkerGens \cup {local'[j].gen}
  <2>1. /\ local'[j].gen \in FreeGens
        /\ genStatus' = [genStatus EXCEPT ![local'[j].gen] = "running"]
    BY <1>1, <1>4, CreateGenerationEffect
  <2>2. QED
    BY <1>1, <2>1 DEF GenTypeOK, FreeGens, WorkerGens
<1>5. ASSUME NEW j \in JobIds, SavePR(j) \/ SaveWithoutPR(j) PROVE WorkerGens' = WorkerGens
  <2>1. /\ jobs[j].pc = "body" /\ jobs[j].kind = "create_pr"
        /\ \/ UNCHANGED genStatus
           \/ genStatus' = [genStatus EXCEPT ![local[j].gen] = "completed"]
    BY <1>1, <1>5, SaveEffect
  <2>2. local[j].gen \in Gens /\ genStatus[local[j].gen] # "none"
    BY <1>1, <2>1 DEF GensDrawn, DrawnGen, GensCarried, CarriesGen, Exists, ExecutionSound
  <2>3. \A g \in Gens : genStatus'[g] # "none" <=> genStatus[g] # "none"
    BY <1>1, <2>1, <2>2 DEF GenTypeOK
  <2>4. QED
    BY <2>3 DEF WorkerGens
<1>6. ASSUME NEW j \in JobIds, OpenPR(j) \/ NotifyByEmail(j) PROVE UNCHANGED genStatus
  BY <1>6 DEF OpenPR, NotifyByEmail
<1>7. QED
  BY <1>2, <1>3, <1>4, <1>5, <1>6, WorkCases

(* A job that River may still run from its beginning. *)
AtLarge(r) ==
    \/ r.state = "available"
    \/ r.pc \in {"lost", "body"}
    \/ r.pc \in Past /\ r.plan.mark = "failed"

(* One that comes before create_pr and may still insert its successor. *)
Early(r) == /\ Exists(r) /\ r.kind \notin {"create_pr", "notify"}
            /\ AtLarge(r) \/ r.pc = "chain"

(* The jobs from which another generation may come, or a pull request.     *)
MayGenerate(r, l) ==
    /\ Early(r)
    /\ r.kind = "generate_code" =>
          r.pc # "chain" /\ ~(r.pc = "body" /\ l.step = "created")

MayOpen(r, l, opened) ==
    \/ Early(r)
    \/ r.kind = "create_pr" /\ AtLarge(r) /\ l.gen \notin opened

Generators == {j \in JobIds : MayGenerate(jobs[j], local[j])}
Openers == {j \in JobIds : MayOpen(jobs[j], local[j], github)}

(* A job gets no second chance, except by a crash. *)
LEMMA NoSecondChance ==
    ASSUME CodegenReady, CodegenNext, NEW i \in JobIds,
           ~RowInserted(i), ~(Crash(i) /\ UNCHANGED genVars)
    PROVE  /\ i \in Generators' => i \in Generators
           /\ i \in Openers' => i \in Openers
<1> USE DEF Past, ReportPlaces
<1>1. /\ TypeOK /\ ExecutionSound /\ RunCreatedFirst /\ PlansHeld /\ GenTypeOK /\ GensCarried
  BY DEF CodegenReady, Consistent, ChainInv, CodegenSound
<1>2. github \subseteq github' /\ jobs[i].plan \in Plan
  BY <1>1, WorkIsKept DEF TypeOK, Job
<1> DEFINE Goal == /\ MayGenerate(jobs'[i], local'[i]) => MayGenerate(jobs[i], local[i])
                   /\ MayOpen(jobs'[i], local'[i], github') => MayOpen(jobs[i], local[i], github)
<1> SUFFICES Goal
  BY DEF Generators, Openers
<1>3. ASSUME ~AtLarge(jobs'[i]), jobs'[i].pc # "chain" PROVE Goal
  BY <1>3 DEF MayGenerate, MayOpen, Early
<1>4. ASSUME Exists(jobs[i]), jobs'[i].kind = jobs[i].kind, local'[i].gen = local[i].gen,
             AtLarge(jobs[i]),
             jobs[i].kind = "generate_code" =>
                jobs[i].pc # "chain" /\ ~(jobs[i].pc = "body" /\ local[i].step = "created")
      PROVE  Goal
  BY <1>2, <1>4 DEF MayGenerate, MayOpen, Early
<1>5. CASE Untouched(i)
  BY <1>2, <1>5 DEF MayGenerate, MayOpen, Untouched
<1> HIDE DEF Goal
<1>6. CASE CodegenStart(i)
  <2>1. jobs[i].pc = "idle"
    BY <1>1, <1>6, CodegenStartEffect DEF ExecutionSound
  <2>2. QED
    BY <1>1, <1>4, <1>6, <2>1, CodegenStartEffect DEF Exists, Stays, AtLarge
<1>7. CASE CreateGeneration(i)
  <2>1. /\ jobs' = jobs /\ jobs[i].pc = "body" /\ jobs[i].kind = "generate_code"
        /\ local[i].step = "start"
    BY <1>1, <1>7, CreateGenerationEffect
  <2>2. QED
    BY <1>1, <2>1 DEF Goal, MayGenerate, MayOpen, Early, AtLarge, Exists, ExecutionSound
<1>8. CASE OpenPR(i) \/ SavePR(i) \/ SaveWithoutPR(i) \/ NotifyByEmail(i)
  <2>1. /\ jobs' = jobs /\ jobs[i].kind \in {"create_pr", "notify"}
        /\ local'[i].gen = local[i].gen
    BY <1>1, <1>8, OpenPREffect, SaveEffect, NotifyByEmailEffect
  <2>2. QED
    BY <1>2, <2>1 DEF Goal, MayGenerate, MayOpen, Early
<1>9. CASE Ends(i)
  <2>1. /\ jobs'[i].kind = jobs[i].kind /\ jobs[i].state = "running" /\ local' = local
        /\ jobs[i].pc = "body" /\ jobs'[i].state = "running" /\ github' = github
    BY <1>1, <1>9, EndsEffect DEF Stays, genVars
  <2>2. PICK p \in Plan :
           /\ p \in Plans[jobs[i].kind] /\ jobs'[i].pc = AfterMark(p) /\ jobs'[i].plan = p
           /\ p.mark = "failed" => GivenUpBy(jobs[i].kind, local[i].step)
    BY <1>1, <1>9, EndsEffect
  <2>3. /\ p.chain # <<>> => p.mark = "completed"
        /\ p.mark = "completed" \/ p.mark = "failed"
    BY <1>1, <2>2, CodegenIsChain DEF IsChain, Links, TypeOK, Job, Plan
  <2>4. jobs'[i].pc \in {"chain", "check", "review", "return"}
    BY <2>2 DEF AfterMark, AfterCheck
  <2>5. jobs'[i].pc = "chain" => p.chain # <<>>
    BY <2>2 DEF AfterMark, AfterCheck
  <2>6. CASE p.mark = "failed"
    BY <1>4, <2>1, <2>2, <2>6 DEF GivenUpBy, Exists, AtLarge
  <2>7. CASE p.mark = "completed"
    <3>1. ~AtLarge(jobs'[i])
      BY <2>1, <2>2, <2>4, <2>7 DEF AtLarge
    <3>2. jobs'[i].kind = "generate_code" => ~MayGenerate(jobs'[i], local'[i])
      BY <3>1 DEF MayGenerate, Early
    <3>3. QED
      BY <2>1, <3>1, <3>2 DEF Goal, MayGenerate, MayOpen, Early, AtLarge, Exists
  <2>8. QED
    BY <2>3, <2>6, <2>7
<1>10. CASE \E n \in JobIds : CodegenChain(i, n)
  <2>1. /\ jobs'[i].state = "running" /\ jobs'[i].pc = "return"
        /\ jobs'[i].plan.mark = "completed"
    BY <1>1, <1>10, CodegenChainEffect DEF Stays
  <2>2. QED
    BY <1>3, <2>1 DEF AtLarge
<1>11. CASE CodegenReturn(i)
  <2>1. /\ jobs[i].pc = "return" /\ jobs[i].state = "running"
        /\ jobs'[i].kind = jobs[i].kind /\ jobs'[i].pc = "idle"
        /\ local'[i].gen = local[i].gen
        /\ jobs[i].plan.mark # "failed" => jobs'[i].state = "completed"
    BY <1>1, <1>11, CodegenReturnEffect
  <2>2. CASE jobs[i].plan.mark = "failed"
    BY <1>4, <2>1, <2>2 DEF AtLarge, Exists
  <2>3. CASE jobs[i].plan.mark # "failed"
    BY <1>3, <2>1, <2>3 DEF AtLarge
  <2>4. QED
    BY <2>2, <2>3
<1>12. CASE (ChainLost(i) \/ Reports(i) \/ Timeout(i) \/ Rescue(i)) /\ UNCHANGED genVars
  <2>1. local' = local /\ github' = github
    BY <1>12 DEF genVars
  <2>2. CASE ChainLost(i)
    <3>1. /\ jobs'[i].state = "running" /\ jobs'[i].pc = "return"
          /\ jobs'[i].plan.mark = "completed"
      BY <1>1, <2>2, ChainLostEffect, ChainLeft, CodegenIsChain DEF Stays
    <3>2. QED
      BY <1>3, <3>1 DEF AtLarge
  <2>3. CASE Reports(i)
    <3>1. /\ jobs[i].pc \in ReportPlaces /\ jobs[i].state = "running"
          /\ jobs'[i].state = "running" /\ jobs'[i].kind = jobs[i].kind
          /\ jobs'[i].pc \in (ReportPlaces \ {"check"}) \cup {"return"}
          /\ jobs'[i].plan = jobs[i].plan
      BY <1>1, <2>3, ReportEffect DEF Stays
    <3>2. QED
      BY <2>1, <3>1 DEF Goal, MayGenerate, MayOpen, Early, AtLarge, Exists
  <2>4. CASE Timeout(i)
    <3>1. /\ jobs[i].state = "running" /\ jobs'[i].state = "running"
          /\ jobs'[i].kind = jobs[i].kind /\ jobs'[i].pc = jobs[i].pc
          /\ jobs'[i].plan = jobs[i].plan
      BY <1>1, <2>4, TimeoutEffect
    <3>2. QED
      BY <2>1, <3>1 DEF Goal, MayGenerate, MayOpen, Early, AtLarge, Exists
  <2>5. CASE Rescue(i)
    <3>1. /\ jobs[i].state = "running" /\ jobs[i].pc = "lost" /\ jobs'[i].kind = jobs[i].kind
      BY <1>1, <2>5, RescueEffect
    <3>2. QED
      BY <1>4, <2>1, <3>1 DEF AtLarge, Exists
  <2>6. QED
    BY <1>12, <2>2, <2>3, <2>4, <2>5
<1>13. QED
  BY <1>5, <1>6, <1>7, <1>8, <1>9, <1>10, <1>11, <1>12, RowCases DEF RowMoves, MovesOn

(* A job that inserts its successor passes its chance on. *)
LEMMA HandedOn ==
    ASSUME CodegenReady, NEW j \in JobIds, NEW n \in JobIds, CodegenChain(j, n)
    PROVE  /\ \/ Generators' \subseteq Generators \ {j}
              \/ j \in Generators /\ Generators' \subseteq (Generators \ {j}) \cup {n}
           /\ \/ Openers' \subseteq Openers \ {j}
              \/ j \in Openers /\ Openers' \subseteq (Openers \ {j}) \cup {n}
           /\ WorkerGens' = WorkerGens /\ github' = github
<1>1. /\ TypeOK /\ ExecutionSound /\ PlansHeld /\ GenTypeOK
  BY DEF CodegenReady, Consistent, ChainInv, CodegenSound
<1>2. /\ n # j /\ Stays(j)
      /\ \A i \in JobIds : i # j /\ i # n => Untouched(i)
      /\ jobs[j].pc = "chain" /\ jobs[j].state = "running"
      /\ jobs[j].plan \in Plans[jobs[j].kind] /\ jobs[j].plan.chain # <<>>
      /\ jobs'[j].pc = "return" /\ jobs'[j].plan.mark = "completed"
      /\ Inserted(jobs'[n], Head(jobs[j].plan.chain))
      /\ UNCHANGED <<genStatus, github>>
  BY <1>1, CodegenChainEffect
<1>3. /\ Head(jobs[j].plan.chain) = "create_pr" <=> jobs[j].kind = "generate_code"
      /\ Head(jobs[j].plan.chain) = "notify" <=> jobs[j].kind = "create_pr"
      /\ jobs[j].kind # "notify"
  BY <1>1, <1>2, Handovers DEF TypeOK, Job
<1>4. ~AtLarge(jobs'[j]) /\ jobs'[j].pc # "chain"
  BY <1>2 DEF AtLarge, Stays
<1>5. j \notin Generators' /\ j \notin Openers'
  BY <1>4 DEF Generators, Openers, MayGenerate, MayOpen, Early
<1>6. /\ n \in Generators' => j \in Generators
      /\ n \in Openers' => j \in Openers
  BY <1>2, <1>3 DEF Generators, Openers, MayGenerate, MayOpen, Early, Inserted, Exists
<1>7. ASSUME NEW i \in JobIds, i # j, i # n
      PROVE  /\ i \in Generators' => i \in Generators
             /\ i \in Openers' => i \in Openers
  BY <1>2, <1>7 DEF Generators, Openers, Untouched
<1>8. WorkerGens' = WorkerGens /\ github' = github
  BY <1>2 DEF WorkerGens
<1>9. Generators' \subseteq JobIds /\ Openers' \subseteq JobIds
  BY DEF Generators, Openers
<1>10. \/ Generators' \subseteq Generators \ {j}
       \/ j \in Generators /\ Generators' \subseteq (Generators \ {j}) \cup {n}
  BY <1>5, <1>6, <1>7, <1>9
<1>11. \/ Openers' \subseteq Openers \ {j}
       \/ j \in Openers /\ Openers' \subseteq (Openers \ {j}) \cup {n}
  BY <1>5, <1>6, <1>7, <1>9
<1>12. QED
  BY <1>8, <1>10, <1>11

(* W was produced at the cost of what T could produce. *)
PaidFor(W, T) == /\ IsFiniteSet(W) /\ IsFiniteSet(T)
                 /\ Cardinality(W) + Cardinality(T) <= 1 + budget.crashes

WorkCounted ==
    /\ GensDrawn /\ NothingYet
    /\ PaidFor(WorkerGens, Generators) /\ PaidFor(github, Openers)

LEMMA NothingYetStep ==
    ASSUME CodegenReady, GensDrawn, NothingYet, CodegenNext
    PROVE  NothingYet'
<1>1. /\ TypeOK /\ ExecutionSound /\ GenTypeOK
  BY DEF CodegenReady, CodegenSound, Consistent
<1>2. SUFFICES ASSUME \A j \in JobIds : ~Exists(jobs'[j])
               PROVE  WorkerGens' = {} /\ github' = {}
  BY DEF NothingYet
<1>3. ASSUME NEW j \in JobIds PROVE ~Exists(jobs[j])
  <2>1. CASE Next
    BY <1>2, <2>1, KindsKept DEF CodegenReady
  <2>2. CASE UNCHANGED vars
    BY <1>2, <2>2 DEF vars
  <2>3. QED
    BY <2>1, <2>2, CodegenStep
<1>4. ASSUME NEW j \in JobIds PROVE jobs[j].pc # "body"
  BY <1>1, <1>3 DEF Exists, ExecutionSound
<1>5. WorkerGens = {} /\ github = {}
  BY <1>3 DEF NothingYet
<1>6. WorkerGens' = WorkerGens
  BY <1>1, <1>4, WorkerGensStep, CreateGenerationEffect
<1>7. github' = github
  BY <1>1, <1>4, WorkCases, CreateGenerationEffect, OpenPREffect, SaveEffect,
     NotifyByEmailEffect
<1>8. QED
  BY <1>5, <1>6, <1>7

LEMMA WorkCountedStep ==
    ASSUME CodegenReady, WorkCounted, CodegenNext
    PROVE  WorkCounted'
<1>1. /\ TypeOK /\ ExecutionSound /\ RunCreatedFirst /\ PlansHeld /\ GenTypeOK
  BY DEF CodegenReady, Consistent, ChainInv, CodegenSound
<1>2. GensDrawn' /\ NothingYet'
  BY GensDrawnStep, NothingYetStep DEF WorkCounted
<1>3. /\ IsFiniteSet(WorkerGens) /\ IsFiniteSet(Generators)
      /\ Cardinality(WorkerGens) + Cardinality(Generators) <= 1 + budget.crashes
      /\ IsFiniteSet(github) /\ IsFiniteSet(Openers)
      /\ Cardinality(github) + Cardinality(Openers) <= 1 + budget.crashes
  BY DEF WorkCounted, PaidFor
<1>4. /\ budget.crashes \in Nat /\ budget'.crashes \in Nat
      /\ budget'.crashes >= budget.crashes
  <2>1. CASE Next
    BY <1>1, <2>1, BudgetGrows, EngineAssumption DEF TypeOK, Budget
  <2>2. CASE UNCHANGED vars
    BY <1>1, <2>2, EngineAssumption DEF vars, TypeOK, Budget
  <2>3. QED
    BY <2>1, <2>2, CodegenStep
<1> DEFINE Goal == PaidFor(WorkerGens, Generators)' /\ PaidFor(github, Openers)'
<1> SUFFICES Goal
  BY <1>2 DEF WorkCounted
<1>5. ASSUME Affordable(WorkerGens, Generators, WorkerGens', Generators', budget.crashes, budget'.crashes)
      PROVE  PaidFor(WorkerGens, Generators)'
  <2>1. /\ IsFiniteSet(WorkerGens') /\ IsFiniteSet(Generators')
        /\ Cardinality(WorkerGens') + Cardinality(Generators') <= 1 + budget'.crashes
    BY <1>3, <1>4, <1>5, Counting
  <2>2. QED
    BY <2>1 DEF PaidFor
<1>6. ASSUME Affordable(github, Openers, github', Openers', budget.crashes, budget'.crashes)
      PROVE  PaidFor(github, Openers)'
  <2>1. /\ IsFiniteSet(github') /\ IsFiniteSet(Openers')
        /\ Cardinality(github') + Cardinality(Openers') <= 1 + budget'.crashes
    BY <1>3, <1>4, <1>6, Counting
  <2>2. QED
    BY <2>1 DEF PaidFor
<1>7. ASSUME NEW n \in JobIds, EnqueueEntry(n), UNCHANGED genVars PROVE Goal
  <2>1. /\ \A i \in JobIds : ~Exists(jobs[i]) /\ (i # n => ~Exists(jobs'[i]))
    BY <1>1, <1>7, EnqueueEffect DEF Exists, Others
  <2>2. WorkerGens' = {} /\ github' = {}
    BY <1>7, <2>1 DEF WorkCounted, NothingYet, WorkerGens, genVars
  <2>3. \A i \in JobIds : i # n => jobs'[i].state = "none" /\ jobs'[i].pc = "idle"
    BY <1>1, <1>7, <2>1, EnqueueEffect DEF Exists, Others, ExecutionSound
  <2>4. Generators' \subseteq {n} /\ Openers' \subseteq {n}
    BY <2>3 DEF Generators, Openers, MayGenerate, MayOpen, Early, AtLarge, Exists, Past,
       ReportPlaces
  <2>5. QED
    BY <1>5, <1>6, <2>2, <2>4 DEF Affordable
<1>8. ASSUME NEW j \in JobIds, NEW n \in JobIds, CodegenChain(j, n) PROVE Goal
  <2>1. /\ \/ Generators' \subseteq Generators \ {j}
           \/ j \in Generators /\ Generators' \subseteq (Generators \ {j}) \cup {n}
        /\ \/ Openers' \subseteq Openers \ {j}
           \/ j \in Openers /\ Openers' \subseteq (Openers \ {j}) \cup {n}
        /\ WorkerGens' = WorkerGens /\ github' = github
    BY <1>8, HandedOn
  <2>2. PaidFor(WorkerGens, Generators)'
    BY <1>5, <2>1 DEF Affordable
  <2>3. PaidFor(github, Openers)'
    BY <1>6, <2>1 DEF Affordable
  <2>4. QED
    BY <2>2, <2>3
<1>9. ASSUME NEW j \in JobIds, Crash(j), UNCHANGED genVars PROVE Goal
  <2>1. /\ \A i \in JobIds : i # j => Untouched(i)
        /\ budget'.crashes = budget.crashes + 1
    BY <1>1, <1>9, CrashEffect DEF Others, Untouched, genVars
  <2>2. WorkerGens' = WorkerGens /\ github' = github
    BY <1>9 DEF WorkerGens, genVars
  <2>3. Generators' \subseteq Generators \cup {j} /\ Openers' \subseteq Openers \cup {j}
    BY <2>1, <2>2 DEF Generators, Openers, Untouched
  <2>4. PaidFor(WorkerGens, Generators)'
    BY <1>5, <2>1, <2>2, <2>3 DEF Affordable
  <2>5. PaidFor(github, Openers)'
    BY <1>6, <2>1, <2>2, <2>3 DEF Affordable
  <2>6. QED
    BY <2>4, <2>5
<1>10. ASSUME \A i \in JobIds : ~RowInserted(i) /\ ~(Crash(i) /\ UNCHANGED genVars)
       PROVE  Goal
  <2>1. Generators' \subseteq Generators /\ Openers' \subseteq Openers
    <3>1. Generators' \subseteq JobIds /\ Openers' \subseteq JobIds
      BY DEF Generators, Openers
    <3>2. QED
      BY <1>10, <3>1, NoSecondChance
  <2>2. PaidFor(WorkerGens, Generators)'
    <3>1. CASE WorkerGens' = WorkerGens
      BY <1>5, <2>1, <3>1 DEF Affordable
    <3>2. ASSUME NEW j \in JobIds, CreateGeneration(j),
                 WorkerGens' = WorkerGens \cup {local'[j].gen}
          PROVE  PaidFor(WorkerGens, Generators)'
      <4>1. /\ jobs' = jobs /\ jobs[j].pc = "body" /\ jobs[j].kind = "generate_code"
            /\ local[j].step = "start" /\ local'[j].step = "created"
        BY <1>1, <3>2, CreateGenerationEffect
      <4>2. j \in Generators /\ j \notin Generators'
        BY <1>1, <4>1 DEF Generators, MayGenerate, Early, AtLarge, Exists, ExecutionSound
      <4>3. Generators' \subseteq Generators \ {j}
        BY <2>1, <4>2
      <4>4. QED
        BY <1>5, <3>2, <4>2, <4>3 DEF Affordable
    <3>3. QED
      BY <3>1, <3>2, WorkerGensStep DEF WorkCounted
  <2>3. PaidFor(github, Openers)'
    <3>1. CASE github' = github
      BY <1>6, <2>1, <3>1 DEF Affordable
    <3>2. ASSUME NEW j \in JobIds, OpenPR(j), github' # github
          PROVE  PaidFor(github, Openers)'
      <4>1. /\ jobs' = jobs /\ jobs[j].pc = "body" /\ jobs[j].kind = "create_pr"
            /\ local'[j].gen = local[j].gen /\ github' = github \cup {local[j].gen}
        BY <1>1, <3>2, OpenPREffect
      <4>2. local[j].gen \notin github
        BY <3>2, <4>1
      <4>3. j \in Openers /\ j \notin Openers'
        BY <4>1, <4>2 DEF Openers, MayOpen, Early, AtLarge
      <4>4. Openers' \subseteq Openers \ {j}
        BY <2>1, <4>3
      <4>5. QED
        BY <1>6, <4>1, <4>3, <4>4 DEF Affordable
    <3>3. QED
      BY <1>1, <3>1, <3>2, WorkCases, CreateGenerationEffect, SaveEffect, NotifyByEmailEffect
  <2>4. QED
    BY <2>2, <2>3
<1>11. QED
  BY <1>7, <1>8, <1>9, <1>10 DEF RowInserted

(* However often River and users retry, a run generates its code and opens *)
(* its pull request at most once, and once more for every crash.           *)
THEOREM WorkNotRepeated == CodegenSpec => []WorkIsNotRepeated
<1>1. CodegenInit => WorkCounted
  <2> SUFFICES ASSUME CodegenInit PROVE WorkCounted
    OBVIOUS
  <2>1. /\ WorkerGens = {} /\ github = {} /\ GensDrawn /\ NothingYet
    BY DEF CodegenInit, Init, NoJob, WorkerGens, GensDrawn, DrawnGen, NothingYet, Exists
  <2>2. Generators = {} /\ Openers = {}
    BY DEF CodegenInit, Init, NoJob, Generators, Openers, MayGenerate, MayOpen, Early,
       AtLarge, Exists, Past, ReportPlaces
  <2>3. budget.crashes = 0
    BY DEF CodegenInit, Init
  <2>4. IsFiniteSet({}) /\ Cardinality({}) = 0
    BY FS_EmptySet
  <2>5. QED
    BY <2>1, <2>2, <2>3, <2>4 DEF WorkCounted, PaidFor
<1>2. CodegenReady /\ WorkCounted /\ [CodegenNext]_codegenVars => WorkCounted'
  <2> SUFFICES ASSUME CodegenReady, WorkCounted, [CodegenNext]_codegenVars PROVE WorkCounted'
    OBVIOUS
  <2>1. CASE CodegenNext
    BY <2>1, WorkCountedStep
  <2>2. CASE UNCHANGED codegenVars
    BY <2>2 DEF codegenVars, vars, genVars, WorkCounted, GensDrawn, DrawnGen, NothingYet,
       WorkerGens, PaidFor, Generators, Openers
  <2>3. QED
    BY <2>1, <2>2
<1>3. CodegenReady /\ WorkCounted => WorkIsNotRepeated
  <2> SUFFICES ASSUME CodegenReady, WorkCounted PROVE WorkIsNotRepeated
    OBVIOUS
  <2>1. budget.crashes \in Nat
    BY EngineAssumption DEF CodegenReady, TypeOK, Budget
  <2>2. Cardinality(Generators) \in Nat /\ Cardinality(Openers) \in Nat
    BY FS_CardinalityType DEF WorkCounted, PaidFor
  <2>3. Cardinality(WorkerGens) \in Nat /\ Cardinality(github) \in Nat
    BY FS_CardinalityType DEF WorkCounted, PaidFor
  <2>4. QED
    BY <2>1, <2>2, <2>3 DEF WorkCounted, PaidFor, WorkIsNotRepeated
<1>4. CodegenSpec => []CodegenReady
  BY CodegenSoundKept DEF CodegenReady
<1>5. QED
  BY <1>1, <1>2, <1>3, <1>4, PTL DEF CodegenSpec

-----------------------------------------------------------------------------
(* How a codegen run ends: with the notification. *)
LEMMA CodegenEndsAtNotify == EndsAt("notify")
<1>1. /\ Tasks \subseteq CodegenTasks /\ "notify" \in Tasks
      /\ \A t \in Tasks : Plans[t] = CodegenPlans[t]
      /\ \A t \in Tasks : SortOrder[t] = CodegenOrder[t]
  BY CodegenAssumption
<1>2. \A t \in Tasks : SortOrder[t] <= SortOrder["notify"]
  <2>1. \A t \in CodegenTasks : CodegenOrder[t] <= CodegenOrder["notify"]
    BY CodegenOrderValues DEF CodegenTasks
  <2>2. QED
    BY <1>1, <2>1
<1>3. ASSUME NEW t \in Tasks, NEW p \in Plan, p \in Plans[t], p.chain = <<>>
      PROVE  p.check /\ (p.mark = "completed" => t = "notify" /\ p.review)
  <2>1. p \in CodegenPlans[t] /\ t \in CodegenTasks
    BY <1>1, <1>3
  <2>2. \/ p = FailsAndTells \/ (t = "notify" /\ p = FinishesAndAsks)
        \/ \E next \in CodegenTasks : p.chain = <<next>>
    BY <2>1 DEF CodegenTasks, CodegenPlans, FetchSpecPlans, IndexRepoPlans,
       BuildContextPlans, GenerateCodePlans, CreatePRPlans, NotifyPlans, Chains
  <2>3. \A next \in CodegenTasks : p.chain # <<next>>
    BY <1>3
  <2>4. QED
    BY <2>2, <2>3 DEF FailsAndTells, FinishesAndAsks, Fails, Finishes
<1>4. QED
  BY <1>1, <1>2, <1>3, CodegenIsChain DEF EndsAt

LEMMA CodegenEndKept == CodegenSpec => [](ChainReady /\ EndInv("notify"))
<1>1. Init => EndInv("notify")
  BY EndInit
<1>2. ChainReady /\ EndInv("notify") /\ [Next]_vars => EndInv("notify")'
  BY CodegenEndsAtNotify, EndStep
<1>3. TypeOK /\ Consistent /\ ChainInv(Tasks) <=> ChainReady
  BY DEF ChainReady
<1>4. QED
  BY <1>1, <1>2, <1>3, CodegenRunsTheEngine, CodegenChainKept, PTL DEF Spec

(* A codegen run in which nothing fails, crashes or is retried ends        *)
(* completed when River has given up on none of its jobs, and failed when  *)
(* it has given up on one: it never stops silently.                        *)
THEOREM CodegenTellsItsEnd == CodegenSpec => []Synchronised
<1>1. ChainReady /\ EndInv("notify") => Synchronised
  BY CodegenEndsAtNotify, EndIsSynchronised
<1>2. QED
  BY <1>1, CodegenEndKept, PTL

(* Then the user has been told of the failure or the completion, and the   *)
(* copilot been asked to review a completed run.                           *)
THEOREM CodegenEndIsAnnounced ==
    ASSUME MaxCount > 0
    PROVE  CodegenSpec => []OutcomeIsAnnounced
<1>1. ChainReady /\ EndInv("notify") => OutcomeIsAnnounced
  BY CodegenEndsAtNotify, EndIsAnnounced
<1>2. QED
  BY <1>1, CodegenEndKept, PTL

(* Without a crash and without users, neither a completed task nor a       *)
(* completed codegen run is taken back, whatever fails or runs again.      *)
THEOREM CodegenNeverRegresses == CodegenSpec => NoRegress
<1>1. ChainReady /\ EndInv("notify") /\ [Next]_vars
         => [budget.crashes = 0 /\ budget'.retries = 0 =>
                /\ runStatus = "completed" => runStatus' = "completed"
                /\ \A t \in Tasks : taskStatus[t] = "completed"
                                        => taskStatus'[t] = "completed"]_vars
  BY NoRegressStep DEF EndInv, Regress
<1>2. QED
  BY <1>1, CodegenEndKept, CodegenRunsTheEngine, PTL DEF Spec, NoRegress
=============================================================================
