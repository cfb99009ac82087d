---------------------- MODULE SynthesisPipelineProofs ----------------------
(***************************************************************************)
(* The synthesis pipeline, too, is an instance of the engine, though its   *)
(* embed jobs run beside its chain: the chain keeps its order without      *)
(* them, a completed run has candidates, they are written once, and a run  *)
(* whose two branches end, in any order, is reported.                      *)
(***************************************************************************)
EXTENDS SynthesisPipeline, PipelineEngineProofs

(* Every step of the synthesis pipeline is one of the engine, or does not  *)
(* touch the run, its tasks and its jobs.                                  *)
LEMMA SynthesisStep ==
    ASSUME SynthesisNext
    PROVE  [Next]_vars
<1>1. ASSUME NEW j \in JobIds, Work(j) PROVE Next
  BY <1>1 DEF Next
<1>2. ASSUME NEW j \in JobIds, NEW p, MarkTask(j, p) PROVE Work(j)
  BY <1>2 DEF Work, MarkTask
<1>3. ASSUME NEW j \in JobIds, SynthesisWork(j) PROVE [Next]_vars
  <2>1. CASE SynthesisStart(j) \/ SynthesisReturn(j)
    BY <1>1, <2>1 DEF SynthesisStart, SynthesisReturn, Work
  <2>2. CASE FetchRead(j) \/ \E c \in Chunks : Embed(j, c)
    BY <2>2 DEF FetchRead, Embed
  <2>3. CASE \E c \in Chunks : FetchSpawn(j, c)
    <3>1. \/ WorkStatement(j)
          \/ \E n \in JobIds : Spawn(j, "embed_missing", n)
      BY <2>3 DEF FetchSpawn
    <3>2. ASSUME NEW n \in JobIds, Spawn(j, "embed_missing", n) PROVE Work(j)
      <4>1. "embed_missing" \in Spawns[jobs[j].kind]
        BY <3>2 DEF Spawn
      <4>2. QED
        BY <3>2, <4>1 DEF Work
    <3>3. QED
      BY <1>1, <3>1, <3>2 DEF Work
  <2>4. CASE ClusterWrite(j)
    BY <1>1, <2>4 DEF ClusterWrite, Work
  <2>5. CASE FetchEnds(j) \/ EmbedEnds(j) \/ ClusterEnds(j) \/ LaterStep(j)
    <3>1. \E p : MarkTask(j, p)
      BY <2>5 DEF FetchEnds, EmbedEnds, ClusterEnds, LaterStep, Mark
    <3>2. QED
      BY <1>1, <1>2, <3>1
  <2>6. CASE \/ \E n \in JobIds : ChainInsert(j, n)
             \/ ChainLost(j) \/ CheckRead(j) \/ CheckWriteStatus(j)
             \/ CheckWriteError(j) \/ CheckNotify(j) \/ AskReview(j)
    BY <1>1, <2>6 DEF Work
  <2>7. QED
    BY <1>3, <2>1, <2>2, <2>3, <2>4, <2>5, <2>6 DEF SynthesisWork
<1>4. QED
  BY <1>3 DEF SynthesisNext, Next

(* The synthesis pipeline implements the engine. *)
THEOREM SynthesisRunsTheEngine == SynthesisSpec => Spec
<1>1. SynthesisInit => Init
  BY DEF SynthesisInit
<1>2. ASSUME [SynthesisNext]_synthesisVars PROVE [Next]_vars
  BY <1>2, SynthesisStep DEF synthesisVars
<1>3. QED
  BY <1>1, <1>2, PTL DEF SynthesisSpec, Spec

(* A synthesis run is reported completed only when all its tasks have been *)
(* completed, the embed jobs' one included, failed only when one of them   *)
(* has failed.                                                             *)
THEOREM SynthesisKeepsContract == SynthesisSpec => KeepsContract
<1>1. QED
  BY SynthesisRunsTheEngine, ContractIsKept

-----------------------------------------------------------------------------
Local == [todo : SUBSET Chunks, step : {"start", "read", "written"}]

DataTypeOK ==
    /\ embedded \in SUBSET Chunks
    /\ batches \in Nat
    /\ local \in [JobIds -> Local]

(* What a step writes of the signals and of its job's own data.            *)
LEMMA DataStep ==
    ASSUME DataTypeOK, SynthesisNext
    PROVE  DataTypeOK'
<1> USE DEF DataTypeOK
<1>1. ASSUME NEW j \in JobIds PROVE local[j].todo \in SUBSET Chunks
  BY DEF Local
<1>2. ASSUME NEW j \in JobIds, NEW s \in {"start", "read", "written"}
      PROVE  [local EXCEPT ![j].step = s] \in [JobIds -> Local]
  <2>1. [local[j] EXCEPT !.step = s] \in Local
    BY DEF Local
  <2>2. QED
    BY <2>1
<1>3. ASSUME NEW j \in JobIds, SynthesisWork(j) PROVE DataTypeOK'
  <2>1. CASE SynthesisStart(j)
    BY <1>2, <2>1 DEF SynthesisStart
  <2>2. CASE FetchRead(j)
    BY <2>2 DEF FetchRead, Local
  <2>3. ASSUME NEW c \in Chunks, FetchSpawn(j, c) PROVE DataTypeOK'
    <3>1. [local[j] EXCEPT !.todo = @ \ {c}] \in Local
      BY <1>1 DEF Local
    <3>2. [todo |-> {c}, step |-> "start"] \in Local
      BY DEF Local
    <3>3. \/ \E n \in JobIds :
                local' = [local EXCEPT ![j].todo = @ \ {c},
                                       ![n] = [todo |-> {c}, step |-> "start"]]
          \/ local' = [local EXCEPT ![j].todo = @ \ {c}]
      BY <2>3 DEF FetchSpawn
    <3>4. [local EXCEPT ![j].todo = @ \ {c}] \in [JobIds -> Local]
      BY <3>1
    <3>5. local' \in [JobIds -> Local]
      BY <3>2, <3>3, <3>4
    <3>6. QED
      BY <2>3, <3>5 DEF FetchSpawn
  <2>4. ASSUME NEW c \in Chunks, Embed(j, c) PROVE DataTypeOK'
    BY <2>4 DEF Embed
  <2>5. CASE ClusterWrite(j)
    <3>1. batches' \in Nat
      BY <2>5 DEF ClusterWrite
    <3>2. local' \in [JobIds -> Local]
      BY <1>2, <2>5 DEF ClusterWrite
    <3>3. QED
      BY <2>5, <3>1, <3>2 DEF ClusterWrite
  <2>6. CASE SynthesisReturn(j)
    <3>1. Fresh \in Local /\ [local[j] EXCEPT !.step = "start"] \in Local
      BY <1>1 DEF Fresh, Local
    <3>2. (IF local[j].step = "read" THEN Fresh
           ELSE [local[j] EXCEPT !.step = "start"]) \in Local
      BY <3>1
    <3>3. QED
      BY <2>6, <3>2 DEF SynthesisReturn
  <2>7. CASE FetchEnds(j) \/ EmbedEnds(j) \/ ClusterEnds(j) \/ LaterStep(j)
    <3>1. UNCHANGED dataVars
      BY <2>7 DEF FetchEnds, EmbedEnds, ClusterEnds, LaterStep, Mark
    <3>2. QED
      BY <3>1 DEF dataVars
  <2>8. QED
    BY <1>3, <2>1, <2>2, <2>3, <2>4, <2>5, <2>6, <2>7 DEF SynthesisWork, dataVars
<1>4. QED
  BY <1>3 DEF SynthesisNext, dataVars

(* The rows of the run, its jobs and the data of the signals keep their    *)
(* types, whatever fails, crashes or is retried.                           *)
THEOREM SynthesisTypeCorrect == SynthesisSpec => []SynthesisTypeOK
<1>1. SynthesisInit => DataTypeOK
  BY DEF SynthesisInit, DataTypeOK, Local, Fresh
<1>2. DataTypeOK /\ [SynthesisNext]_synthesisVars => DataTypeOK'
  BY DataStep DEF DataTypeOK, synthesisVars, dataVars
<1>3. TypeOK /\ DataTypeOK => SynthesisTypeOK
  BY DEF DataTypeOK, SynthesisTypeOK, Local
<1>4. QED
  BY <1>1, <1>2, <1>3, SynthesisRunsTheEngine, TypeCorrect, PTL DEF SynthesisSpec

-----------------------------------------------------------------------------
(* The place of each worker; no two share one. *)
LEMMA SynthesisOrderValues ==
    /\ SynthesisOrder["fetch_signals"] = 0 /\ SynthesisOrder["embed_missing"] = 1
    /\ SynthesisOrder["cluster_themes"] = 2 /\ SynthesisOrder["name_themes"] = 3
    /\ SynthesisOrder["score_candidates"] = 4 /\ SynthesisOrder["write_candidates"] = 5
    /\ SynthesisOrder["update_context"] = 6
BY DEF SynthesisTasks, SynthesisOrder

LEMMA SynthesisOrderIsTotal ==
    \A t, u \in SynthesisTasks : SynthesisOrder[t] = SynthesisOrder[u] => t = u
BY SynthesisOrderValues DEF SynthesisTasks

(* Without the embed jobs its workers are one chain. *)
LEMMA SynthesisIsChain == IsChain(ChainTasks)
<1>1. /\ Tasks = SynthesisTasks /\ SortOrder = SynthesisOrder
      /\ Plans = SynthesisPlans /\ Spawns = SynthesisSpawns /\ Entry = "fetch_signals"
  BY SynthesisAssumption
<1>2. ChainTasks \subseteq Tasks /\ Entry \in ChainTasks
  BY <1>1 DEF ChainTasks, SynthesisTasks
<1>3. \A t, u \in ChainTasks : SortOrder[t] = SortOrder[u] => t = u
  BY <1>1, <1>2, SynthesisOrderIsTotal
<1>4. \A t \in ChainTasks : SortOrder[Entry] <= SortOrder[t]
  BY <1>1, SynthesisOrderValues DEF ChainTasks, SynthesisTasks
<1>5. \A t \in Tasks : Spawns[t] \cap ChainTasks = {}
  BY <1>1 DEF SynthesisSpawns, ChainTasks
<1>6. ASSUME NEW t \in Tasks, NEW p \in Plan, p \in Plans[t], p.chain # <<>>
      PROVE  Links(ChainTasks, t, p)
  <2>1. PICK next \in ChainTasks : p = Chains(next) /\ t \in ChainTasks
               /\ SynthesisOrder[t] < SynthesisOrder[next]
               /\ \A u \in ChainTasks : SynthesisOrder[u] < SynthesisOrder[next]
                                           => SynthesisOrder[u] <= SynthesisOrder[t]
    <3>1. \/ t = "fetch_signals" /\ p = Chains("cluster_themes")
          \/ t = "cluster_themes" /\ p = Chains("name_themes")
          \/ t = "name_themes" /\ p = Chains("score_candidates")
          \/ t = "score_candidates" /\ p = Chains("write_candidates")
          \/ t = "write_candidates" /\ p = Chains("update_context")
      BY <1>1, <1>6 DEF SynthesisTasks, SynthesisPlans, FetchSignalsPlans, EmbedPlans,
         ClusterThemesPlans, NameThemesPlans, ScoreCandidatesPlans, WriteCandidatesPlans,
         UpdateContextPlans, FinishesAndAsks, Fails, Finishes
    <3>2. ChainTasks = {"fetch_signals", "cluster_themes", "name_themes",
                        "score_candidates", "write_candidates", "update_context"}
      BY <1>1 DEF ChainTasks, SynthesisTasks
    <3>3. QED
      BY <3>1, <3>2, SynthesisOrderValues
  <2>2. p.chain = <<next>> /\ p.mark = "completed" /\ ~p.check /\ ~p.review
    BY <2>1 DEF Chains
  <2>3. Head(p.chain) = next /\ Tail(p.chain) = <<>>
    BY <2>2
  <2>4. QED
    BY <1>1, <2>1, <2>2, <2>3 DEF Links
<1>7. QED
  BY <1>2, <1>3, <1>4, <1>5, <1>6 DEF IsChain

(* The chain's invariant holds of every synthesis. *)
LEMMA SynthesisChainKept ==
    SynthesisSpec => [](TypeOK /\ Consistent /\ ChainInv(ChainTasks))
<1>1. Init => ChainInv(ChainTasks)
  BY ChainInit
<1>2. TypeOK /\ Consistent /\ ChainInv(ChainTasks) /\ [Next]_vars => ChainInv(ChainTasks)'
  BY SynthesisIsChain, ChainStep
<1>3. QED
  BY <1>1, <1>2, SynthesisRunsTheEngine, TypeCorrect, VerdictsAreCovered, PTL DEF Spec

(* A step of the synthesis' chain has a job only when every step before it *)
(* has been completed, whatever the embed jobs beside it do.               *)
THEOREM SynthesisInOrder == SynthesisSpec => []ChainInOrder
<1>1. ChainInv(ChainTasks) => ChainInOrder
  BY DEF ChainInv, EarlierCompleted, ChainInOrder, Exists
<1>2. QED
  BY <1>1, SynthesisChainKept, PTL

(* The steps, by what they do to the jobs and their data. *)
LEMMA SynthesisCases ==
    ASSUME SynthesisNext
    PROVE  \/ LeavesJobs /\ UNCHANGED dataVars
           \/ (\E n \in JobIds : EnqueueEntry(n)) /\ UNCHANGED dataVars
           \/ \E j \in JobIds :
                 \/ SynthesisStart(j) \/ FetchRead(j) \/ ClusterWrite(j)
                 \/ SynthesisReturn(j)
                 \/ \E c \in Chunks : FetchSpawn(j, c) \/ Embed(j, c)
                 \/ FetchEnds(j) \/ EmbedEnds(j) \/ ClusterEnds(j) \/ LaterStep(j)
                 \/ (\E n \in JobIds : ChainInsert(j, n)) /\ UNCHANGED dataVars
                 \/ ChainLost(j) /\ UNCHANGED dataVars
                 \/ Reports(j) /\ UNCHANGED dataVars
                 \/ (Timeout(j) \/ Crash(j) \/ Rescue(j)) /\ UNCHANGED dataVars
<1>1. ASSUME NEW j \in JobIds, SynthesisWork(j)
      PROVE  \/ SynthesisStart(j) \/ FetchRead(j) \/ ClusterWrite(j)
             \/ SynthesisReturn(j)
             \/ \E c \in Chunks : FetchSpawn(j, c) \/ Embed(j, c)
             \/ FetchEnds(j) \/ EmbedEnds(j) \/ ClusterEnds(j) \/ LaterStep(j)
             \/ (\E n \in JobIds : ChainInsert(j, n)) /\ UNCHANGED dataVars
             \/ ChainLost(j) /\ UNCHANGED dataVars
             \/ Reports(j) /\ UNCHANGED dataVars
  BY <1>1 DEF SynthesisWork, Reports
<1>2. QED
  BY <1>1 DEF SynthesisNext, Create, LeavesJobs

(* What the cluster job has written is there: without a fault, once it has *)
(* gone past its work to the chain, or the next job exists, there are      *)
(* candidates.                                                             *)
ClusterHeld(r, l, n) ==
    /\ r.kind = "cluster_themes"
          => (r.pc = "chain" \/ (r.pc = "body" /\ l.step = "written") => n > 0)
    /\ r.kind = "name_themes" /\ Exists(r) => n > 0

ClusteredFirst ==
    budget.faults = 0 => \A j \in JobIds : ClusterHeld(jobs[j], local[j], batches)

(* Only the clustering itself counts a batch. *)
LEMMA BatchesGrow ==
    ASSUME DataTypeOK, SynthesisNext
    PROVE  /\ batches' \in Nat
           /\ \/ batches' = batches
              \/ batches' = batches + 1 /\ \E j \in JobIds : ClusterWrite(j) /\ Succeeds(j)
<1>1. batches \in Nat
  BY DEF DataTypeOK
<1>2. ASSUME NEW j \in JobIds, ClusterWrite(j)
      PROVE  batches' = batches \/ (batches' = batches + 1 /\ Succeeds(j))
  BY <1>2 DEF ClusterWrite
<1>3. ASSUME NEW j \in JobIds,
             \/ SynthesisStart(j) \/ FetchRead(j) \/ SynthesisReturn(j)
             \/ \E c \in Chunks : FetchSpawn(j, c) \/ Embed(j, c)
             \/ FetchEnds(j) \/ EmbedEnds(j) \/ ClusterEnds(j) \/ LaterStep(j)
      PROVE  batches' = batches
  BY <1>3 DEF SynthesisStart, FetchRead, SynthesisReturn, FetchSpawn, Embed, FetchEnds,
     EmbedEnds, ClusterEnds, LaterStep, Mark, dataVars
<1>4. batches' = batches \/ (batches' = batches + 1 /\ \E j \in JobIds : ClusterWrite(j) /\ Succeeds(j))
  BY <1>2, <1>3, SynthesisCases DEF dataVars
<1>5. QED
  BY <1>1, <1>4

LEMMA ClusteredFirstStep ==
    ASSUME TypeOK, Consistent, PlansHeld, Unhurt, DataTypeOK, ClusteredFirst, SynthesisNext
    PROVE  ClusteredFirst'
<1>1. SUFFICES ASSUME budget'.faults = 0, NEW i \in JobIds
               PROVE  ClusterHeld(jobs'[i], local'[i], batches')
  BY DEF ClusteredFirst
<1> DEFINE Goal == ClusterHeld(jobs'[i], local'[i], batches')
<1> SUFFICES Goal
  OBVIOUS
<1>2. Next \/ UNCHANGED vars
  BY SynthesisStep
<1>3. /\ budget.faults = 0
      /\ \A j \in JobIds : ~Timeout(j)
      /\ \A j \in JobIds : Next => ~Errs(j)
  <2>1. CASE Next
    BY <1>1, <2>1, CalmStatements DEF Timeout
  <2>2. CASE UNCHANGED vars
    <3>1. (budget' = budget /\ ~Next) \/ Next
      BY <2>2 DEF vars
    <3>2. ~Fault
      BY <2>2 DEF vars, Fault, TypeOK, Budget
    <3>3. QED
      BY <1>1, <2>1, <3>1, <3>2 DEF Timeout
  <2>3. QED
    BY <1>2, <2>1, <2>2
<1>4. ExecutionSound /\ RunCreatedFirst
  BY DEF Consistent
<1>5. /\ batches' \in Nat /\ batches \in Nat /\ batches <= batches'
  BY BatchesGrow DEF DataTypeOK
<1>6. \A j \in JobIds : ClusterHeld(jobs[j], local[j], batches')
  BY <1>3, <1>5 DEF ClusteredFirst, ClusterHeld
<1> HIDE DEF Goal
<1>7. ASSUME jobs'[i] = jobs[i], local'[i].step = local[i].step PROVE Goal
  BY <1>6, <1>7 DEF Goal, ClusterHeld
<1>8. ASSUME Exists(jobs[i]), jobs'[i].kind = jobs[i].kind, jobs'[i].pc \notin {"chain", "body"}
      PROVE  Goal
  BY <1>6, <1>8 DEF Goal, ClusterHeld
<1>9. CASE LeavesJobs /\ UNCHANGED dataVars
  <2>1. jobs' = jobs
    BY <1>9, LeavesJobsEffect
  <2>2. local' = local
    BY <1>9 DEF dataVars
  <2>3. QED
    BY <1>7, <2>1, <2>2
<1>10. ASSUME NEW n \in JobIds, EnqueueEntry(n), UNCHANGED dataVars PROVE Goal
  <2>1. Others(n) /\ Inserted(jobs'[n], "fetch_signals")
    BY <1>4, <1>10, EnqueueEffect, SynthesisAssumption
  <2>2. i = n => Goal
    BY <2>1 DEF Inserted, Goal, ClusterHeld
  <2>3. QED
    BY <1>7, <1>10, <2>1, <2>2 DEF Others, dataVars
<1>11. ASSUME NEW j \in JobIds, SynthesisStart(j) PROVE Goal
  <2>1. Others(j) /\ Stays(j) /\ jobs[j].state = "available" /\ jobs'[j].pc = "body"
    BY <1>11, StartEffect DEF SynthesisStart
  <2>2. /\ local'[j].step = "start"
        /\ \A k \in JobIds : k # j => local'[k] = local[k]
    BY <1>11 DEF SynthesisStart, DataTypeOK, Local
  <2>3. CASE i = j
    BY <1>6, <2>1, <2>2, <2>3 DEF Goal, ClusterHeld, Stays, Exists
  <2>4. QED
    BY <1>7, <2>1, <2>2, <2>3 DEF Others
<1>12. ASSUME NEW j \in JobIds, FetchRead(j) PROVE Goal
  <2>1. /\ jobs' = jobs /\ jobs[j].kind = "fetch_signals"
        /\ \A k \in JobIds : k # j => local'[k] = local[k]
    BY <1>12 DEF FetchRead, At, vars, DataTypeOK
  <2>2. CASE i = j
    BY <2>1, <2>2 DEF Goal, ClusterHeld
  <2>3. QED
    BY <1>7, <2>1, <2>2
<1>13. ASSUME NEW j \in JobIds, NEW c \in Chunks, FetchSpawn(j, c) PROVE Goal
  <2>1. jobs[j].kind = "fetch_signals" /\ jobs[j].pc = "body"
    BY <1>13 DEF FetchSpawn, At
  <2>2. CASE \E n \in JobIds :
               /\ Spawn(j, "embed_missing", n)
               /\ local' = [local EXCEPT ![j].todo = @ \ {c},
                                         ![n] = [todo |-> {c}, step |-> "start"]]
    <3>1. PICK n \in JobIds :
               /\ Spawn(j, "embed_missing", n)
               /\ local' = [local EXCEPT ![j].todo = @ \ {c},
                                         ![n] = [todo |-> {c}, step |-> "start"]]
      BY <2>2
    <3>2. /\ \A k \in JobIds : k # j /\ k # n => jobs'[k] = jobs[k]
          /\ Inserted(jobs'[n], "embed_missing") /\ Stays(j)
      BY <1>4, <3>1, SpawnEffect
    <3>3. \A k \in JobIds : k # j /\ k # n => local'[k] = local[k]
      BY <3>1 DEF DataTypeOK
    <3>4. CASE i = n
      BY <3>2, <3>4 DEF Goal, ClusterHeld, Inserted
    <3>5. CASE i = j
      BY <2>1, <3>2, <3>5 DEF Goal, ClusterHeld, Stays
    <3>6. QED
      BY <1>7, <3>2, <3>3, <3>4, <3>5
  <2>3. CASE WorkStatement(j) /\ local' = [local EXCEPT ![j].todo = @ \ {c}]
    <3>1. jobs' = jobs /\ \A k \in JobIds : k # j => local'[k] = local[k]
      BY <2>3 DEF WorkStatement, DataTypeOK
    <3>2. CASE i = j
      BY <2>1, <3>1, <3>2 DEF Goal, ClusterHeld
    <3>3. QED
      BY <1>7, <3>1, <3>2
  <2>4. QED
    BY <1>13, <2>2, <2>3 DEF FetchSpawn
<1>14. ASSUME NEW j \in JobIds, NEW c \in Chunks, Embed(j, c) PROVE Goal
  BY <1>7, <1>14 DEF Embed, vars
<1>15. ASSUME NEW j \in JobIds, ClusterWrite(j) PROVE Goal
  <2>1. /\ WorkStatement(j) /\ jobs' = jobs /\ jobs[j].kind = "cluster_themes"
        /\ \A k \in JobIds : k # j => local'[k] = local[k]
    BY <1>15 DEF ClusterWrite, WorkStatement, At, DataTypeOK
  <2>2. ~Errs(j)
    BY <1>3, <2>1 DEF Next, Work
  <2>3. batches' > 0
    BY <1>5, <1>15, <2>2 DEF ClusterWrite
  <2>4. CASE i = j
    BY <2>3 DEF Goal, ClusterHeld
  <2>5. QED
    BY <1>7, <2>1, <2>4
<1>16. ASSUME NEW j \in JobIds, FetchEnds(j) \/ EmbedEnds(j) \/ ClusterEnds(j) \/ LaterStep(j)
       PROVE  Goal
  <2>1. UNCHANGED dataVars
    BY <1>16 DEF FetchEnds, EmbedEnds, ClusterEnds, LaterStep, Mark
  <2>2. PICK p : MarkTask(j, p) /\ (jobs[j].kind = "cluster_themes"
                                       => p.chain = <<>> \/ local[j].step = "written")
    <3>1. CASE FetchEnds(j) \/ EmbedEnds(j) \/ LaterStep(j)
      BY <3>1 DEF FetchEnds, EmbedEnds, LaterStep, Mark, At
    <3>2. CASE ClusterEnds(j)
      BY <3>2 DEF ClusterEnds, Mark, At, Fails, Finishes
    <3>3. QED
      BY <1>16, <3>1, <3>2
  <2>3. /\ Others(j) /\ Stays(j) /\ jobs[j].pc = "body" /\ jobs[j].state = "running"
        /\ jobs'[j].pc = AfterMark(p)
    BY <1>4, <2>2, MarkEffect
  <2>4. jobs'[j].pc # "body" /\ (jobs'[j].pc = "chain" => p.chain # <<>>)
    BY <2>3 DEF AfterMark, AfterCheck
  <2>5. CASE i = j
    BY <1>6, <2>2, <2>3, <2>4, <2>5 DEF Goal, ClusterHeld, Stays, Exists
  <2>6. QED
    BY <1>7, <2>1, <2>3, <2>5 DEF Others, dataVars
<1>17. ASSUME NEW j \in JobIds, NEW n \in JobIds, ChainInsert(j, n), UNCHANGED dataVars
       PROVE  Goal
  <2>1. /\ \A k \in JobIds : k # j /\ k # n => jobs'[k] = jobs[k]
        /\ Stays(j) /\ jobs[j].state = "running" /\ jobs[j].pc = "chain"
        /\ Inserted(jobs'[n], Head(jobs[j].plan.chain))
        /\ jobs'[j].pc = AfterMark(ChainRest(jobs[j].plan))
    BY <1>4, <1>17, ChainInsertEffect
  <2>2. CASE i = j
    <3>1. jobs'[j].pc = "return"
      BY <2>1, ChainLeft, SynthesisIsChain
    <3>2. QED
      BY <1>8, <2>1, <2>2, <3>1 DEF Stays, Exists
  <2>3. CASE i = n
    <3>1. Head(jobs[j].plan.chain) = "name_themes" => jobs[j].kind = "cluster_themes"
      <4>1. jobs[j].plan \in Plans[jobs[j].kind] /\ jobs[j].plan.chain # <<>>
            /\ jobs[j].kind \in Tasks
        BY <2>1 DEF PlansHeld, PlanHeld, TypeOK, Job
      <4>2. QED
        BY <4>1, SynthesisAssumption DEF SynthesisTasks, SynthesisPlans, FetchSignalsPlans,
           EmbedPlans, ClusterThemesPlans, NameThemesPlans, ScoreCandidatesPlans,
           WriteCandidatesPlans, UpdateContextPlans, FinishesAndAsks, Fails, Finishes, Chains
    <3>2. jobs[j].kind = "cluster_themes" => batches' > 0
      BY <1>6, <2>1 DEF ClusterHeld
    <3>3. QED
      BY <2>1, <2>3, <3>1, <3>2 DEF Goal, ClusterHeld, Inserted
  <2>4. QED
    BY <1>7, <1>17, <2>1, <2>2, <2>3 DEF dataVars
<1>18. ASSUME NEW j \in JobIds, ChainLost(j) PROVE FALSE
  BY <1>3, <1>18 DEF ChainLost, Next, Work
<1>19. ASSUME NEW j \in JobIds, Reports(j) \/ Crash(j) \/ Rescue(j), UNCHANGED dataVars
       PROVE  Goal
  <2>1. /\ Others(j) /\ jobs'[j].kind = jobs[j].kind /\ jobs[j].state # "none"
        /\ jobs'[j].pc \in ReportPlaces \cup {"return", "lost", "idle"}
    BY <1>4, <1>19, ReportEffect, CrashEffect, RescueEffect DEF Stays
  <2>2. CASE i = j
    BY <1>8, <2>1, <2>2 DEF Exists, ReportPlaces
  <2>3. QED
    BY <1>7, <1>19, <2>1, <2>2 DEF Others, dataVars
<1>20. ASSUME NEW j \in JobIds, SynthesisReturn(j) PROVE Goal
  <2>1. /\ Others(j) /\ jobs'[j].kind = jobs[j].kind /\ jobs[j].state # "none"
        /\ jobs'[j].pc = "idle"
    BY <1>4, <1>20, ReturnEffect DEF SynthesisReturn
  <2>2. \A k \in JobIds : k # j => local'[k] = local[k]
    BY <1>20 DEF SynthesisReturn, DataTypeOK
  <2>3. CASE i = j
    BY <1>8, <2>1, <2>3 DEF Exists
  <2>4. QED
    BY <1>7, <2>1, <2>2, <2>3 DEF Others
<1>21. QED
  <2>1. CASE \/ LeavesJobs /\ UNCHANGED dataVars
             \/ (\E n \in JobIds : EnqueueEntry(n)) /\ UNCHANGED dataVars
    BY <1>9, <1>10, <2>1
  <2>2. ASSUME NEW j \in JobIds,
               \/ SynthesisStart(j) \/ FetchRead(j) \/ ClusterWrite(j)
               \/ SynthesisReturn(j)
               \/ \E c \in Chunks : FetchSpawn(j, c) \/ Embed(j, c)
               \/ FetchEnds(j) \/ EmbedEnds(j) \/ ClusterEnds(j) \/ LaterStep(j)
        PROVE  Goal
    BY <1>11, <1>12, <1>13, <1>14, <1>15, <1>16, <1>20, <2>2
  <2>3. ASSUME NEW j \in JobIds,
               \/ (\E n \in JobIds : ChainInsert(j, n)) /\ UNCHANGED dataVars
               \/ ChainLost(j) /\ UNCHANGED dataVars
               \/ Reports(j) /\ UNCHANGED dataVars
               \/ (Timeout(j) \/ Crash(j) \/ Rescue(j)) /\ UNCHANGED dataVars
        PROVE  Goal
    BY <1>3, <1>17, <1>18, <1>19, <2>3
  <2>4. QED
    BY <2>1, <2>2, <2>3, SynthesisCases

(* A synthesis is reported completed only when candidates came of it. *)
THEOREM CompletionHasCandidates == SynthesisSpec => []CompletedRunClustered
<1> DEFINE Known == TypeOK /\ Consistent /\ ChainInv(ChainTasks)
<1>1. SynthesisInit => DataTypeOK /\ ClusteredFirst
  BY DEF SynthesisInit, Init, NoJob, DataTypeOK, Local, Fresh, ClusteredFirst, ClusterHeld,
     Exists
<1>2. Known /\ DataTypeOK /\ ClusteredFirst /\ [SynthesisNext]_synthesisVars
        => (DataTypeOK /\ ClusteredFirst)'
  <2> SUFFICES ASSUME Known, DataTypeOK, ClusteredFirst, [SynthesisNext]_synthesisVars
               PROVE  (DataTypeOK /\ ClusteredFirst)'
    OBVIOUS
  <2>1. CASE SynthesisNext
    BY <2>1, DataStep, ClusteredFirstStep DEF ChainInv
  <2>2. CASE UNCHANGED synthesisVars
    BY <2>2 DEF synthesisVars, vars, dataVars, DataTypeOK, ClusteredFirst
  <2>3. QED
    BY <2>1, <2>2
<1>3. Known /\ ClusteredFirst => CompletedRunClustered
  <2> SUFFICES ASSUME Known, ClusteredFirst, runStatus = "completed", budget.faults = 0
               PROVE  batches > 0
    BY DEF CompletedRunClustered
  <2>1. "name_themes" \in everCompleted
    BY SynthesisAssumption DEF ChainInv, CompletionCovered, SynthesisTasks
  <2>2. PICK j \in JobIds : Exists(jobs[j]) /\ jobs[j].kind = "name_themes"
    BY <2>1 DEF ChainInv, CompletedByJobs
  <2>3. QED
    BY <2>2 DEF ClusteredFirst, ClusterHeld
<1>4. QED
  BY <1>1, <1>2, <1>3, SynthesisChainKept, PTL DEF SynthesisSpec

(* The one cluster job that has written its candidates. *)
HasClustered(r, l) ==
    /\ Exists(r) /\ r.kind = "cluster_themes"
    /\ r.pc = "chain" \/ Done(r) \/ (r.pc = "body" /\ l.step = "written")

ClusteredOnce ==
    budget.crashes = 0 =>
        \/ batches = 0
        \/ batches = 1 /\ \E j \in JobIds : HasClustered(jobs[j], local[j])

(* Unless it crashes, it never goes back before its writing. *)
LEMMA HasClusteredStays ==
    ASSUME TypeOK, Consistent, PlansHeld, DataTypeOK, SynthesisNext,
           NEW i \in JobIds, HasClustered(jobs[i], local[i]), ~Crash(i)
    PROVE  HasClustered(jobs'[i], local'[i])
<1>1. Next \/ UNCHANGED vars
  BY SynthesisStep
<1>2. ExecutionSound
  BY DEF Consistent
<1>3. Exists(jobs'[i]) /\ jobs'[i].kind = "cluster_themes"
  <2>1. Exists(jobs[i]) /\ jobs[i].kind = "cluster_themes"
    BY DEF HasClustered
  <2>2. CASE Next
    BY <2>1, <2>2, KindsKept
  <2>3. CASE UNCHANGED vars
    BY <2>1, <2>3 DEF vars
  <2>4. QED
    BY <1>1, <2>2, <2>3
<1>4. CASE Done(jobs[i])
  <2>1. CASE Next
    BY <1>3, <1>4, <2>1, DoneStays DEF HasClustered
  <2>2. CASE UNCHANGED vars
    BY <1>3, <1>4, <2>2 DEF HasClustered, vars
  <2>3. QED
    BY <1>1, <2>1, <2>2
<1>5. CASE jobs[i].pc = "chain" \/ (jobs[i].pc = "body" /\ local[i].step = "written")
  <2> DEFINE Goal == HasClustered(jobs'[i], local'[i])
  <2> SUFFICES Goal
    OBVIOUS
  <2>1. jobs[i].state = "running" /\ jobs[i].kind = "cluster_themes"
    BY <1>2, <1>5 DEF ExecutionSound, HasClustered
  <2>2. ASSUME jobs'[i].pc = jobs[i].pc, local'[i] = local[i] PROVE Goal
    BY <1>3, <1>5, <2>2 DEF HasClustered
  <2>3. ASSUME jobs'[i].pc = "chain" \/ Done(jobs'[i]) PROVE Goal
    BY <1>3, <2>3 DEF HasClustered
  <2> HIDE DEF Goal
  <2>4. CASE LeavesJobs /\ UNCHANGED dataVars
    <3>1. jobs'[i] = jobs[i] /\ local'[i] = local[i]
      BY <2>4, LeavesJobsEffect DEF dataVars
    <3>2. QED
      BY <2>2, <3>1
  <2>5. ASSUME NEW n \in JobIds, EnqueueEntry(n) PROVE FALSE
    BY <2>1, <2>5, EnqueueEffect DEF Consistent
  <2>6. ASSUME NEW j \in JobIds, SynthesisStart(j) PROVE Goal
    <3>1. Others(j) /\ jobs[j].state = "available"
      BY <2>6, StartEffect DEF SynthesisStart
    <3>2. i # j /\ local'[i] = local[i]
      BY <2>1, <2>6, <3>1 DEF SynthesisStart, DataTypeOK
    <3>3. QED
      BY <2>2, <3>1, <3>2 DEF Others
  <2>7. ASSUME NEW j \in JobIds, FetchRead(j) PROVE Goal
    <3>1. jobs' = jobs /\ jobs[j].kind = "fetch_signals"
      BY <2>7 DEF FetchRead, At, vars
    <3>2. local'[i] = local[i] /\ jobs'[i] = jobs[i]
      BY <2>1, <2>7, <3>1 DEF FetchRead, DataTypeOK
    <3>3. QED
      BY <2>2, <3>2
  <2>8. ASSUME NEW j \in JobIds, NEW c \in Chunks, FetchSpawn(j, c) PROVE Goal
    <3>1. i # j
      BY <2>1, <2>8 DEF FetchSpawn, At
    <3>2. CASE \E n \in JobIds :
               /\ Spawn(j, "embed_missing", n)
               /\ local' = [local EXCEPT ![j].todo = @ \ {c},
                                         ![n] = [todo |-> {c}, step |-> "start"]]
      <4>1. PICK n \in JobIds :
               /\ Spawn(j, "embed_missing", n)
               /\ local' = [local EXCEPT ![j].todo = @ \ {c},
                                         ![n] = [todo |-> {c}, step |-> "start"]]
        BY <3>2
      <4>2. /\ \A k \in JobIds : k # j /\ k # n => jobs'[k] = jobs[k]
            /\ jobs[n].state = "none"
        BY <1>2, <4>1, SpawnEffect
      <4>3. i # n /\ jobs'[i] = jobs[i] /\ local'[i] = local[i]
        BY <2>1, <3>1, <4>1, <4>2 DEF DataTypeOK
      <4>4. QED
        BY <2>2, <4>3
    <3>3. CASE WorkStatement(j) /\ local' = [local EXCEPT ![j].todo = @ \ {c}]
      <4>1. jobs'[i] = jobs[i] /\ local'[i] = local[i]
        BY <3>1, <3>3 DEF WorkStatement, DataTypeOK
      <4>2. QED
        BY <2>2, <4>1
    <3>4. QED
      BY <2>8, <3>2, <3>3 DEF FetchSpawn
  <2>9. ASSUME NEW j \in JobIds, NEW c \in Chunks, Embed(j, c) PROVE Goal
    <3>1. jobs'[i] = jobs[i] /\ local'[i] = local[i]
      BY <2>9 DEF Embed, vars
    <3>2. QED
      BY <2>2, <3>1
  <2>10. ASSUME NEW j \in JobIds, ClusterWrite(j) PROVE Goal
    <3>1. i # j
      BY <1>5, <2>10 DEF ClusterWrite, At
    <3>2. jobs'[i] = jobs[i] /\ local'[i] = local[i]
      BY <2>10, <3>1 DEF ClusterWrite, WorkStatement, DataTypeOK
    <3>3. QED
      BY <2>2, <3>2
  <2>11. ASSUME NEW j \in JobIds, FetchEnds(j) \/ EmbedEnds(j) \/ ClusterEnds(j) \/ LaterStep(j)
         PROVE  Goal
    <3>1. local' = local
      BY <2>11 DEF FetchEnds, EmbedEnds, ClusterEnds, LaterStep, Mark, dataVars
    <3>2. PICK p : MarkTask(j, p) /\ (jobs[j].kind = "cluster_themes" /\ local[j].step = "written"
                                          => p = Chains("name_themes"))
      <4>1. CASE FetchEnds(j) \/ EmbedEnds(j) \/ LaterStep(j)
        BY <4>1 DEF FetchEnds, EmbedEnds, LaterStep, Mark, At
      <4>2. CASE ClusterEnds(j)
        BY <4>2 DEF ClusterEnds, Mark, At
      <4>3. QED
        BY <2>11, <4>1, <4>2
    <3>3. Others(j) /\ jobs[j].pc = "body" /\ jobs'[j].pc = AfterMark(p)
      BY <1>2, <3>2, MarkEffect
    <3>4. CASE i = j
      <4>1. p.chain # <<>>
        BY <1>5, <2>1, <3>2, <3>3, <3>4 DEF Chains
      <4>2. jobs'[i].pc = "chain"
        BY <3>3, <3>4, <4>1 DEF AfterMark
      <4>3. QED
        BY <2>3, <4>2
    <3>5. CASE i # j
      BY <2>2, <3>1, <3>3, <3>5 DEF Others
    <3>6. QED
      BY <3>4, <3>5
  <2>12. ASSUME NEW j \in JobIds, ChainLost(j) \/ \E n \in JobIds : ChainInsert(j, n),
                UNCHANGED dataVars
         PROVE  Goal
    <3>1. /\ jobs[j].pc = "chain" /\ jobs'[j].plan = ChainRest(jobs[j].plan)
          /\ jobs'[j].pc = AfterMark(ChainRest(jobs[j].plan))
          /\ \A k \in JobIds : k # j /\ jobs[k].state # "none" => jobs'[k] = jobs[k]
      BY <1>2, <2>12, ChainInsertEffect, ChainLostEffect DEF Others
    <3>2. Done(jobs'[j])
      BY <3>1, ChainLeft, SynthesisIsChain DEF Done, Past
    <3>3. CASE i = j
      BY <2>3, <3>2, <3>3
    <3>4. CASE i # j
      BY <2>1, <2>2, <2>12, <3>1, <3>4 DEF dataVars
    <3>5. QED
      BY <3>3, <3>4
  <2>13. ASSUME NEW j \in JobIds, Reports(j) \/ Rescue(j) \/ Timeout(j) \/ Crash(j),
                UNCHANGED dataVars
         PROVE  Goal
    <3>1. /\ Others(j)
          /\ i = j => jobs'[j].pc = jobs[j].pc
      BY <1>2, <1>5, <2>13, ReportEffect, RescueEffect, TimeoutEffect, CrashEffect
         DEF ReportPlaces
    <3>2. QED
      BY <2>2, <2>13, <3>1 DEF Others, dataVars
  <2>14. ASSUME NEW j \in JobIds, SynthesisReturn(j) PROVE Goal
    <3>1. Others(j) /\ jobs[j].pc = "return"
      BY <1>2, <2>14, ReturnEffect DEF SynthesisReturn
    <3>2. i # j /\ local'[i] = local[i]
      BY <1>5, <2>14, <3>1 DEF SynthesisReturn, DataTypeOK
    <3>3. QED
      BY <2>2, <3>1, <3>2 DEF Others
  <2>15. ASSUME NEW j \in JobIds,
                \/ SynthesisStart(j) \/ FetchRead(j) \/ ClusterWrite(j)
                \/ SynthesisReturn(j)
                \/ \E c \in Chunks : FetchSpawn(j, c) \/ Embed(j, c)
                \/ FetchEnds(j) \/ EmbedEnds(j) \/ ClusterEnds(j) \/ LaterStep(j)
         PROVE  Goal
    BY <2>6, <2>7, <2>8, <2>9, <2>10, <2>11, <2>14, <2>15
  <2>16. ASSUME NEW j \in JobIds,
                \/ (\E n \in JobIds : ChainInsert(j, n)) /\ UNCHANGED dataVars
                \/ ChainLost(j) /\ UNCHANGED dataVars
                \/ Reports(j) /\ UNCHANGED dataVars
                \/ (Timeout(j) \/ Crash(j) \/ Rescue(j)) /\ UNCHANGED dataVars
         PROVE  Goal
    BY <2>12, <2>13, <2>16
  <2>17. QED
    BY <2>4, <2>5, <2>15, <2>16, SynthesisCases
<1>6. QED
  BY <1>4, <1>5 DEF HasClustered

LEMMA ClusteredOnceStep ==
    ASSUME TypeOK, Consistent, PlansHeld, OneAtATime(ChainTasks), DataTypeOK,
           ClusteredOnce, SynthesisNext
    PROVE  ClusteredOnce'
<1>1. SUFFICES ASSUME budget'.crashes = 0
               PROVE  \/ batches' = 0
                      \/ batches' = 1 /\ \E j \in JobIds : HasClustered(jobs'[j], local'[j])
  BY DEF ClusteredOnce
<1>2. budget.crashes = 0 /\ \A j \in JobIds : ~Crash(j)
  <2>1. budget.crashes = 0
    <3>1. CASE Next
      BY <1>1, <3>1, BudgetGrows DEF TypeOK, Budget
    <3>2. CASE UNCHANGED vars
      BY <1>1, <3>2 DEF vars
    <3>3. QED
      BY <3>1, <3>2, SynthesisStep
  <2>2. ASSUME NEW j \in JobIds, Crash(j) PROVE FALSE
    BY <1>1, <2>1, <2>2, CrashEffect DEF Consistent
  <2>3. QED
    BY <2>1, <2>2
<1>3. CASE batches' = batches
  <2>1. CASE batches = 0
    BY <1>3, <2>1
  <2>2. CASE batches # 0
    <3>1. PICK j \in JobIds : batches = 1 /\ HasClustered(jobs[j], local[j])
      BY <1>2, <2>2 DEF ClusteredOnce
    <3>2. HasClustered(jobs'[j], local'[j])
      BY <1>2, <3>1, HasClusteredStays
    <3>3. QED
      BY <1>3, <3>1, <3>2
  <2>3. QED
    BY <2>1, <2>2
<1>4. ASSUME NEW j \in JobIds, ClusterWrite(j), batches' = batches + 1
      PROVE  batches' = 1 /\ HasClustered(jobs'[j], local'[j])
  <2>1. /\ jobs[j].pc = "body" /\ jobs[j].kind = "cluster_themes" /\ local[j].step = "start"
        /\ jobs' = jobs /\ local' = [local EXCEPT ![j].step = "written"]
    BY <1>4 DEF ClusterWrite, At, WorkStatement
  <2>2. jobs[j].state = "running" /\ "cluster_themes" \in ChainTasks
    BY <2>1, SynthesisAssumption DEF Consistent, ExecutionSound, ChainTasks, SynthesisTasks
  <2>3. HasClustered(jobs'[j], local'[j])
    BY <2>1, <2>2 DEF HasClustered, Exists, DataTypeOK, Local
  <2>4. ASSUME NEW i \in JobIds, HasClustered(jobs[i], local[i]) PROVE FALSE
    <3>1. i = j
      BY <1>2, <2>1, <2>2, <2>4 DEF HasClustered, OneAtATime, Exists
    <3>2. QED
      BY <2>1, <2>2, <2>4, <3>1 DEF HasClustered, Done, Past, ReportPlaces
  <2>5. batches = 0
    BY <1>2, <2>4 DEF ClusteredOnce
  <2>6. QED
    BY <1>4, <2>3, <2>5
<1>5. QED
  BY <1>3, <1>4, BatchesGrow

(* Without a crash a run clusters once, however often its steps fail, time *)
(* out or are retried.                                                     *)
THEOREM CandidatesOnce == SynthesisSpec => []CandidatesWrittenOnce
<1> DEFINE Known == TypeOK /\ Consistent /\ ChainInv(ChainTasks)
<1>1. SynthesisInit => DataTypeOK /\ ClusteredOnce
  BY DEF SynthesisInit, DataTypeOK, Local, Fresh, ClusteredOnce
<1>2. Known /\ DataTypeOK /\ ClusteredOnce /\ [SynthesisNext]_synthesisVars
        => (DataTypeOK /\ ClusteredOnce)'
  <2> SUFFICES ASSUME Known, DataTypeOK, ClusteredOnce, [SynthesisNext]_synthesisVars
               PROVE  (DataTypeOK /\ ClusteredOnce)'
    OBVIOUS
  <2>1. CASE SynthesisNext
    BY <2>1, DataStep, ClusteredOnceStep DEF ChainInv
  <2>2. CASE UNCHANGED synthesisVars
    BY <2>2 DEF synthesisVars, vars, dataVars, DataTypeOK, ClusteredOnce
  <2>3. QED
    BY <2>1, <2>2
<1>3. DataTypeOK /\ ClusteredOnce => CandidatesWrittenOnce
  BY DEF ClusteredOnce, CandidatesWrittenOnce
<1>4. QED
  BY <1>1, <1>2, <1>3, SynthesisChainKept, PTL DEF SynthesisSpec

-----------------------------------------------------------------------------
(* The end of a synthesis in which nothing fails, crashes or is retried.   *)

(* A worker that chains nothing has failed its task, or checks the run.    *)
LEMMA SynthesisEnds ==
    ASSUME NEW t \in Tasks, NEW p \in Plans[t], p.chain = <<>>
    PROVE  \/ p.mark = "failed"
           \/ /\ p.mark = "completed" /\ AfterMark(p) = "check"
              /\ t \in {"embed_missing", "cluster_themes", "update_context"}
<1>1. \/ p = Finishes /\ t \in {"embed_missing", "cluster_themes"}
      \/ p = FinishesAndAsks /\ t = "update_context"
      \/ p = Fails
  <2>1. \A next : Chains(next).chain # <<>>
    BY DEF Chains
  <2>2. Tasks = SynthesisTasks /\ Plans = SynthesisPlans
    BY SynthesisAssumption
  <2>3. QED
    BY <2>1, <2>2 DEF SynthesisTasks, SynthesisPlans, FetchSignalsPlans, EmbedPlans,
       ClusterThemesPlans, NameThemesPlans, ScoreCandidatesPlans, WriteCandidatesPlans,
       UpdateContextPlans
<1>2. QED
  BY <1>1 DEF Finishes, FinishesAndAsks, Fails, AfterMark

LEMMA EmbedNeverFails == Plans["embed_missing"] = {Finishes} /\ "embed_missing" \in Tasks
BY SynthesisAssumption DEF SynthesisTasks, SynthesisPlans, EmbedPlans

Quietly == TypeOK /\ Consistent /\ ChainInv(ChainTasks) /\ NobodyRetries

(* The rows of the chain's tasks say what their jobs have marked. *)
ChainTold ==
    Calm => \A j \in JobIds :
               jobs[j].kind \in ChainTasks => RowTold(jobs[j], taskStatus)

LEMMA ChainToldStep ==
    ASSUME Quietly, ChainTold, Next
    PROVE  ChainTold'
<1>1. SUFFICES ASSUME Calm', NEW i \in JobIds, jobs'[i].kind \in ChainTasks
               PROVE  RowTold(jobs'[i], taskStatus')
  BY DEF ChainTold
<1>2. TypeOK /\ Consistent /\ ChainInv(ChainTasks) /\ NobodyRetries /\ Unhurt /\ ExecutionSound
  BY DEF Quietly, Consistent, ChainInv
<1>3. Calm
  BY <1>1, <1>2, CalmSteps
<1>4. RowTold(jobs[i], taskStatus)
  <2>1. CASE Exists(jobs[i])
    BY <1>1, <1>2, <1>3, <2>1, KindsKept DEF ChainTold
  <2>2. CASE ~Exists(jobs[i])
    <3>1. jobs[i].pc = "idle" /\ jobs[i].state = "none"
      BY <1>2, <2>2 DEF Exists, ExecutionSound
    <3>2. QED
      BY <3>1 DEF RowTold, Past, ReportPlaces
  <2>3. QED
    BY <2>1, <2>2
<1>5. QED
  BY <1>1, <1>2, <1>4, SynthesisIsChain, RowToldStep

(* A row that is not there yet is only inserted. *)
LEMMA OnlyInserted ==
    ASSUME TypeOK, Consistent, Next, NEW k \in JobIds, ~Exists(jobs[k])
    PROVE  \/ jobs'[k] = jobs[k]
           \/ JobInserted(k) /\ jobs'[k].state = "available"
<1>1. ExecutionSound /\ RunCreatedFirst
  BY DEF Consistent
<1>2. jobs[k].state = "none" /\ jobs[k].pc = "idle"
  BY <1>1 DEF Exists, ExecutionSound
<1>3. JobInserted(k) => jobs'[k].state = "available"
  BY <1>1, EnqueueEffect, ChainInsertEffect, SpawnEffect DEF JobInserted, Inserted
<1>4. ~Crash(k) /\ ~Timeout(k)
  BY <1>2 DEF Crash, Timeout, Working
<1>5. ~JobMoves(k)
  BY <1>1, <1>2, <1>4, StartEffect, SpawnEffect, MarkEffect, ChainInsertEffect,
     ChainLostEffect, ReportEffect, ReturnEffect, RescueEffect DEF JobMoves
<1>6. QED
  BY <1>3, <1>5, JobCases

Blank == \A j \in JobIds : ~Exists(jobs[j]) => jobs[j].kind = Entry

LEMMA BlankStep ==
    ASSUME TypeOK, Consistent, Blank, Next
    PROVE  Blank'
<1>1. SUFFICES ASSUME NEW k \in JobIds, ~Exists(jobs'[k]) PROVE jobs'[k].kind = Entry
  BY DEF Blank
<1>2. ~Exists(jobs[k])
  BY <1>1, KindsKept
<1>3. jobs'[k] = jobs[k]
  BY <1>1, <1>2, OnlyInserted DEF Exists
<1>4. QED
  BY <1>2, <1>3 DEF Blank

(* The embed jobs share one row, and whichever is last completes it.       *)
ToEmbed(r) == r.kind = "embed_missing" /\ (r.state = "available" \/ r.pc = "body")

EmbedTold ==
    Calm /\ (\E j \in JobIds : Exists(jobs[j]) /\ jobs[j].kind = "embed_missing")
        => \/ taskStatus["embed_missing"] = "completed"
           \/ \E j \in JobIds : ToEmbed(jobs[j])

LEMMA EmbedToldStep ==
    ASSUME Quietly, EmbedTold, Next
    PROVE  EmbedTold'
<1> DEFINE Goal == \/ taskStatus'["embed_missing"] = "completed"
                   \/ \E j \in JobIds : ToEmbed(jobs'[j])
<1>1. SUFFICES ASSUME Calm', NEW k \in JobIds, Exists(jobs'[k]),
                      jobs'[k].kind = "embed_missing"
               PROVE  Goal
  BY DEF EmbedTold
<1>2. /\ TypeOK /\ Consistent /\ ChainInv(ChainTasks) /\ NobodyRetries /\ Unhurt
      /\ ExecutionSound /\ RunCreatedFirst
  BY DEF Quietly, Consistent, ChainInv
<1>3. /\ Calm /\ api.pc = "idle"
      /\ \A j \in JobIds : ~Errs(j) /\ ~Timeout(j) /\ ~Crash(j)
  BY <1>1, <1>2, CalmSteps
<1>4. ASSUME NEW j \in JobIds, ToEmbed(jobs'[j]) PROVE Goal
  BY <1>4
<1>5. ASSUME taskStatus'["embed_missing"] = "completed" PROVE Goal
  BY <1>5
<1> HIDE DEF Goal
<1>6. CASE ~Exists(jobs[k])
  <2>1. jobs'[k].state = "available"
    BY <1>1, <1>2, <1>6, OnlyInserted
  <2>2. QED
    BY <1>1, <1>4, <2>1 DEF ToEmbed
<1>7. ASSUME NEW j \in JobIds, NEW p \in Plans[jobs[j].kind], MarkTask(j, p),
             jobs[j].kind = "embed_missing"
      PROVE  Goal
  <2>1. p.mark = "completed" /\ SetTask(j, p.mark)
    BY <1>2, <1>7, EmbedNeverFails, MarkEffect DEF Finishes
  <2>2. taskStatus' = [taskStatus EXCEPT !["embed_missing"] = "completed"]
    BY <1>1, <1>2, <1>7, <2>1, CalmStatements DEF Calm
  <2>3. QED
    BY <1>2, <1>5, <2>2, EmbedNeverFails DEF TypeOK
<1>8. ASSUME NEW j \in JobIds, StartTask(j), jobs[j].kind = "embed_missing" PROVE Goal
  BY <1>2, <1>4, <1>8, StartEffect DEF ToEmbed, Stays
<1>9. CASE Exists(jobs[k])
  <2>1. jobs[k].kind = "embed_missing" /\ creator = "finished"
    BY <1>1, <1>2, <1>9, KindsKept DEF RunCreatedFirst, Exists
  <2>2. CASE taskStatus["embed_missing"] = "completed"
    BY <1>2, <1>3, <1>5, <1>7, <1>8, <2>1, <2>2, EmbedNeverFails, RowFrame
  <2>3. ASSUME NEW j \in JobIds, ToEmbed(jobs[j]) PROVE Goal
    <3>1. /\ jobs[j].kind = "embed_missing" /\ Exists(jobs[j])
          /\ \/ jobs[j].state = "available" /\ jobs[j].pc = "idle"
             \/ jobs[j].state = "running" /\ jobs[j].pc = "body"
      BY <1>2, <2>3 DEF ToEmbed, Exists, ExecutionSound
    <3>2. CASE jobs'[j] = jobs[j]
      BY <1>4, <2>3, <3>2
    <3>3. ~JobInserted(j)
      BY <1>2, <3>1, EnqueueEffect, ChainInsertEffect, SpawnEffect DEF JobInserted, Exists
    <3>4. ASSUME NEW t \in Spawns[jobs[j].kind], NEW n \in JobIds, Spawn(j, t, n) PROVE Goal
      BY <1>2, <1>4, <3>1, <3>4, SpawnEffect DEF ToEmbed, Stays
    <3>5. /\ ~ChainLost(j) /\ ~Reports(j) /\ ~Return(j) /\ ~Rescue(j)
          /\ \A n \in JobIds : ~ChainInsert(j, n)
      BY <1>2, <3>1, ChainInsertEffect, ChainLostEffect, ReportEffect, ReturnEffect,
         RescueEffect DEF ReportPlaces
    <3>6. QED
      BY <1>2, <1>3, <1>7, <1>8, <3>1, <3>2, <3>3, <3>4, <3>5, JobCases DEF JobMoves
  <2>4. QED
    BY <1>3, <1>9, <2>1, <2>2, <2>3 DEF EmbedTold
<1>10. QED
  BY <1>6, <1>9

(* Once the candidates are written, cluster_themes chains.                 *)
LEMMA WrittenChains ==
    ASSUME TypeOK, Consistent, SynthesisNext, NEW i \in JobIds, jobs[i].pc = "body",
           jobs[i].kind = "cluster_themes", local[i].step = "written",
           NEW p, MarkTask(i, p)
    PROVE  p.chain # <<>>
<1>1. ExecutionSound /\ RunCreatedFirst
  BY DEF Consistent
<1>2. /\ jobs[i].state = "running" /\ jobs'[i].plan = p
      /\ jobs'[i].pc \in {"chain", "check", "review", "return"}
  BY <1>1, MarkEffect DEF AfterMark, AfterCheck
<1>3. jobs'[i] # jobs[i]
  BY <1>2
<1>4. ~(LeavesJobs /\ UNCHANGED dataVars) /\ \A n \in JobIds : ~EnqueueEntry(n)
  BY <1>1, <1>2, <1>3, LeavesJobsEffect, EnqueueEffect DEF Others
<1>5. ASSUME NEW j \in JobIds, SynthesisStart(j) PROVE FALSE
  BY <1>2, <1>3, <1>5, StartEffect DEF SynthesisStart, Others
<1>6. ASSUME NEW j \in JobIds, NEW c \in Chunks, FetchSpawn(j, c) PROVE FALSE
  <2>1. i # j
    BY <1>6 DEF FetchSpawn, At
  <2>2. ASSUME NEW n \in JobIds, Spawn(j, "embed_missing", n) PROVE FALSE
    BY <1>1, <1>2, <1>3, <2>1, <2>2, SpawnEffect
  <2>3. ~WorkStatement(j)
    BY <1>3 DEF WorkStatement
  <2>4. QED
    BY <1>6, <2>2, <2>3 DEF FetchSpawn
<1>7. ASSUME NEW j \in JobIds,
             \/ FetchRead(j) \/ ClusterWrite(j) \/ \E c \in Chunks : Embed(j, c)
      PROVE  FALSE
  BY <1>3, <1>7 DEF FetchRead, ClusterWrite, Embed, WorkStatement, vars
<1>8. ASSUME NEW j \in JobIds,
             \/ SynthesisReturn(j) \/ ChainLost(j) \/ Reports(j) \/ Timeout(j) \/ Crash(j)
             \/ Rescue(j) \/ \E n \in JobIds : ChainInsert(j, n)
      PROVE  FALSE
  <2>1. CASE \E n \in JobIds : ChainInsert(j, n)
    BY <1>1, <1>2, <1>3, <2>1, ChainInsertEffect
  <2>2. CASE SynthesisReturn(j) \/ ChainLost(j) \/ Reports(j)
    BY <1>1, <1>3, <2>2, ReturnEffect, ChainLostEffect, ReportEffect
       DEF SynthesisReturn, Others, ReportPlaces
  <2>3. CASE Timeout(j) \/ Crash(j) \/ Rescue(j)
    BY <1>1, <1>2, <1>3, <2>3, TimeoutEffect, CrashEffect, RescueEffect DEF Others
  <2>4. QED
    BY <1>8, <2>1, <2>2, <2>3
<1>9. PICK j \in JobIds : FetchEnds(j) \/ EmbedEnds(j) \/ ClusterEnds(j) \/ LaterStep(j)
  BY <1>4, <1>5, <1>6, <1>7, <1>8, SynthesisCases
<1>10. PICK q : MarkTask(j, q) /\ (jobs[j].kind = "cluster_themes" /\ local[j].step = "written"
                                       => q = Chains("name_themes"))
  <2>1. CASE FetchEnds(j) \/ EmbedEnds(j) \/ LaterStep(j)
    BY <2>1 DEF FetchEnds, EmbedEnds, LaterStep, Mark, At
  <2>2. CASE ClusterEnds(j)
    BY <2>2 DEF ClusterEnds, Mark, At
  <2>3. QED
    BY <1>9, <2>1, <2>2
<1>11. Others(j) /\ jobs'[j].plan = q
  BY <1>1, <1>10, MarkEffect
<1>12. i = j
  BY <1>3, <1>11 DEF Others
<1>13. p = Chains("name_themes")
  BY <1>2, <1>10, <1>11, <1>12
<1>14. QED
  BY <1>13 DEF Chains

(* With candidates, the chain goes on to its last step.                    *)
LastStep == "update_context"

ChainGoesOn ==
    Calm /\ batches # 0 =>
        \E j \in JobIds : jobs[j].kind \in ChainTasks /\ AtFront(LastStep, jobs[j])

LEMMA ChainGoesOnStep ==
    ASSUME Quietly, DataTypeOK, ClusteredOnce, ChainGoesOn, SynthesisNext, Next
    PROVE  ChainGoesOn'
<1> DEFINE Goal == \E j \in JobIds : jobs'[j].kind \in ChainTasks /\ AtFront(LastStep, jobs'[j])
<1>1. SUFFICES ASSUME Calm', batches' # 0 PROVE Goal
  BY DEF ChainGoesOn
<1>2. /\ TypeOK /\ Consistent /\ ChainInv(ChainTasks) /\ NobodyRetries /\ Unhurt
      /\ ExecutionSound /\ RunCreatedFirst /\ PlansHeld /\ OneAtATime(ChainTasks)
      /\ IsChain(ChainTasks)
  BY SynthesisIsChain DEF Quietly, Consistent, ChainInv
<1>3. /\ Calm /\ ~Fault /\ budget.crashes = 0
      /\ \A j \in JobIds : ~Errs(j) /\ ~Timeout(j) /\ ~Crash(j)
  BY <1>1, <1>2, CalmSteps DEF Calm
<1>4. CASE batches = 0
  <2>1. PICK j \in JobIds : ClusterWrite(j)
    BY <1>1, <1>4, BatchesGrow
  <2>2. jobs' = jobs /\ jobs[j].pc = "body" /\ jobs[j].kind = "cluster_themes"
    BY <2>1 DEF ClusterWrite, WorkStatement, At
  <2>3. jobs[j].state = "running" /\ "cluster_themes" \in ChainTasks
    BY <1>2, <2>2, SynthesisAssumption DEF ExecutionSound, ChainTasks, SynthesisTasks
  <2>4. QED
    BY <2>2, <2>3 DEF AtFront, Exists, Done, Past, ReportPlaces
<1>5. CASE batches # 0
  <2>1. PICK j \in JobIds : jobs[j].kind \in ChainTasks /\ AtFront(LastStep, jobs[j])
    BY <1>3, <1>5 DEF ChainGoesOn
  <2>2. /\ Exists(jobs[j]) /\ Exists(jobs'[j]) /\ jobs'[j].kind = jobs[j].kind
        /\ jobs[j].kind \in Tasks
    BY <1>2, <2>1, KindsKept DEF AtFront, TypeOK, Job
  <2>3. ASSUME ~Done(jobs'[j]) \/ jobs'[j].kind = LastStep PROVE Goal
    BY <2>1, <2>2, <2>3 DEF AtFront
  <2>4. ASSUME NEW n \in JobIds, ChainInsert(j, n) PROVE Goal
    <3>1. Inserted(jobs'[n], Head(jobs[j].plan.chain)) /\ jobs[j].pc = "chain"
      BY <1>2, <2>4, ChainInsertEffect
    <3>2. Head(jobs[j].plan.chain) \in ChainTasks
      BY <1>2, <3>1, NextOfChain DEF Links
    <3>3. QED
      BY <3>1, <3>2 DEF AtFront, Inserted, Exists, Done, Past, ReportPlaces
  <2> HIDE DEF Goal
  <2>5. CASE jobs[j].kind = LastStep
    BY <2>2, <2>3, <2>5
  <2>6. CASE ~Done(jobs[j]) /\ jobs[j].kind # LastStep
    <3>1. CASE jobs'[j] = jobs[j]
      BY <2>3, <2>6, <3>1
    <3>2. ~JobInserted(j)
      BY <1>2, <2>2, EnqueueEffect, ChainInsertEffect, SpawnEffect DEF JobInserted, Exists
    <3>3. ~ChainLost(j) /\ ~Timeout(j) /\ ~Crash(j) /\ ~Rescue(j)
      BY <1>2, <1>3, RescueEffect DEF ChainLost, OneAtATime
    <3>4. ASSUME NEW p \in Plans[jobs[j].kind], MarkTask(j, p) PROVE Goal
      <4>1. /\ jobs[j].pc = "body" /\ jobs'[j].pc = AfterMark(p) /\ jobs'[j].plan = p
            /\ jobs[j].state = "running" /\ jobs'[j].state = "running"
        BY <1>2, <3>4, MarkEffect DEF Stays
      <4>2. CASE p.chain # <<>>
        <5>1. jobs'[j].pc = "chain"
          BY <4>1, <4>2 DEF AfterMark
        <5>2. QED
          BY <2>3, <4>1, <5>1 DEF Done, Past, ReportPlaces
      <4>3. CASE p.chain = <<>>
        <5>1. p.mark = "failed" \/ jobs[j].kind = "cluster_themes"
          BY <2>1, <2>2, <2>6, <4>3, SynthesisEnds DEF ChainTasks, LastStep
        <5>2. ASSUME jobs[j].kind = "cluster_themes" PROVE FALSE
          <6>1. PICK k \in JobIds : HasClustered(jobs[k], local[k])
            BY <1>3, <1>5 DEF ClusteredOnce
          <6>2. k = j
            BY <1>2, <1>3, <2>1, <2>2, <5>2, <6>1 DEF HasClustered, OneAtATime
          <6>3. local[j].step = "written"
            BY <4>1, <6>1, <6>2 DEF HasClustered, Done, Past, ReportPlaces
          <6>4. QED
            BY <1>2, <3>4, <4>1, <4>3, <5>2, <6>3, WrittenChains
        <5>3. p.mark = "failed"
          BY <5>1, <5>2
        <5>4. QED
          BY <2>3, <4>1, <5>3 DEF Done
      <4>4. QED
        BY <4>2, <4>3
    <3>5. CASE Reports(j)
      <4>1. /\ jobs[j].pc \in Past /\ jobs'[j].plan = jobs[j].plan
            /\ jobs'[j].state = "running"
        BY <1>2, <3>5, ReportEffect DEF Past, Stays
      <4>2. QED
        BY <2>3, <2>6, <4>1 DEF Done
    <3>6. CASE Return(j)
      <4>1. /\ jobs[j].pc = "return" /\ jobs'[j].pc = "idle"
            /\ jobs'[j].state = "completed" => jobs[j].plan.mark # "failed"
        BY <1>2, <3>6, ReturnEffect
      <4>2. jobs[j].plan.mark \in {"completed", "failed"}
        BY <1>2 DEF TypeOK, Job, Plan
      <4>3. jobs[j].plan.mark = "failed"
        BY <2>6, <4>1, <4>2 DEF Done, Past
      <4>4. QED
        BY <2>3, <4>1, <4>3 DEF Done, Past, ReportPlaces
    <3>7. CASE StartTask(j) \/ \E t \in Spawns[jobs[j].kind], n \in JobIds : Spawn(j, t, n)
      <4>1. jobs'[j].pc = "body" /\ jobs'[j].state = "running"
        BY <1>2, <3>7, StartEffect, SpawnEffect DEF Stays
      <4>2. QED
        BY <2>3, <4>1 DEF Done, Past, ReportPlaces
    <3>8. QED
      BY <1>2, <2>4, <3>1, <3>2, <3>3, <3>4, <3>5, <3>6, <3>7, JobCases DEF JobMoves
  <2>7. QED
    BY <2>1, <2>5, <2>6 DEF AtFront
<1>6. QED
  BY <1>4, <1>5

(* When all tasks stand completed the run has been told, or a check is     *)
(* still to see them.                                                      *)
AllCompleted(rows) == \A t \in Tasks : rows[t] = "completed"
Ending == {"completed", "failed"}

EndReported ==
    Calm /\ AllCompleted(taskStatus)
        => runStatus \in Ending \/ \E j \in JobIds : jobs[j].pc \in {"check", "status"}

(* The task that completes them all is the last of the chain or that of    *)
(* the embed jobs, and its worker checks.                                  *)
LEMMA LastCompletion ==
    ASSUME Quietly, Next, Calm', AllCompleted(taskStatus'), ~AllCompleted(taskStatus)
    PROVE  \E j \in JobIds : jobs'[j].pc = "check"
<1>1. /\ TypeOK /\ Consistent /\ ChainInv(ChainTasks) /\ NobodyRetries /\ Unhurt
      /\ ExecutionSound /\ RunCreatedFirst /\ HistoryKept /\ PlansHeld
      /\ IsChain(ChainTasks) /\ CompletedByJobs /\ OneAtATime(ChainTasks)
  BY SynthesisIsChain DEF Quietly, Consistent, ChainInv
<1>2. Calm /\ api.pc = "idle" /\ budget.crashes = 0
  BY <1>1, CalmSteps DEF Calm
<1>3. PICK t \in Tasks : taskStatus[t] # "completed" /\ taskStatus'[t] = "completed"
  BY DEF AllCompleted
<1>4. ASSUME creator = "tasks" PROVE FALSE
  <2>1. t \in everCompleted'
    BY <1>1, <1>3, HistoryStep DEF HistoryKept
  <2>2. \A j \in JobIds : jobs[j].state = "none" /\ jobs[j].pc = "idle"
    BY <1>1, <1>4 DEF RunCreatedFirst, ExecutionSound
  <2>3. t \notin everCompleted
    BY <1>1, <2>2 DEF CompletedByJobs, Exists
  <2>4. \A j \in JobIds, p \in Plan : ~MarkTask(j, p)
    BY <2>2 DEF MarkTask
  <2>5. QED
    BY <1>1, <2>1, <2>3, <2>4, RecordStep
<1>5. ASSUME NEW j \in JobIds, StartTask(j), jobs[j].kind = t PROVE FALSE
  <2>1. taskStatus' = [taskStatus EXCEPT ![t] = "running"]
    BY <1>1, <1>5, StartEffect, CalmStatements DEF Calm
  <2>2. QED
    BY <1>1, <1>3, <2>1 DEF TypeOK
<1>6. PICK j \in JobIds : \E p \in Plans[jobs[j].kind] : jobs[j].kind = t /\ MarkTask(j, p)
  BY <1>1, <1>2, <1>3, <1>4, <1>5, RowFrame
<1>7. PICK p \in Plans[jobs[j].kind] : jobs[j].kind = t /\ MarkTask(j, p)
  BY <1>6
<1>8. /\ jobs[j].pc = "body" /\ jobs[j].state = "running" /\ jobs'[j].pc = AfterMark(p)
      /\ p \in Plan /\ SetTask(j, p.mark)
  BY <1>1, <1>7, MarkEffect
<1>9. taskStatus' = [taskStatus EXCEPT ![t] = p.mark]
  BY <1>1, <1>7, <1>8, CalmStatements DEF Calm
<1>10. p.mark = "completed"
  BY <1>1, <1>3, <1>9 DEF TypeOK
<1>11. ASSUME p.chain # <<>> PROVE FALSE
  <2>1. Links(ChainTasks, t, p)
    BY <1>1, <1>7, <1>8, <1>11 DEF IsChain
  <2>2. PICK next \in ChainTasks : SortOrder[t] < SortOrder[next] /\ t \in ChainTasks
    BY <2>1 DEF Links
  <2>3. next # t /\ next \in Tasks
    BY <1>1, <2>2, EngineAssumption DEF IsChain
  <2>4. taskStatus[next] = "completed"
    BY <1>1, <1>9, <2>3 DEF AllCompleted, TypeOK
  <2>5. PICK k \in JobIds : Exists(jobs[k]) /\ jobs[k].kind = next
    BY <1>1, <2>3, <2>4 DEF HistoryKept, CompletedByJobs
  <2>6. Done(jobs[j])
    BY <1>1, <1>2, <1>7, <1>8, <2>2, <2>5 DEF OneAtATime, Exists
  <2>7. QED
    BY <1>8, <2>6 DEF Done, Past, ReportPlaces
<1>12. AfterMark(p) = "check"
  BY <1>7, <1>10, <1>11, SynthesisEnds
<1>13. QED
  BY <1>8, <1>12

LEMMA EndReportedStep ==
    ASSUME Quietly, EndReported, Next
    PROVE  EndReported'
<1> DEFINE Goal == \/ runStatus' \in Ending
                   \/ \E j \in JobIds : jobs'[j].pc \in {"check", "status"}
<1>1. SUFFICES ASSUME Calm', AllCompleted(taskStatus') PROVE Goal
  BY DEF EndReported
<1>2. /\ TypeOK /\ Consistent /\ ChainInv(ChainTasks) /\ NobodyRetries /\ Unhurt
      /\ ExecutionSound /\ RunCreatedFirst /\ VerdictGiven
  BY DEF Quietly, Consistent, ChainInv
<1>3. /\ Calm /\ api.pc = "idle" /\ ~Fault
      /\ \A j \in JobIds : ~Errs(j) /\ ~Timeout(j) /\ ~Crash(j)
  BY <1>1, <1>2, CalmSteps
<1>4. ASSUME NEW j \in JobIds, jobs[j].pc = "status" PROVE jobs[j].verdict \in Ending
  BY <1>2, <1>4 DEF VerdictGiven, Reporting, TypeOK, Job, Ending
<1>5. ASSUME runStatus \in Ending PROVE runStatus' \in Ending
  <2>1. runStatus # "none"
    BY <1>5 DEF Ending
  <2>2. ASSUME NEW j \in JobIds, CheckWriteStatus(j) PROVE jobs[j].verdict \in Ending
    BY <1>4, <2>2 DEF CheckWriteStatus
  <2>3. QED
    BY <1>2, <1>3, <1>5, <2>1, <2>2, StatusFrame
<1>6. CASE ~AllCompleted(taskStatus)
  BY <1>1, <1>6, LastCompletion
<1>7. ASSUME AllCompleted(taskStatus), NEW j \in JobIds, jobs[j].pc \in {"check", "status"}
      PROVE  Goal
  <2>1. jobs[j].state = "running"
    BY <1>2, <1>7 DEF ExecutionSound
  <2>2. ASSUME jobs'[j].pc \in {"check", "status"} PROVE Goal
    BY <2>2
  <2>3. ASSUME runStatus' \in Ending PROVE Goal
    BY <2>3
  <2> HIDE DEF Goal
  <2>4. CASE jobs'[j] = jobs[j]
    BY <1>7, <2>2, <2>4
  <2>5. ~JobInserted(j)
    BY <1>2, <2>1, EnqueueEffect, ChainInsertEffect, SpawnEffect DEF JobInserted
  <2>6. CASE CheckRead(j)
    <3>1. Verdict = "completed"
      BY <1>7 DEF Verdict, AllCompleted, Rows
    <3>2. jobs'[j].pc = "status"
      BY <1>2, <1>3, <2>6, <3>1, CheckReadEffect
    <3>3. QED
      BY <2>2, <3>2
  <2>7. CASE CheckWriteStatus(j)
    <3>1. runStatus' = jobs[j].verdict /\ jobs[j].pc = "status"
      BY <1>2, <1>3, <2>7, StatusEffect
    <3>2. QED
      BY <1>4, <2>3, <3>1
  <2>8. /\ ~CheckWriteError(j) /\ ~CheckNotify(j) /\ ~AskReview(j) /\ ~StartTask(j)
        /\ ~ChainLost(j) /\ ~Return(j) /\ ~Rescue(j)
        /\ \A n \in JobIds : ~ChainInsert(j, n)
        /\ \A t, n \in JobIds : ~Spawn(j, t, n)
        /\ \A p : ~MarkTask(j, p)
    BY <1>7, <2>1 DEF CheckWriteError, CheckNotify, AskReview, StartTask, ChainLost, Return,
       Rescue, ChainInsert, MarkTask, Spawn
  <2>9. ASSUME NEW t, NEW n \in JobIds, Spawn(j, t, n) PROVE FALSE
    BY <1>7, <2>9 DEF Spawn
  <2>10. QED
    BY <1>2, <1>3, <2>4, <2>5, <2>6, <2>7, <2>8, <2>9, JobCases DEF JobMoves, Reports
<1>8. QED
  BY <1>3, <1>5, <1>6, <1>7 DEF EndReported

(* When a clustered synthesis comes to rest, all its tasks are completed.  *)
LEMMA RestsCompleted ==
    ASSUME Quietly, ChainTold, EmbedTold, ChainGoesOn, Calm, Quiescent, Discarded = {},
           batches # 0, NEW e \in JobIds, jobs[e].kind = "embed_missing", Exists(jobs[e])
    PROVE  AllCompleted(taskStatus)
<1>1. /\ TypeOK /\ ExecutionSound /\ ChainInv(ChainTasks) /\ IsChain(ChainTasks)
  BY SynthesisIsChain DEF Quietly, Consistent
<1>2. \A j \in JobIds : jobs[j].state \in {"none", "completed"} /\ jobs[j].pc = "idle"
  BY <1>1 DEF Quiescent, Discarded, TypeOK, Job, JobState, ExecutionSound
<1>3. taskStatus["embed_missing"] = "completed"
  BY <1>2 DEF EmbedTold, ToEmbed
<1>4. PICK j \in JobIds : jobs[j].kind \in ChainTasks /\ AtFront(LastStep, jobs[j])
  BY DEF ChainGoesOn
<1>5. jobs[j].kind = LastStep /\ Exists(jobs[j])
  BY <1>2, <1>4 DEF AtFront, Done, Exists
<1>6. ASSUME NEW t \in ChainTasks PROVE taskStatus[t] = "completed"
  <2>1. PICK k \in JobIds : jobs[k].kind = t /\ Exists(jobs[k])
    <3>1. CASE t = LastStep
      BY <1>5, <3>1
    <3>2. CASE t # LastStep
      <4>1. SortOrder[t] < SortOrder[LastStep]
        BY <3>2, SynthesisOrderValues, SynthesisAssumption
           DEF ChainTasks, SynthesisTasks, LastStep
      <4>2. t \in everCompleted
        BY <1>1, <1>4, <1>5, <4>1 DEF ChainInv, EarlierCompleted, Calm
      <4>3. QED
        BY <1>1, <4>2 DEF ChainInv, CompletedByJobs
    <3>3. QED
      BY <3>1, <3>2
  <2>2. jobs[k].state = "completed" /\ RowTold(jobs[k], taskStatus)
    BY <1>2, <2>1 DEF Exists, ChainTold
  <2>3. QED
    BY <2>1, <2>2 DEF RowTold
<1>7. QED
  BY <1>3, <1>6 DEF AllCompleted, ChainTasks

(* A clustered synthesis with an embed job, in which nothing fails, crashes*)
(* or is retried, is told: the embed jobs and the end of the chain finish  *)
(* in any order, and whichever is last sees all tasks done                 *)
(* (CheckPipelineCompletion, called by the embed worker and by the last    *)
(* one of the chain).                                                      *)
THEOREM SynthesisIsReported == SynthesisSpec => []EndedRunIsReported
<1> DEFINE EndTold == /\ ChainTold /\ EmbedTold /\ ChainGoesOn /\ EndReported
                      /\ NobodyRetries /\ Blank /\ DataTypeOK /\ ClusteredOnce
           Known == TypeOK /\ Consistent /\ ChainInv(ChainTasks)
<1>1. SynthesisInit => EndTold
  <2> SUFFICES ASSUME SynthesisInit PROVE EndTold
    OBVIOUS
  <2>1. /\ \A j \in JobIds : jobs[j] = NoJob
        /\ \A t \in Tasks : taskStatus[t] = "absent"
        /\ batches = 0 /\ api.pc = "idle"
    BY DEF SynthesisInit, Init
  <2>2. ChainTold /\ EmbedTold
    BY <2>1 DEF ChainTold, EmbedTold, RowTold, NoJob, Past, ReportPlaces, Exists
  <2>3. EndReported
    BY <2>1, EmbedNeverFails DEF EndReported, AllCompleted
  <2>4. ChainGoesOn /\ NobodyRetries /\ Blank /\ ClusteredOnce
    BY <2>1 DEF ChainGoesOn, NobodyRetries, Blank, NoJob, ClusteredOnce
  <2>5. DataTypeOK
    BY DEF SynthesisInit, DataTypeOK, Local, Fresh
  <2>6. QED
    BY <2>2, <2>3, <2>4, <2>5
<1>2. Known /\ EndTold /\ [SynthesisNext]_synthesisVars => EndTold'
  <2> SUFFICES ASSUME Known, EndTold, [SynthesisNext]_synthesisVars PROVE EndTold'
    OBVIOUS
  <2>1. CASE UNCHANGED synthesisVars
    BY <2>1 DEF synthesisVars, vars, dataVars, ChainTold, EmbedTold, ChainGoesOn, EndReported,
       NobodyRetries, Blank, DataTypeOK, ClusteredOnce, Calm
  <2>2. ASSUME SynthesisNext PROVE (DataTypeOK /\ ClusteredOnce)'
    BY <2>2, DataStep, ClusteredOnceStep DEF ChainInv
  <2>3. CASE SynthesisNext /\ Next
    <3>1. Quietly
      BY DEF Quietly
    <3>2. (ChainTold /\ EmbedTold /\ EndReported)'
      BY <2>3, <3>1, ChainToldStep, EmbedToldStep, EndReportedStep
    <3>3. ChainGoesOn'
      BY <2>3, <3>1, ChainGoesOnStep
    <3>4. (NobodyRetries /\ Blank)'
      BY <2>3, NobodyRetriesStep, BlankStep
    <3>5. QED
      BY <2>2, <2>3, <3>2, <3>3, <3>4
  <2>4. CASE SynthesisNext /\ UNCHANGED vars
    <3>1. (ChainTold /\ EmbedTold /\ EndReported /\ NobodyRetries /\ Blank)'
      BY <2>4 DEF vars, ChainTold, EmbedTold, EndReported, NobodyRetries, Blank, Calm
    <3>2. ChainGoesOn'
      <4>1. batches' = batches \/ \E j \in JobIds : ClusterWrite(j)
        BY <2>4, BatchesGrow
      <4>2. CASE batches' = batches
        BY <2>4, <4>2 DEF vars, ChainGoesOn, Calm
      <4>3. ASSUME NEW j \in JobIds, ClusterWrite(j) PROVE Next
        BY <4>3 DEF ClusterWrite, Next, Work
      <4>4. QED
        BY <2>3, <4>1, <4>2, <4>3, <2>4
    <3>3. QED
      BY <2>2, <2>4, <3>1, <3>2
  <2>5. QED
    BY <2>1, <2>3, <2>4, SynthesisStep
<1>3. Known /\ EndTold => EndedRunIsReported
  <2> SUFFICES ASSUME Known, EndTold, Quiescent, Discarded = {}, batches > 0,
                      budget = [crashes |-> 0, faults |-> 0, retries |-> 0],
                      NEW e \in JobIds, jobs[e].kind = "embed_missing"
               PROVE  runStatus \in {"completed", "failed"}
    BY DEF EndedRunIsReported
  <2>1. Calm /\ batches # 0 /\ Quietly
    BY DEF Calm, Quietly, DataTypeOK
  <2>2. Exists(jobs[e])
    BY SynthesisAssumption DEF Blank
  <2>3. AllCompleted(taskStatus)
    BY <2>1, <2>2, RestsCompleted
  <2>4. \A j \in JobIds : jobs[j].pc = "idle"
    BY DEF Quiescent, Consistent, ExecutionSound
  <2>5. QED
    BY <2>1, <2>3, <2>4 DEF EndReported, Ending
<1>4. QED
  BY <1>1, <1>2, <1>3, SynthesisChainKept, PTL DEF SynthesisSpec
=============================================================================
