------------------------- MODULE SynthesisPipeline -------------------------
(***************************************************************************)
(* The synthesis pipeline: fetch_signals, embed_missing, cluster_themes,   *)
(* name_themes, score_candidates, write_candidates, update_context         *)
(* (internal/jobs/synthesis.go, ingest.go, context.go).  It is the engine  *)
(* with the plans of these seven workers and with the data their order is  *)
(* about: which signals are embedded and how often they were clustered.    *)
(***************************************************************************)
EXTENDS PipelineEngine, FiniteSets

CONSTANT Chunks   \* the project's signals, by hundreds as embed jobs get them;
                  \* each has the three signals that a clustering needs

SynthesisTasks == {"fetch_signals", "embed_missing", "cluster_themes", "name_themes",
                   "score_candidates", "write_candidates", "update_context"}

SynthesisOrder == [t \in SynthesisTasks |->
    CASE t = "fetch_signals" -> 0    [] t = "embed_missing" -> 1
      [] t = "cluster_themes" -> 2   [] t = "name_themes" -> 3
      [] t = "score_candidates" -> 4 [] t = "write_candidates" -> 5
      [] t = "update_context" -> 6]

-----------------------------------------------------------------------------
(* The plans.  The embed jobs report for themselves, beside the chain; the *)
(* steps of the chain that fail mark their task and leave it at that; with *)
(* too few signals cluster_themes ends the run's work.                     *)

(* Mutants: an embed job that does not check; a `return err' missing after *)
(* FailTask.                                                               *)
EmbedTellsNobody == {[Finishes EXCEPT !.check = FALSE]}
ScoreCandidatesFallsThrough ==
    {Chains("write_candidates"), [Fails EXCEPT !.chain = <<"write_candidates">>]}

FetchSignalsPlans    == {Chains("cluster_themes"), Fails}
EmbedPlans           == {Finishes}
ClusterThemesPlans   == {Chains("name_themes"), Finishes, Fails}
NameThemesPlans      == {Chains("score_candidates")}
ScoreCandidatesPlans == {Chains("write_candidates"), Fails}
WriteCandidatesPlans == {Chains("update_context")}
UpdateContextPlans   == {FinishesAndAsks, Fails}

SynthesisPlans == [t \in SynthesisTasks |->
    CASE t = "fetch_signals"    -> FetchSignalsPlans
      [] t = "embed_missing"    -> EmbedPlans
      [] t = "cluster_themes"   -> ClusterThemesPlans
      [] t = "name_themes"      -> NameThemesPlans
      [] t = "score_candidates" -> ScoreCandidatesPlans
      [] t = "write_candidates" -> WriteCandidatesPlans
      [] t = "update_context"   -> UpdateContextPlans]

SynthesisSpawns == [t \in SynthesisTasks |->
    IF t = "fetch_signals" THEN {"embed_missing"} ELSE {}]

ASSUME SynthesisAssumption ==
    /\ Tasks = SynthesisTasks
    /\ SortOrder = SynthesisOrder
    /\ Plans = SynthesisPlans
    /\ Spawns = SynthesisSpawns
    /\ Entry = "fetch_signals"
    /\ IsFiniteSet(Chunks) /\ MaxSpawns = Cardinality(Chunks)

VARIABLES
    embedded,   \* the chunks whose signals have an embedding
    batches,    \* the sets of candidates this run has written
    local       \* per job: the chunks it still has to do, its step

dataVars == <<embedded, batches, local>>
synthesisVars == <<vars, dataVars>>

SynthesisTypeOK ==
    /\ TypeOK
    /\ embedded \in SUBSET Chunks
    /\ batches \in Nat
    /\ local \in [JobIds -> [todo : SUBSET Chunks, step : {"start", "read", "written"}]]

Fresh == [todo |-> {}, step |-> "start"]

SynthesisInit ==
    /\ Init
    /\ embedded \in SUBSET Chunks
    /\ batches = 0
    /\ local = [j \in JobIds |-> Fresh]

-----------------------------------------------------------------------------
At(j, worker, step) ==
    jobs[j].pc = "body" /\ jobs[j].kind = worker /\ local[j].step = step

Mark(j, p) == MarkTask(j, p) /\ UNCHANGED dataVars

(* fetch_signals: one read finds the signals without embedding, then one   *)
(* embed job is inserted per chunk of them; a failed insertion is logged.  *)
FetchRead(j) ==
    /\ At(j, "fetch_signals", "start")
    /\ jobs[j].ctx = "live"
    /\ local' = [local EXCEPT ![j] = [todo |-> Chunks \ embedded, step |-> "read"]]
    /\ UNCHANGED <<vars, embedded, batches>>

FetchSpawn(j, c) ==
    /\ At(j, "fetch_signals", "read")
    /\ c \in local[j].todo
    /\ \/ \E n \in JobIds :
             /\ Spawn(j, "embed_missing", n)
             /\ local' = [local EXCEPT ![j].todo = @ \ {c},
                                       ![n] = [todo |-> {c}, step |-> "start"]]
       \/ /\ WorkStatement(j) /\ Errs(j)
          /\ local' = [local EXCEPT ![j].todo = @ \ {c}]
    /\ UNCHANGED <<embedded, batches>>

FetchEnds(j) ==
    \/ At(j, "fetch_signals", "start") /\ Mark(j, Fails)
    \/ /\ At(j, "fetch_signals", "read")
       /\ local[j].todo = {}
       /\ Mark(j, Chains("cluster_themes"))

(* embed_missing: what cannot be embedded or stored is skipped.            *)
Embed(j, c) ==
    /\ At(j, "embed_missing", "start")
    /\ c \in local[j].todo \ embedded
    /\ jobs[j].ctx = "live"
    /\ embedded' = embedded \cup {c}
    /\ UNCHANGED <<vars, batches, local>>

EmbedEnds(j) ==
    /\ At(j, "embed_missing", "start")
    /\ \E p \in Plans["embed_missing"] : Mark(j, p)

(* cluster_themes: whatever has an embedding by now, of any run, is        *)
(* clustered, and every cluster becomes a new candidate.                   *)
ClusterWrite(j) ==
    /\ At(j, "cluster_themes", "start")
    /\ embedded # {}
    /\ WorkStatement(j)
    /\ \/ Succeeds(j) /\ batches' = batches + 1
       \/ Errs(j) /\ UNCHANGED batches
    /\ local' = [local EXCEPT ![j].step = "written"]
    /\ UNCHANGED embedded

(* A mutant: an error while the candidates are written fails the task.     *)
ClusterEndsLate(j) ==
    \/ jobs[j].pc = "body" /\ jobs[j].kind = "cluster_themes" /\ Mark(j, Fails)
    \/ At(j, "cluster_themes", "written") /\ Mark(j, Chains("name_themes"))

(* A mutant: too few signals are no reason to stop.                        *)
ClusterEndsAnyway(j) ==
    \/ At(j, "cluster_themes", "start") /\ Mark(j, Fails)
    \/ At(j, "cluster_themes", "start") /\ embedded = {} /\ Mark(j, Chains("name_themes"))
    \/ At(j, "cluster_themes", "written") /\ Mark(j, Chains("name_themes"))

ClusterEnds(j) ==
    \/ At(j, "cluster_themes", "start") /\ Mark(j, Fails)
    \/ At(j, "cluster_themes", "start") /\ embedded = {} /\ Mark(j, Finishes)
    \/ At(j, "cluster_themes", "written") /\ Mark(j, Chains("name_themes"))

(* The later steps rename, score and remember candidates in place: doing   *)
(* so again changes nothing the order is about.                            *)
LaterStep(j) ==
    /\ \E worker \in {"name_themes", "score_candidates", "write_candidates",
                      "update_context"} : At(j, worker, "start")
    /\ \E p \in Plans[jobs[j].kind] : Mark(j, p)

SynthesisStart(j) ==
    /\ StartTask(j)
    /\ local' = [local EXCEPT ![j].step = "start"]
    /\ UNCHANGED <<embedded, batches>>

SynthesisReturn(j) ==
    /\ Return(j)
    /\ local' = [local EXCEPT ![j] = IF @.step = "read" THEN Fresh ELSE [@ EXCEPT !.step = "start"]]
    /\ UNCHANGED <<embedded, batches>>

SynthesisWork(j) ==
    \/ SynthesisStart(j)
    \/ FetchRead(j)
    \/ \E c \in Chunks : FetchSpawn(j, c) \/ Embed(j, c)
    \/ FetchEnds(j)
    \/ EmbedEnds(j)
    \/ ClusterWrite(j)
    \/ ClusterEnds(j)
    \/ LaterStep(j)
    \/ (\E n \in JobIds : ChainInsert(j, n)) /\ UNCHANGED dataVars
    \/ ChainLost(j) /\ UNCHANGED dataVars
    \/ CheckRead(j) /\ UNCHANGED dataVars
    \/ CheckWriteStatus(j) /\ UNCHANGED dataVars
    \/ CheckWriteError(j) /\ UNCHANGED dataVars
    \/ CheckNotify(j) /\ UNCHANGED dataVars
    \/ AskReview(j) /\ UNCHANGED dataVars
    \/ SynthesisReturn(j)

SynthesisNext ==
    \/ Create /\ UNCHANGED dataVars
    \/ CreateAborts /\ UNCHANGED dataVars
    \/ \E j \in JobIds :
          \/ SynthesisWork(j)
          \/ Timeout(j) /\ UNCHANGED dataVars
          \/ Crash(j) /\ UNCHANGED dataVars
          \/ Rescue(j) /\ UNCHANGED dataVars
    \/ Retry /\ UNCHANGED dataVars
    \/ Rest /\ UNCHANGED dataVars

SynthesisSpec == SynthesisInit /\ [][SynthesisNext]_synthesisVars

-----------------------------------------------------------------------------
(* Properties. *)

(* The chain of a synthesis is in order, whatever the embed jobs beside it *)
(* do: a step's job exists only when every task of the chain before it has *)
(* been completed.                                                         *)
ChainTasks == Tasks \ {"embed_missing"}
ChainInOrder ==
    budget.faults = 0 =>
        \A j \in JobIds, t \in ChainTasks :
            /\ jobs[j].state # "none" /\ jobs[j].kind \in ChainTasks
            /\ SortOrder[t] < SortOrder[jobs[j].kind]
            => t \in everCompleted

(* Candidates are not written twice: without a crash the run clusters once,*)
(* however often its steps fail, time out or are retried.                  *)
CandidatesWrittenOnce == budget.crashes = 0 => batches <= 1

(* A run is reported completed only if candidates came of it: too few      *)
(* signals end the work, but not as a success.                             *)
CompletedRunClustered ==
    runStatus = "completed" /\ budget.faults = 0 => batches > 0

(* The embed jobs and the end of the chain finish in any order, and none   *)
(* waits for the other: whichever is last sees all tasks done and tells.   *)
EndedRunIsReported ==
    Quiescent /\ creator = "finished" /\ Discarded = {} /\ batches > 0
        /\ budget = [crashes |-> 0, faults |-> 0, retries |-> 0]
        /\ (\E j \in JobIds : jobs[j].kind = "embed_missing")
        => runStatus \in {"completed", "failed"}

(* "each step is a discrete, idempotent unit of work": running one again   *)
(* adds no candidates.                                                     *)
StepsAreIdempotent == batches <= 1

(* "no pipeline is silently lost": at rest, with every job done, the run   *)
(* has an outcome.                                                         *)
RunEnds ==
    Quiescent /\ creator = "finished" => runStatus \in {"completed", "failed"}

(* "keep task/run state synchronized": at rest a failed run has a failed   *)
(* task.                                                                   *)
FailureIsReal ==
    Quiescent /\ runStatus = "failed" => \E t \in Tasks : taskStatus[t] = "failed"
=============================================================================
