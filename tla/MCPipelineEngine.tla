-------------------------- MODULE MCPipelineEngine --------------------------
(***************************************************************************)
(* A small pipeline with every shape a worker of the repository has: an    *)
(* entry that inserts jobs while it works, a side branch that only reports,*)
(* a last step, failures with and without the completion check, an early   *)
(* end.  The names are those of the first steps of a synthesis.            *)
(***************************************************************************)
EXTENDS PipelineEngine

ForkTasks == {"fetch_signals", "embed_missing", "cluster_themes"}

ForkOrder == [t \in ForkTasks |->
    CASE t = "fetch_signals" -> 0 [] t = "embed_missing" -> 1
      [] t = "cluster_themes" -> 2]

ForkPlans == [t \in ForkTasks |->
    CASE t = "fetch_signals"  -> {Chains("cluster_themes"), Fails}
      [] t = "embed_missing"  -> {Finishes}
      [] t = "cluster_themes" -> {FinishesAndAsks, FailsAndTells}]

ForkSpawns == [t \in ForkTasks |->
    IF t = "fetch_signals" THEN {"embed_missing"} ELSE {}]
=============================================================================
