------------------------- MODULE MCCodegenPipeline -------------------------
(* Small instances of CodegenPipeline for TLC: the whole pipeline, and its *)
(* last three steps alone, where a crash costs a second chain of jobs that *)
(* runs beside the first (the three steps before them write nothing but    *)
(* their tasks).                                                           *)
EXTENDS CodegenPipeline

LastTasks == {"generate_code", "create_pr", "notify"}
LastOrder == [t \in LastTasks |-> CodegenOrder[t]]
LastPlans == [t \in LastTasks |-> CodegenPlans[t]]
=============================================================================
