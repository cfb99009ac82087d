-------------------------- MODULE PipelineContract --------------------------
(***************************************************************************)
(* What the status of a pipeline run promises to whoever reads it (the     *)
(* pipeline pages, the progress streams, the statistics of the dashboard), *)
(* without workers, queue or check: a run is reported completed only when  *)
(* every task has been completed, failed only when some task has failed,   *)
(* and nothing but a user's retry makes it running.                        *)
(***************************************************************************)
CONSTANT Tasks

VARIABLES status,     \* the run's status, "none" before it exists
          completed,  \* the tasks that have been completed
          failed      \* whether a task has failed

contractVars == <<status, completed, failed>>

ContractInit == status = "none" /\ completed = {} /\ failed = FALSE

Begin == status = "none" /\ status' = "pending" /\ UNCHANGED <<completed, failed>>

TaskCompletes ==
    /\ status # "none"
    /\ \E t \in Tasks \ completed : completed' = completed \cup {t}
    /\ UNCHANGED <<status, failed>>

TaskFails ==
    /\ status # "none"
    /\ failed' = TRUE
    /\ UNCHANGED <<status, completed>>

ReportCompleted ==
    /\ completed = Tasks
    /\ status # "none"
    /\ status' = "completed"
    /\ UNCHANGED <<completed, failed>>

ReportFailed ==
    /\ failed
    /\ status # "none"
    /\ status' = "failed"
    /\ UNCHANGED <<completed, failed>>

UserRetries ==
    /\ status # "none"
    /\ status' = "running"
    /\ UNCHANGED <<completed, failed>>

ContractNext == \/ Begin \/ TaskCompletes \/ TaskFails
                \/ ReportCompleted \/ ReportFailed \/ UserRetries

ContractSpec == ContractInit /\ [][ContractNext]_contractVars
=============================================================================
