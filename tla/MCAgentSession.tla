-------------------------- MODULE MCAgentSession ---------------------------
(* One pipeline; the column admits what migration 000017 says, with or     *)
(* without the status the worker writes.                                   *)
EXTENDS AgentSession

Migration000017 == {"pending", "provisioning", "running", "validating", "completed",
                    "failed", "cancelled", "timed_out"}
Extended == Migration000017 \cup {"provisioned"}

(* Bound: StopSandboxSession is explored without troubles (it touches only *)
(* the status of a session, which no job reads).                           *)
StopApart == stopper # "idle" => troubles = 0

(* Bound: once a job was executed anew, the second execution of the agent  *)
(* ends what is explored (with MaxRetries = 1 RetriesExact holds for good  *)
(* from there, and the other properties say nothing about the loop).       *)
LoopsApart == repeats > 0 => agentRuns <= 1
=============================================================================
