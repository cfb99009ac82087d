------------------------- MODULE ParallelSandboxes --------------------------
(***************************************************************************)
(* ParallelSandboxRunner.Run: one goroutine per configuration, at most     *)
(* MaxSandboxes of them past the semaphore, each with a sandbox of its own *)
(* that a deferred Destroy removes.  All share one context, which the      *)
(* timeout of the run (or the caller) cancels.                             *)
(***************************************************************************)
EXTENDS SandboxManagers

CONSTANTS
    Configs,       \* the sandbox configurations given to Run
    MaxSandboxes,  \* ParallelSandboxConfig.MaxSandboxes
    MaxFaults      \* bound: replies lost and removals failed

ASSUME ParallelAssumption ==
    IsFiniteSet(Configs) /\ MaxSandboxes \in Nat \ {0} /\ MaxFaults \in Nat

VARIABLES
    goroutine,  \* of a configuration: "waiting", "provisioning", "cloning", "working",
                \* "destroying", "leaving" or "done"
    box,        \* its sandbox, or None
    results,    \* the failures among the results: <<configuration, outcome>>
    live,       \* the shared context is not yet done
    faults,     \* how many so far
    returned    \* Run has returned

parallelVars == <<goroutine, box, results, live, faults, returned>>
allParallelVars == <<managerVars, parallelVars>>

ParallelInit ==
    /\ ManagersInit
    /\ goroutine = [c \in Configs |-> "waiting"]
    /\ box = [c \in Configs |-> None]
    /\ results = {} /\ live = TRUE /\ faults = 0 /\ returned = FALSE

At(c, from) == ~returned /\ goroutine[c] = from
Moves(c, to) == goroutine' = [goroutine EXCEPT ![c] = to]
Appends(c, outcome) == results' = results \cup {<<c, outcome>>}

(* Only what loses or keeps a sandbox counts: a lost reply, a failed       *)
(* removal.  A clone that fails, or a context that is done, does not.      *)
Faulty(fault) == IF fault THEN faults < MaxFaults /\ faults' = faults + 1 ELSE UNCHANGED faults

-----------------------------------------------------------------------------
(* The slots of the semaphore that are taken.                              *)
Taken == {c \in Configs : goroutine[c] \notin {"waiting", "done"}}
limit == IF Cardinality(Configs) < MaxSandboxes THEN Cardinality(Configs) ELSE MaxSandboxes

AcquireSlot(c) ==
    /\ At(c, "waiting") /\ Cardinality(Taken) < limit
    /\ Moves(c, "provisioning")
    /\ UNCHANGED <<managerVars, box, results, live, faults, returned>>

(* The other branch of the select: no slot, no sandbox and no result.      *)
GiveUpWaiting(c) ==
    /\ At(c, "waiting") /\ ~live
    /\ Moves(c, "done")
    /\ UNCHANGED <<managerVars, box, results, live, faults, returned>>

ProvisionBegins(c, b, fault) ==
    /\ At(c, "provisioning")
    /\ Create(b, fault)
    /\ Faulty(fault)
    /\ IF fault  \* the reply was lost: no one knows the sandbox
       THEN Moves(c, "leaving") /\ Appends(c, "provision failed") /\ UNCHANGED box
       ELSE Moves(c, "cloning") /\ box' = [box EXCEPT ![c] = b] /\ UNCHANGED results
    /\ UNCHANGED <<live, returned>>

ProvisionRefused(c) ==
    /\ At(c, "provisioning")
    /\ Moves(c, "leaving") /\ Appends(c, "provision failed")
    /\ UNCHANGED <<managerVars, box, live, faults, returned>>

ProvisionSucceeds(c) ==
    /\ At(c, "cloning")
    /\ Provisioned(box[c])
    /\ Moves(c, "working")
    /\ UNCHANGED <<box, results, live, faults, returned>>

(* The clone or a directory fails; with a fault so does the removal.       *)
ProvisionFails(c, fault) ==
    /\ At(c, "cloning")
    /\ CleanupOnError(box[c], fault)
    /\ Faulty(fault)
    /\ Moves(c, "leaving") /\ Appends(c, "provision failed")
    /\ UNCHANGED <<box, live, returned>>

(* fn returns an error or not (a result that is no failure is not kept).   *)
FnReturns(c) ==
    /\ At(c, "working")
    /\ Moves(c, "destroying")
    /\ Appends(c, "fn failed") \/ UNCHANGED results
    /\ UNCHANGED <<managerVars, box, live, faults, returned>>

(* The sandbox of a fn that failed is not destroyed.                       *)
DestroyAfterResultOnly(c, fault) ==
    /\ At(c, "destroying")
    /\ IF <<c, "fn failed">> \in results THEN UNCHANGED managerVars ELSE Destroy(box[c], live, fault)
    /\ Faulty(fault)
    /\ Moves(c, "leaving")
    /\ UNCHANGED <<box, results, live, returned>>

(* The deferred calls, last first: Destroy with the shared context, whose  *)
(* error is logged, then the slot.                                         *)
DeferredDestroy(c, fault) ==
    /\ At(c, "destroying")
    /\ Destroy(box[c], live, fault)
    /\ Faulty(fault)
    /\ Moves(c, "leaving")
    /\ UNCHANGED <<box, results, live, returned>>

ReleaseSlot(c) ==
    /\ At(c, "leaving")
    /\ Moves(c, "done")
    /\ UNCHANGED <<managerVars, box, results, live, faults, returned>>

(* The timeout of the run passes, or its caller gives up.                  *)
ContextEnds ==
    /\ ~returned /\ live
    /\ live' = FALSE
    /\ UNCHANGED <<managerVars, goroutine, box, results, faults, returned>>

(* wg.Wait, then the deferred cancel.                                      *)
RunReturns ==
    /\ ~returned /\ \A c \in Configs : goroutine[c] = "done"
    /\ returned' = TRUE
    /\ UNCHANGED <<managerVars, goroutine, box, results, live, faults>>

ParallelNext ==
    \/ \E c \in Configs :
         \/ AcquireSlot(c) \/ GiveUpWaiting(c)
         \/ ProvisionRefused(c) \/ ProvisionSucceeds(c)
         \/ FnReturns(c) \/ ReleaseSlot(c)
         \/ \E fault \in BOOLEAN : ProvisionFails(c, fault) \/ DeferredDestroy(c, fault)
         \/ \E b \in Boxes, fault \in BOOLEAN : ProvisionBegins(c, b, fault)
    \/ ContextEnds
    \/ RunReturns

ParallelSpec == ParallelInit /\ [][ParallelNext]_allParallelVars

-----------------------------------------------------------------------------
(* Every sandbox that exists belongs to a goroutine that holds a slot and  *)
(* still has to destroy it, so there are never more than MaxSandboxes and  *)
(* none is left when Run returns; but for one per lost reply or failed     *)
(* removal, and all those docker or e2b kept when the context was done.    *)
Owned == {box[c] : c \in {d \in Configs : goroutine[d] \in {"cloning", "working", "destroying"}}}
SandboxesAccounted ==
    live \/ provider = "local" => /\ Cardinality(exists \ Owned) <= faults
                                 /\ Cardinality(exists) <= limit + faults
=============================================================================
