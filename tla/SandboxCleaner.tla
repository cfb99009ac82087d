--------------------------- MODULE SandboxCleaner ---------------------------
(***************************************************************************)
(* SandboxCleaner: owners track a sandbox with the time it expires, renew  *)
(* or untrack it; the loop of Start takes a snapshot of the expired ones   *)
(* under the lock and destroys them one by one without it.                 *)
(***************************************************************************)
EXTENDS SandboxManagers

CONSTANT MaxCleanerFaults  \* bound: failures of Destroy

ASSUME CleanerAssumption == MaxCleanerFaults \in Nat

VARIABLES
    tracked,      \* "no", "later" or "past": the entry, and whether its time has come
    sweep,        \* the snapshot: sandboxes cleanupExpired has still to visit
    untracking,   \* the one it has destroyed and not yet untracked, or None
    loop,         \* "running", "cancelled" (its context), "stopping" (stopCh) or "stopped"
    failures      \* failures of Destroy so far

cleanerVars == <<tracked, sweep, untracking, loop, failures>>
allCleanerVars == <<managerVars, cleanerVars>>

CleanerInit ==
    /\ ManagersInit
    /\ tracked = [b \in Boxes |-> "no"]
    /\ sweep = {} /\ untracking = None /\ loop = "running" /\ failures = 0

Fails(fault) == IF fault THEN failures < MaxCleanerFaults /\ failures' = failures + 1
                         ELSE UNCHANGED failures

-----------------------------------------------------------------------------
(* External: an owner provisions a sandbox and tracks it.                  *)
OwnerTracks(b) ==
    /\ FreshBox(b)
    /\ boxes' = boxes \cup {b} /\ exists' = exists \cup {b} /\ known' = known \cup {b}
    /\ tracked' = [tracked EXCEPT ![b] = "later"]
    /\ UNCHANGED <<provider, sweep, untracking, loop, failures>>

(* External: it asks for more time (Track again) ...                       *)
OwnerRenews(b) ==
    /\ b \in exists /\ tracked[b] = "past"
    /\ tracked' = [tracked EXCEPT ![b] = "later"]
    /\ UNCHANGED <<managerVars, sweep, untracking, loop, failures>>

(* ... or destroys it and untracks it.                                     *)
OwnerDestroys(b) ==
    /\ b \in exists /\ tracked[b] # "no"
    /\ Destroy(b, TRUE, FALSE)
    /\ UNCHANGED cleanerVars

Untrack(b) == tracked' = [tracked EXCEPT ![b] = "no"]

OwnerUntracks(b) ==
    /\ b \in boxes \ exists /\ tracked[b] # "no"
    /\ Untrack(b)
    /\ UNCHANGED <<managerVars, sweep, untracking, loop, failures>>

TimePasses(b) ==
    /\ tracked[b] = "later"
    /\ tracked' = [tracked EXCEPT ![b] = "past"]
    /\ UNCHANGED <<managerVars, sweep, untracking, loop, failures>>

-----------------------------------------------------------------------------
Expired == {b \in Boxes : tracked[b] = "past"}

Tick ==
    /\ loop # "stopped" /\ sweep = {} /\ untracking = None
    /\ Expired # {}
    /\ sweep' = Expired
    /\ UNCHANGED <<managerVars, tracked, untracking, loop, failures>>

(* The entry goes whether or not Destroy worked.                           *)
CleanupUntracksAnyway(b, fault) ==
    /\ b \in sweep /\ untracking = None
    /\ Destroy(b, loop # "cancelled", fault)
    /\ Fails(fault)
    /\ untracking' = b
    /\ sweep' = sweep \ {b}
    /\ UNCHANGED <<tracked, loop>>

(* A Destroy that reports an error leaves the entry for the next tick.     *)
CleanupVisits(b, fault) ==
    /\ b \in sweep /\ untracking = None
    /\ Destroy(b, loop # "cancelled", fault)
    /\ Fails(fault)
    /\ untracking' = IF DestroyErrs(b, loop # "cancelled", fault) THEN None ELSE b
    /\ sweep' = sweep \ {b}
    /\ UNCHANGED <<tracked, loop>>

CleanupUntracks ==
    /\ untracking # None
    /\ Untrack(untracking)
    /\ untracking' = None
    /\ UNCHANGED <<managerVars, sweep, loop, failures>>

(* Stop, or the end of the context given to Start; the loop sees either    *)
(* between two sweeps, or takes one more tick that was ready as well.      *)
Stop(how) ==
    /\ loop = "running" /\ loop' = how
    /\ UNCHANGED <<managerVars, tracked, sweep, untracking, failures>>

LoopEnds ==
    /\ loop \in {"stopping", "cancelled"} /\ sweep = {} /\ untracking = None
    /\ loop' = "stopped"
    /\ UNCHANGED <<managerVars, tracked, sweep, untracking, failures>>

CleanerNext ==
    \/ \E b \in Boxes :
         \/ OwnerTracks(b) \/ OwnerRenews(b) \/ OwnerDestroys(b) \/ OwnerUntracks(b)
         \/ TimePasses(b)
         \/ \E fault \in BOOLEAN : CleanupVisits(b, fault)
    \/ Tick \/ CleanupUntracks
    \/ \E how \in {"stopping", "cancelled"} : Stop(how)
    \/ LoopEnds

(* The goroutine of Start runs, and the ticker ticks.                      *)
CleanerFairness ==
    /\ WF_allCleanerVars(Tick)
    /\ WF_allCleanerVars(CleanupUntracks)
    /\ \A b \in Boxes :
          WF_allCleanerVars(\E fault \in BOOLEAN : CleanupVisits(b, fault))

-----------------------------------------------------------------------------
(* While the loop runs, a sandbox that has expired is destroyed or its     *)
(* owner has asked for more time: the cleaner does not lose an entry, even *)
(* of a sandbox it failed to destroy.                                      *)
CleanerEndsExpired ==
    \A b \in Boxes :
        b \in exists /\ tracked[b] = "past"
            ~> b \notin exists \/ tracked[b] = "later" \/ loop # "running"
=============================================================================
