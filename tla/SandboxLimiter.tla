--------------------------- MODULE SandboxLimiter ---------------------------
(***************************************************************************)
(* SandboxLimiter: a counter per organisation under one mutex.  holding is *)
(* not in the code: the sessions whose Acquire succeeded and that have not *)
(* called Release; a session releases once.                                *)
(***************************************************************************)
EXTENDS Naturals, FiniteSets

CONSTANTS
    Orgs,       \* organisations
    Sessions,   \* sandbox sessions
    MaxPerOrg   \* the argument of NewSandboxLimiter

defaultSandboxMaxPerOrg == 5
maxPerOrg == IF MaxPerOrg = 0 THEN defaultSandboxMaxPerOrg ELSE MaxPerOrg

ASSUME LimiterAssumption == MaxPerOrg \in Nat /\ IsFiniteSet(Sessions)

VARIABLES
    active,   \* the map; a missing entry reads as 0
    holding   \* the sessions of an organisation that hold a slot

limiterVars == <<active, holding>>

LimiterTypeOK ==
    /\ active \in [Orgs -> Nat]
    /\ holding \in [Orgs -> SUBSET Sessions]

LimiterInit ==
    /\ active = [o \in Orgs |-> 0]
    /\ holding = [o \in Orgs |-> {}]

Idle(s) == \A o \in Orgs : s \notin holding[o]

Acquire(o, s) ==
    /\ Idle(s)
    /\ active[o] < maxPerOrg
    /\ active' = [active EXCEPT ![o] = @ + 1]
    /\ holding' = [holding EXCEPT ![o] = @ \cup {s}]

(* The entry of the last slot is deleted, whatever the other holders.      *)
ReleaseDeletes(o, s) ==
    /\ s \in holding[o]
    /\ active' = [active EXCEPT ![o] = 0]
    /\ holding' = [holding EXCEPT ![o] = @ \ {s}]

Release(o, s) ==
    /\ s \in holding[o]
    /\ active' = [active EXCEPT ![o] = IF @ <= 1 THEN 0 ELSE @ - 1]
    /\ holding' = [holding EXCEPT ![o] = @ \ {s}]

LimiterNext == \E o \in Orgs, s \in Sessions : Acquire(o, s) \/ Release(o, s)

LimiterSpec == LimiterInit /\ [][LimiterNext]_limiterVars

-----------------------------------------------------------------------------
(* The count of an organisation is the number of sessions that hold a slot *)
(* of it, so no interleaving of Acquire and Release gives out more slots   *)
(* than maxPerOrg or loses one.                                            *)
SlotsMatchHolders ==
    \A o \in Orgs : active[o] = Cardinality(holding[o]) /\ active[o] <= maxPerOrg
=============================================================================
