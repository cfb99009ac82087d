------------------------- MODULE AgentSessionProofs -------------------------
(***************************************************************************)
(* The agent code generation pipeline, for any number of sandboxes, jobs,  *)
(* retries, attempts and troubles: what is stored was validated, every     *)
(* sandbox left behind is accounted for by a step that lost it, and the    *)
(* retries are used up and, while no job is rescued, never passed.         *)
(***************************************************************************)
EXTENDS AgentSession, FiniteSetTheorems, TLAPS

(* The stages of provision_sandbox at which the job is all a sandbox has:  *)
(* the session comes with the last of them.                                *)
Making == {"clone", "write", "insert"}
OnSession == {"run_agent", "validate_output"}

(* A job works on a sandbox that was made, and past provision_sandbox on   *)
(* one that has its session; before, it names none.                        *)
Holds(job, made, rows) ==
    /\ job \in Job
    /\ job.kind \in OnSession => job.box \in made /\ rows[job.box].status # "none"
    /\ job.pc \in Making => job.kind = "provision_sandbox" /\ job.box \in made
    /\ job.kind \notin OnSession /\ job.pc \notin Making => job.box = None

JobsOK ==
    /\ jobs \in [JobIds -> Job]
    /\ \A j \in JobIds : Holds(jobs[j], boxes, sessions)

RowsOK ==
    /\ ManagersTypeOK
    /\ sessions \in [Boxes -> Session]
    /\ work \in [Boxes -> {"good", "bad"}]
    /\ generation \in [status : {"pending", "running", "failed"},
                       files : {"none", "validated", "other"}]
    /\ stopper \in {"idle", "decided", "done"}

CountersOK ==
    /\ prs \in Nat /\ agentRuns \in Nat /\ abandoned \in Nat /\ miscounts \in Nat /\ repeats \in Nat
    /\ troubles \in 0 .. MaxTroubles

(* Until a job is rescued, one job at most is waiting or at work.          *)
Active(job) == job.pc \notin {"idle", "lost", "report", "discarded"}
OneActive == \A i, j \in JobIds : Active(jobs[i]) /\ Active(jobs[j]) => i = j
Alone ==
    repeats = 0 =>
        /\ OneActive
        /\ \A j \in JobIds : jobs[j].pc = "decide" => jobs[j].fresh
        /\ generation.files # "other"

Unowned == {b \in exists : ~Owned(b)}
LeaksBounded == IsFiniteSet(exists) /\ Cardinality(Unowned) <= abandoned

AgentInv == JobsOK /\ RowsOK /\ CountersOK /\ Alone /\ LeaksBounded
-----------------------------------------------------------------------------
(* Facts about single jobs.                                                *)
LEMMA RetriesAreCounted == normalizeMaxRetries \in Nat \ {0}
BY AgentAssumption DEF normalizeMaxRetries

LEMMA NoneIsNoBox == None \notin Boxes
BY ManagersAssumption

LEMMA IdleHolds ==
    ASSUME NEW made, NEW rows
    PROVE  Holds(Idle, made, rows) /\ Idle.pc = "idle"
BY RetriesAreCounted, AgentAssumption DEF Holds, Idle, Job, Kinds, Making, OnSession

(* The rows of sandboxes come and stay.                                    *)
RowsStay(rows, next) == \A b \in Boxes : rows[b].status # "none" => next[b].status # "none"

LEMMA HoldsStays ==
    ASSUME NEW job, NEW made \in SUBSET Boxes, NEW more, NEW rows, NEW next,
           Holds(job, made, rows), made \subseteq more, RowsStay(rows, next)
    PROVE  Holds(job, more, next)
BY DEF Holds, RowsStay

(* What is left of a job in River's hands.                                 *)
KeptBox(job) == IF job.kind = "provision_sandbox" THEN None ELSE job.box

LEMMA ArgumentsTyped ==
    ASSUME NEW j \in JobIds, jobs[j] \in Job
    PROVE  /\ Arguments(j) \in Job /\ Arguments(j).box = KeptBox(jobs[j])
           /\ Arguments(j).kind = jobs[j].kind /\ Arguments(j).attempt = jobs[j].attempt
<1> DEFINE box == KeptBox(jobs[j])
           count == IF jobs[j].kind = "run_agent" THEN 0 ELSE jobs[j].count
<1>1. box \in Boxes \cup {None} /\ count \in 0 .. normalizeMaxRetries
  BY RetriesAreCounted DEF Job, KeptBox
<1> HIDE DEF box, count
<1>2. Arguments(j) = [jobs[j] EXCEPT !.ctx = "live", !.passed = FALSE, !.fresh = FALSE,
                                     !.box = box, !.count = count]
  BY DEF Arguments, box, count, KeptBox
<1>3. Arguments(j) \in Job /\ Arguments(j).box = box
      /\ Arguments(j).kind = jobs[j].kind /\ Arguments(j).attempt = jobs[j].attempt
  BY <1>1, <1>2, FALSE \in BOOLEAN DEF Job
<1> QED
  BY <1>3 DEF box

LEMMA LeftHolds ==
    ASSUME NEW job, NEW made, NEW rows, Holds(job, made, rows), NEW w \in Job,
           w.kind = job.kind, w.pc \notin Making, w.box = KeptBox(job)
    PROVE  Holds(w, made, rows)
BY DEF Holds, KeptBox, Making, OnSession

LEMMA ReturnsHold ==
    ASSUME NEW j \in JobIds, NEW made, NEW rows, Holds(jobs[j], made, rows)
    PROVE  Holds(Returns(j), made, rows) /\ Returns(j).pc = "report"
<1>1. /\ Arguments(j) \in Job /\ Arguments(j).box = KeptBox(jobs[j])
      /\ Arguments(j).kind = jobs[j].kind
  BY ArgumentsTyped DEF Holds
<1>2. /\ Returns(j) \in Job /\ Returns(j).pc = "report"
      /\ Returns(j).kind = jobs[j].kind /\ Returns(j).box = KeptBox(jobs[j])
  BY <1>1 DEF Returns, Job
<1> QED
  BY <1>2, LeftHolds DEF Making

LEMMA LostHolds ==
    ASSUME NEW j \in JobIds, NEW made, NEW rows, Holds(jobs[j], made, rows)
    PROVE  LET w == [Arguments(j) EXCEPT !.pc = "lost"]
           IN  Holds(w, made, rows) /\ w.pc = "lost"
<1> DEFINE w == [Arguments(j) EXCEPT !.pc = "lost"]
<1>1. /\ Arguments(j) \in Job /\ Arguments(j).box = KeptBox(jobs[j])
      /\ Arguments(j).kind = jobs[j].kind
  BY ArgumentsTyped DEF Holds
<1>2. w \in Job /\ w.pc = "lost" /\ w.kind = jobs[j].kind /\ w.box = KeptBox(jobs[j])
  BY <1>1 DEF Job
<1> HIDE DEF w
<1>3. Holds(w, made, rows)
  BY <1>2, LeftHolds DEF Making
<1> QED
  BY <1>2, <1>3 DEF w

LEMMA RetriedHolds ==
    ASSUME NEW j \in JobIds, NEW made, NEW rows, Holds(jobs[j], made, rows)
    PROVE  Holds(Retried(j), made, rows) /\ Retried(j).pc \in {"queued", "discarded"}
<1>1. jobs[j] \in Job /\ jobs[j].attempt \in 0 .. MaxAttempts - 1
  BY DEF Holds, Job
<1>2. /\ Arguments(j) \in Job /\ Arguments(j).box = KeptBox(jobs[j])
      /\ Arguments(j).kind = jobs[j].kind /\ Arguments(j).attempt = jobs[j].attempt
  BY <1>1, ArgumentsTyped
<1>3. CASE jobs[j].attempt + 1 < MaxAttempts
  <2>1. jobs[j].attempt + 1 \in 0 .. MaxAttempts - 1
    BY <1>1, <1>3, AgentAssumption
  <2>2. /\ Retried(j) \in Job /\ Retried(j).pc = "queued"
        /\ Retried(j).kind = jobs[j].kind /\ Retried(j).box = KeptBox(jobs[j])
    BY <1>2, <1>3, <2>1 DEF Retried, Job
  <2> QED
    BY <2>2, LeftHolds DEF Making
<1>4. CASE ~(jobs[j].attempt + 1 < MaxAttempts)
  <2>1. /\ Retried(j) \in Job /\ Retried(j).pc = "discarded"
        /\ Retried(j).kind = jobs[j].kind /\ Retried(j).box = KeptBox(jobs[j])
    BY <1>2, <1>4 DEF Retried, Job
  <2> QED
    BY <2>1, LeftHolds DEF Making
<1> QED
  BY <1>3, <1>4

LEMMA SuccessorHolds ==
    ASSUME NEW j \in JobIds, NEW made \in SUBSET Boxes, NEW rows, Holds(jobs[j], made, rows),
           NEW kind \in Kinds,
           kind \in OnSession => jobs[j].box \in made /\ rows[jobs[j].box].status # "none",
           kind \notin OnSession => jobs[j].box = None
    PROVE  /\ Holds(Successor(j, kind), made, rows) /\ Successor(j, kind).pc = "queued"
           /\ Successor(j, kind) \in Job /\ Successor(j, kind).kind = kind
           /\ Successor(j, kind).box = jobs[j].box
<1> DEFINE w == Successor(j, kind)
<1>1. w \in Job /\ w.kind = kind /\ w.pc = "queued" /\ w.box = jobs[j].box
  <2>1. jobs[j].box \in Boxes \cup {None} /\ 0 \in 0 .. MaxAttempts - 1
        /\ 0 \in 0 .. normalizeMaxRetries
    BY AgentAssumption, RetriesAreCounted DEF Holds, Job
  <2> QED
    BY <2>1 DEF Successor, Idle, Job
<1> HIDE DEF w
<1>2. Holds(w, made, rows)
  BY <1>1 DEF Holds, Making
<1> QED
  BY <1>1, <1>2 DEF w
-----------------------------------------------------------------------------
(* Facts about steps.                                                      *)
LEMMA OpsFinite == \A a, b : IsFiniteSet({a}) /\ IsFiniteSet({a, b})
<1> SUFFICES ASSUME NEW a, NEW b PROVE IsFiniteSet({a}) /\ IsFiniteSet({a, b})
  OBVIOUS
<1>1. IsFiniteSet({a})
  BY FS_Singleton
<1>2. {a, b} = {a} \cup {b}
  OBVIOUS
<1> QED
  BY <1>1, <1>2, FS_AddElement

LEMMA TroublesCounted ==
    ASSUME NEW j \in JobIds, troubles \in 0 .. MaxTroubles,
           NEW ops, IsFiniteSet(ops), NEW F \in Faults(j, ops), Counts(j, F)
    PROVE  troubles' \in 0 .. MaxTroubles
<1>1. CASE jobs[j].ctx = "done"
  BY <1>1 DEF Counts
<1>2. CASE jobs[j].ctx # "done"
  <2>1. F \in SUBSET ops /\ troubles + Cardinality(F) <= MaxTroubles
    BY <1>2 DEF Faults
  <2>2. Cardinality(F) \in Nat
    BY <2>1, FS_Subset, FS_CardinalityType
  <2> QED
    BY <1>2, <2>1, <2>2, AgentAssumption DEF Counts
<1> QED
  BY <1>1, <1>2

(* One job goes on, alone or with a new job beside it.                     *)
Moved(j, x) ==
    \/ jobs' = [jobs EXCEPT ![j] = x]
    \/ /\ x.pc = "report"
       /\ \E i \in JobIds \ {j}, y \in Job :
            /\ Gone(i) /\ y.pc = "queued" /\ Holds(y, boxes', sessions')
            /\ jobs' = [jobs EXCEPT ![j] = x, ![i] = y]

LEMMA ChainsMove ==
    ASSUME NEW j \in JobIds, ~Gone(j), Holds(jobs[j], boxes, sessions),
           NEW next \in Job, next.pc = "queued", Holds(next, boxes', sessions'),
           NEW inserted \in BOOLEAN, Chains(j, next, inserted)
    PROVE  Moved(j, Returns(j))
<1>1. Returns(j).pc = "report"
  BY ReturnsHold
<1>2. CASE inserted
  <2>1. PICK i \in JobIds : FreeId(i) /\ jobs' = [jobs EXCEPT ![j] = Returns(j), ![i] = next]
    BY <1>2 DEF Chains
  <2>2. Gone(i) /\ i \in JobIds \ {j}
    BY <2>1 DEF FreeId
  <2> QED
    BY <1>1, <2>1, <2>2 DEF Moved
<1>3. CASE ~inserted
  BY <1>3 DEF Chains, Moved
<1> QED
  BY <1>2, <1>3

(* Who is where after such a step.                                         *)
LEMMA WhoMoved ==
    ASSUME JobsOK, NEW j \in JobIds, NEW x, Moved(j, x)
    PROVE  /\ jobs'[j] = x /\ DOMAIN jobs' = JobIds /\ jobs' = [i \in JobIds |-> jobs'[i]]
           /\ \/ \A i \in JobIds \ {j} : jobs'[i] = jobs[i]
              \/ /\ x.pc = "report"
                 /\ \E k \in JobIds \ {j} :
                      /\ Gone(k)
                      /\ jobs'[k] \in Job /\ jobs'[k].pc = "queued"
                      /\ Holds(jobs'[k], boxes', sessions')
                      /\ \A i \in JobIds \ {j, k} : jobs'[i] = jobs[i]
BY DEF JobsOK, Moved

LEMMA JobsStayOK ==
    ASSUME JobsOK, boxes \in SUBSET Boxes, boxes' \in SUBSET Boxes, boxes \subseteq boxes',
           RowsStay(sessions, sessions'),
           NEW j \in JobIds, NEW x, Moved(j, x), Holds(x, boxes', sessions')
    PROVE  JobsOK'
<1>1. \A i \in JobIds : Holds(jobs[i], boxes', sessions')
  BY HoldsStays DEF JobsOK
<1>2. \A i \in JobIds : Holds(jobs'[i], boxes', sessions')
  BY <1>1, WhoMoved
<1>3. jobs' \in [JobIds -> Job]
  BY <1>2, WhoMoved DEF Holds
<1> QED
  BY <1>2, <1>3 DEF JobsOK

(* A job comes to work only where one stops, unless River rescues it.      *)
TakesTurns(j, x) == Active(jobs[j]) \/ (~Active(x) /\ jobs' = [jobs EXCEPT ![j] = x])

LEMMA OneStaysActive ==
    ASSUME JobsOK, OneActive, NEW j \in JobIds, NEW x, Moved(j, x), TakesTurns(j, x)
    PROVE  OneActive'
<1> SUFFICES ASSUME NEW a \in JobIds, NEW b \in JobIds, Active(jobs'[a]), Active(jobs'[b])
             PROVE  a = b
  BY DEF OneActive
<1>1. CASE Active(jobs[j])
  <2>1. \A i \in JobIds \ {j} : ~Active(jobs[i])
    BY <1>1 DEF OneActive
  <2> QED
    BY <2>1, WhoMoved DEF Active
<1>2. CASE ~Active(x) /\ jobs' = [jobs EXCEPT ![j] = x]
  BY <1>2 DEF OneActive, JobsOK
<1> QED
  BY <1>1, <1>2 DEF TakesTurns

LEMMA AloneKept ==
    ASSUME JobsOK, Alone, NEW j \in JobIds, NEW x, Moved(j, x),
           repeats' = 0 => /\ repeats = 0 /\ TakesTurns(j, x)
                           /\ x.pc = "decide" => x.fresh
                           /\ generation'.files # "other"
    PROVE  Alone'
<1> SUFFICES ASSUME repeats' = 0
             PROVE  OneActive' /\ \A i \in JobIds : jobs'[i].pc = "decide" => jobs'[i].fresh
  BY DEF Alone
<1>1. OneActive /\ \A i \in JobIds : jobs[i].pc = "decide" => jobs[i].fresh
  BY DEF Alone
<1>2. OneActive'
  BY <1>1, OneStaysActive
<1> QED
  BY <1>1, <1>2, WhoMoved

(* Only provision_sandbox has sandboxes that nobody else knows of.         *)
LEMMA MakersKeepTrack ==
    ASSUME JobsOK, RowsOK, LeaksBounded, exists' \in SUBSET exists, abandoned' \in Nat,
           abandoned <= abandoned', abandoned \in Nat,
           RowsStay(sessions, sessions'),
           \A i \in JobIds : jobs[i].pc \in Making =>
               \/ jobs'[i].pc \in Making /\ jobs'[i].box = jobs[i].box
               \/ jobs[i].box \notin exists'
               \/ sessions'[jobs[i].box].status # "none"
    PROVE  LeaksBounded'
<1>1. IsFiniteSet(exists) /\ IsFiniteSet(exists')
  BY FS_Subset DEF LeaksBounded
<1>2. Unowned' \subseteq Unowned
  <2> SUFFICES ASSUME NEW b \in exists', sessions'[b].status = "none",
                      ~ \E i \in JobIds : jobs'[i].box = b /\ Executing(i)',
                      NEW i \in JobIds, jobs[i].box = b, Executing(i)
               PROVE  FALSE
    BY DEF Unowned, Owned, RowsOK, ManagersTypeOK, RowsStay
  <2>1. b \in Boxes /\ sessions[b].status = "none"
    BY DEF RowsOK, ManagersTypeOK, RowsStay
  <2>2. jobs[i].pc \in Making
    BY <2>1, NoneIsNoBox DEF JobsOK, Holds
  <2>3. jobs'[i].pc \in Making /\ jobs'[i].box = b
    BY <2>2
  <2> QED
    BY <2>3 DEF Executing, Making
<1>3. IsFiniteSet(Unowned) /\ IsFiniteSet(Unowned')
  BY <1>1, FS_Subset DEF Unowned
<1>4. Cardinality(Unowned') <= Cardinality(Unowned) /\ Cardinality(Unowned') \in Nat
      /\ Cardinality(Unowned) \in Nat
  BY <1>2, <1>3, FS_Subset, FS_CardinalityType
<1> QED
  BY <1>1, <1>4 DEF LeaksBounded

LEMMA TrackedStep ==
    ASSUME AgentInv, NEW j \in JobIds, NEW x, Moved(j, x), Holds(x, boxes', sessions'),
           jobs[j].pc \in Making => x.pc \in Making /\ x.box = jobs[j].box,
           exists' = exists, boxes' = boxes, RowsStay(sessions, sessions'),
           abandoned' = abandoned,
           repeats' = 0 => /\ repeats = 0 /\ TakesTurns(j, x)
                           /\ x.pc = "decide" => x.fresh
                           /\ generation'.files # "other",
           RowsOK', CountersOK'
    PROVE  AgentInv'
<1>1. JobsOK /\ RowsOK /\ Alone /\ boxes \in SUBSET Boxes
  BY DEF AgentInv, RowsOK, ManagersTypeOK
<1>2. JobsOK'
  BY <1>1, JobsStayOK
<1>3. Alone'
  BY <1>1, AloneKept
<1>4. LeaksBounded'
  <2>1. \A i \in JobIds : Gone(i) => jobs[i].pc \notin Making
    BY DEF Gone, Making
  <2>2. \A i \in JobIds : jobs[i].pc \in Making =>
            jobs'[i].pc \in Making /\ jobs'[i].box = jobs[i].box
    BY <1>1, <2>1, WhoMoved
  <2>3. LeaksBounded /\ abandoned \in Nat
    BY DEF AgentInv, CountersOK
  <2> QED
    BY <1>1, <2>2, <2>3, MakersKeepTrack
<1> QED
  BY <1>2, <1>3, <1>4 DEF AgentInv

(* The steps that touch no sandbox of provision_sandbox.                   *)
LEMMA QuietStep ==
    ASSUME AgentInv, NEW j \in JobIds, Active(jobs[j]), jobs[j].pc \notin Making,
           NEW x, Moved(j, x), Holds(x, boxes', sessions'), x.pc = "decide" => x.fresh,
           exists' = exists, boxes' = boxes, RowsStay(sessions, sessions'),
           abandoned' = abandoned, repeats' = repeats,
           repeats = 0 => generation'.files # "other",
           RowsOK', CountersOK'
    PROVE  AgentInv'
BY TrackedStep DEF TakesTurns
-----------------------------------------------------------------------------
(* prepare_context, and the steps of a job that change nothing but the job.*)
LEMMA SameRows ==
    ASSUME AgentInv, UNCHANGED <<managerVars, pipelineVars>>
    PROVE  RowsOK' /\ RowsStay(sessions, sessions') /\ UNCHANGED <<boxes, exists, sessions>>
           /\ (repeats = 0 => generation'.files # "other")
BY DEF AgentInv, RowsOK, ManagersTypeOK, managerVars, pipelineVars, RowsStay, Alone

LEMMA SameHistory ==
    ASSUME AgentInv, UNCHANGED history, troubles' \in 0 .. MaxTroubles
    PROVE  CountersOK' /\ abandoned' = abandoned /\ repeats' = repeats
BY DEF AgentInv, CountersOK, history

LEMMA HoldsNow ==
    ASSUME AgentInv, NEW j \in JobIds
    PROVE  /\ Holds(jobs[j], boxes, sessions) /\ jobs[j] \in Job /\ troubles \in 0 .. MaxTroubles
           /\ jobs[j].kind \in OnSession =>
                jobs[j].box \in Boxes /\ jobs[j].box \in boxes /\ sessions[jobs[j].box].status # "none"
BY DEF AgentInv, JobsOK, Holds, CountersOK, RowsOK, ManagersTypeOK

(* A job that fails goes back to River, or is discarded.                   *)
LEMMA FailsMove ==
    ASSUME AgentInv, NEW j \in JobIds, Fails(j),
           boxes' = boxes, RowsStay(sessions, sessions')
    PROVE  /\ Moved(j, Retried(j)) /\ Holds(Retried(j), boxes', sessions')
           /\ Retried(j).pc \in {"queued", "discarded"}
<1>1. Holds(Retried(j), boxes, sessions) /\ Retried(j).pc \in {"queued", "discarded"}
  BY HoldsNow, RetriedHolds
<1>2. boxes \in SUBSET Boxes
  BY DEF AgentInv, RowsOK, ManagersTypeOK
<1>3. Holds(Retried(j), boxes', sessions')
  BY <1>1, <1>2, HoldsStays
<1> QED
  BY <1>1, <1>3 DEF Fails, Moved

LEMMA PrepareContextKeeps ==
    ASSUME AgentInv, NEW j \in JobIds, PrepareContext(j) PROVE AgentInv'
<1>1. PICK F \in Faults(j, {"read", "insert"}) :
        /\ IF "read" \in F THEN Fails(j)
           ELSE Chains(j, Successor(j, "provision_sandbox"), "insert" \notin F)
        /\ Counts(j, F)
  BY DEF PrepareContext
<1>2. troubles' \in 0 .. MaxTroubles
  BY <1>1, OpsFinite, HoldsNow, TroublesCounted
<1>3. /\ RowsOK' /\ RowsStay(sessions, sessions') /\ UNCHANGED <<boxes, exists, sessions>>
      /\ (repeats = 0 => generation'.files # "other")
      /\ CountersOK' /\ abandoned' = abandoned /\ repeats' = repeats
  BY <1>2, SameRows, SameHistory DEF PrepareContext
<1>4. jobs[j].kind = "prepare_context" /\ jobs[j].pc = "queued"
  BY DEF PrepareContext, At
<1>5. CASE "read" \in F
  BY <1>1, <1>3, <1>4, <1>5, FailsMove, QuietStep DEF Active, Making
<1>6. CASE "read" \notin F
  <2>1. boxes \in SUBSET Boxes /\ Holds(jobs[j], boxes, sessions)
    BY HoldsNow DEF AgentInv, RowsOK, ManagersTypeOK
  <2>2. jobs[j].box = None
    BY <1>4, <2>1 DEF Holds, Making, OnSession
  <2> DEFINE y == Successor(j, "provision_sandbox")
  <2>3. y \in Job /\ y.pc = "queued" /\ Holds(y, boxes, sessions)
    BY <2>1, <2>2, SuccessorHolds DEF Kinds, OnSession
  <2>4. Chains(j, y, "insert" \notin F)
    BY <1>1, <1>6
  <2> HIDE DEF y
  <2>5. Moved(j, Returns(j))
    BY <1>3, <1>4, <2>1, <2>3, <2>4, ChainsMove DEF Gone
  <2>6. Holds(Returns(j), boxes', sessions') /\ Returns(j).pc = "report"
    BY <1>3, <2>1, ReturnsHold
  <2> QED
    BY <1>3, <1>4, <2>5, <2>6, QuietStep DEF Active, Making
<1> QED
  BY <1>5, <1>6
-----------------------------------------------------------------------------
(* The steps on a session: run_agent and validate_output.                  *)
LEMMA ChainsGo ==
    ASSUME AgentInv, NEW j \in JobIds, ~Gone(j),
           NEW next \in Job, next.pc = "queued", Holds(next, boxes, sessions),
           NEW inserted \in BOOLEAN, Chains(j, next, inserted),
           boxes' = boxes, RowsStay(sessions, sessions')
    PROVE  /\ Moved(j, Returns(j)) /\ Holds(Returns(j), boxes', sessions')
           /\ Returns(j).pc = "report"
<1>1. boxes \in SUBSET Boxes /\ Holds(jobs[j], boxes, sessions)
  BY HoldsNow DEF AgentInv, RowsOK, ManagersTypeOK
<1>2. Holds(next, boxes', sessions') /\ Holds(Returns(j), boxes', sessions')
      /\ Returns(j).pc = "report"
  BY <1>1, HoldsStays, ReturnsHold
<1> QED
  BY <1>1, <1>2, ChainsMove

LEMMA StatusWritten ==
    ASSUME AgentInv, NEW b \in Boxes, NEW status \in Statuses,
           UpdateSandboxSessionStatus(b, status) \/ UNCHANGED sessions
    PROVE  sessions' \in [Boxes -> Session] /\ RowsStay(sessions, sessions')
<1>1. sessions \in [Boxes -> Session]
  BY DEF AgentInv, RowsOK
<1>2. CASE UpdateSandboxSessionStatus(b, status)
  <2>1. [sessions[b] EXCEPT !.status = status] \in Session /\ status # "none"
    BY <1>1 DEF Session, Statuses
  <2>2. sessions' = [sessions EXCEPT ![b] = [sessions[b] EXCEPT !.status = status]]
    BY <1>1, <1>2 DEF UpdateSandboxSessionStatus
  <2> DEFINE new == [sessions[b] EXCEPT !.status = status]
  <2>3. new.status = status
    BY <1>1 DEF Session
  <2> HIDE DEF new
  <2>4. new \in Session /\ sessions' = [sessions EXCEPT ![b] = new]
    BY <2>1, <2>2 DEF new
  <2> QED
    BY <1>1, <2>1, <2>3, <2>4 DEF RowsStay
<1> QED
  BY <1>1, <1>2 DEF RowsStay

LEMMA CountWritten ==
    ASSUME AgentInv, NEW b \in Boxes, NEW count \in 0 .. normalizeMaxRetries,
           UpdateSandboxSessionResult(b, count)
    PROVE  sessions' \in [Boxes -> Session] /\ RowsStay(sessions, sessions')
<1>1. sessions \in [Boxes -> Session]
  BY DEF AgentInv, RowsOK
<1> DEFINE new == [sessions[b] EXCEPT !.retries = count]
<1>2. new \in Session /\ new.status = sessions[b].status
  BY <1>1 DEF Session
<1>3. sessions' = [sessions EXCEPT ![b] = new]
  BY <1>1 DEF UpdateSandboxSessionResult
<1> HIDE DEF new
<1> QED
  BY <1>1, <1>2, <1>3 DEF RowsStay

(* What a step of such a job leaves alone.                                 *)
LEMMA SessionStep ==
    ASSUME AgentInv, sessions' \in [Boxes -> Session], RowsStay(sessions, sessions'),
           UNCHANGED <<managerVars, work, generation, stopper, prs, agentRuns, abandoned, repeats>>,
           miscounts' \in Nat, troubles' \in 0 .. MaxTroubles
    PROVE  /\ RowsOK' /\ CountersOK' /\ UNCHANGED <<boxes, exists, abandoned, repeats>>
           /\ repeats = 0 => generation'.files # "other"
BY DEF AgentInv, RowsOK, CountersOK, ManagersTypeOK, managerVars, Alone

LEMMA RunAgentStartsKeeps ==
    ASSUME AgentInv, NEW j \in JobIds, RunAgentStarts(j) PROVE AgentInv'
<1> DEFINE b == jobs[j].box
<1>1. jobs[j].kind = "run_agent" /\ jobs[j].pc = "queued" /\ b \in Boxes /\ b \in boxes
      /\ sessions[b].status # "none" /\ jobs[j] \in Job /\ Holds(jobs[j], boxes, sessions)
      /\ troubles \in 0 .. MaxTroubles /\ boxes \in SUBSET Boxes
  BY HoldsNow DEF RunAgentStarts, At, OnSession, AgentInv, RowsOK, ManagersTypeOK
<1>2. PICK F \in Faults(j, {"session", "status"}) :
         /\ IF "session" \in F THEN Fails(j) /\ UNCHANGED sessions
            ELSE /\ jobs' = [jobs EXCEPT ![j].pc = "build", ![j].count = sessions[b].retries]
                 /\ IF "status" \in F THEN UNCHANGED sessions
                    ELSE UpdateSandboxSessionStatus(b, "running")
         /\ Counts(j, F)
  BY DEF RunAgentStarts
<1>3. sessions' \in [Boxes -> Session] /\ RowsStay(sessions, sessions')
  BY <1>1, <1>2, StatusWritten DEF Statuses
<1>4. troubles' \in 0 .. MaxTroubles
  BY <1>1, <1>2, OpsFinite, TroublesCounted
<1>5. /\ RowsOK' /\ CountersOK' /\ UNCHANGED <<boxes, exists, abandoned, repeats>>
      /\ repeats = 0 => generation'.files # "other"
  BY <1>3, <1>4, SessionStep DEF RunAgentStarts, history, AgentInv, CountersOK
<1>6. CASE "session" \in F
  BY <1>1, <1>2, <1>3, <1>5, <1>6, FailsMove, QuietStep DEF Active, Making
<1>7. CASE "session" \notin F
  <2> DEFINE x == [jobs[j] EXCEPT !.pc = "build", !.count = sessions[b].retries]
  <2>1. sessions[b].retries \in 0 .. normalizeMaxRetries
    BY <1>1 DEF AgentInv, RowsOK, Session
  <2>2. x \in Job /\ x.pc = "build" /\ x.kind = "run_agent" /\ x.box = b
    BY <1>1, <2>1 DEF Job
  <2>3. jobs' = [jobs EXCEPT ![j] = x]
    BY <1>2, <1>7, <1>1 DEF AgentInv, JobsOK
  <2> HIDE DEF x
  <2>4. Holds(x, boxes', sessions') /\ Moved(j, x)
    BY <1>1, <1>3, <1>5, <2>2, <2>3 DEF Holds, Making, OnSession, RowsStay, Moved
  <2> QED
    BY <1>1, <1>3, <1>5, <2>2, <2>4, QuietStep DEF Active, Making
<1> QED
  BY <1>6, <1>7

LEMMA GotoMoves ==
    ASSUME AgentInv, NEW j \in JobIds, jobs[j].kind \in OnSession,
           NEW pc \in {"agent", "save", "commands", "finish"}, Goto(j, pc),
           boxes' = boxes, RowsStay(sessions, sessions')
    PROVE  \E x : Moved(j, x) /\ Holds(x, boxes', sessions') /\ x.pc = pc
<1> DEFINE x == [jobs[j] EXCEPT !.pc = pc]
<1>1. jobs[j] \in Job /\ jobs[j].box \in Boxes /\ jobs[j].box \in boxes
      /\ sessions[jobs[j].box].status # "none"
  BY HoldsNow
<1>2. x \in Job /\ x.pc = pc /\ x.kind = jobs[j].kind /\ x.box = jobs[j].box
  BY <1>1 DEF Job
<1>3. jobs' = [jobs EXCEPT ![j] = x]
  BY DEF Goto
<1> HIDE DEF x
<1>4. Holds(x, boxes', sessions') /\ Moved(j, x)
  BY <1>1, <1>2, <1>3 DEF Holds, Making, OnSession, RowsStay, Moved
<1> QED
  BY <1>2, <1>4

LEMMA ProviderUnknownKeeps ==
    ASSUME AgentInv, NEW j \in JobIds, ProviderUnknown(j) PROVE AgentInv'
<1>1. jobs[j].kind = "run_agent" /\ jobs[j].pc = "build" /\ troubles \in 0 .. MaxTroubles
  BY HoldsNow DEF ProviderUnknown, At
<1>2. /\ RowsOK' /\ RowsStay(sessions, sessions') /\ UNCHANGED <<boxes, exists, sessions>>
      /\ (repeats = 0 => generation'.files # "other")
      /\ CountersOK' /\ abandoned' = abandoned /\ repeats' = repeats
  BY <1>1, SameRows, SameHistory DEF ProviderUnknown
<1> QED
  BY <1>1, <1>2, FailsMove, QuietStep DEF ProviderUnknown, Active, Making

LEMMA BuildKeeps ==
    ASSUME AgentInv, NEW j \in JobIds, BuildCommand(j) \/ BuildFails(j) PROVE AgentInv'
<1>1. jobs[j].kind = "run_agent" /\ jobs[j].pc = "build" /\ jobs[j].box \in Boxes
      /\ troubles \in 0 .. MaxTroubles
  BY HoldsNow DEF BuildCommand, BuildFails, At, OnSession
<1>2. CASE BuildCommand(j)
  <2>1. /\ RowsOK' /\ RowsStay(sessions, sessions') /\ UNCHANGED <<boxes, exists, sessions>>
        /\ (repeats = 0 => generation'.files # "other")
        /\ CountersOK' /\ abandoned' = abandoned /\ repeats' = repeats
    BY <1>1, <1>2, SameRows, SameHistory DEF BuildCommand
  <2>2. PICK x : Moved(j, x) /\ Holds(x, boxes', sessions') /\ x.pc = "agent"
    BY <1>1, <1>2, <2>1, GotoMoves DEF BuildCommand, OnSession
  <2> QED
    BY <1>1, <2>1, <2>2, QuietStep DEF Active, Making
<1>3. CASE BuildFails(j)
  <2>1. PICK F \in Faults(j, {"status"}) :
          /\ IF F = {} THEN UpdateSandboxSessionStatus(jobs[j].box, "failed")
             ELSE UNCHANGED sessions
          /\ Counts(j, F)
    BY <1>3 DEF BuildFails
  <2>2. troubles' \in 0 .. MaxTroubles
    BY <1>1, <2>1, OpsFinite, TroublesCounted
  <2>3. sessions' \in [Boxes -> Session] /\ RowsStay(sessions, sessions')
    BY <1>1, <2>1, StatusWritten DEF Statuses
  <2>4. /\ RowsOK' /\ CountersOK' /\ UNCHANGED <<boxes, exists, abandoned, repeats>>
        /\ repeats = 0 => generation'.files # "other"
    BY <1>3, <2>2, <2>3, SessionStep DEF BuildFails, history, AgentInv, CountersOK
  <2>5. Moved(j, Retried(j)) /\ Holds(Retried(j), boxes', sessions')
        /\ Retried(j).pc \in {"queued", "discarded"}
    BY <1>3, <2>3, <2>4, FailsMove DEF BuildFails
  <2> QED
    BY <1>1, <2>3, <2>4, <2>5, QuietStep DEF Active, Making
<1> QED
  BY <1>2, <1>3

LEMMA SaveRunKeeps ==
    ASSUME AgentInv, NEW j \in JobIds, SaveRun(j) PROVE AgentInv'
<1>1. /\ jobs[j].kind = "run_agent" /\ jobs[j].pc = "save" /\ jobs[j].box \in Boxes
      /\ troubles \in 0 .. MaxTroubles /\ jobs[j] \in Job
      /\ boxes \in SUBSET Boxes /\ Holds(jobs[j], boxes, sessions)
      /\ jobs[j].box \in boxes /\ sessions[jobs[j].box].status # "none"
  BY HoldsNow DEF SaveRun, At, OnSession, AgentInv, RowsOK, ManagersTypeOK
<1> DEFINE y == [Successor(j, "validate_output") EXCEPT !.count = jobs[j].count]
<1>2. PICK F \in Faults(j, {"status", "insert"}) :
         /\ IF "status" \in F THEN UNCHANGED sessions
            ELSE UpdateSandboxSessionStatus(jobs[j].box, "validating")
         /\ Chains(j, y, "insert" \notin F)
         /\ Counts(j, F)
  BY DEF SaveRun
<1>3. troubles' \in 0 .. MaxTroubles
  BY <1>1, <1>2, OpsFinite, TroublesCounted
<1>4. sessions' \in [Boxes -> Session] /\ RowsStay(sessions, sessions')
  BY <1>1, <1>2, StatusWritten DEF Statuses
<1>5. /\ RowsOK' /\ CountersOK' /\ UNCHANGED <<boxes, exists, abandoned, repeats>>
      /\ repeats = 0 => generation'.files # "other"
  BY <1>3, <1>4, SessionStep DEF SaveRun, history, AgentInv, CountersOK
<1>6. y \in Job /\ y.pc = "queued" /\ Holds(y, boxes, sessions)
  <2> DEFINE s == Successor(j, "validate_output")
  <2>1. s \in Job /\ s.kind = "validate_output" /\ s.box = jobs[j].box /\ s.pc = "queued"
    BY <1>1, SuccessorHolds DEF Kinds, OnSession
  <2> HIDE DEF s
  <2>2. jobs[j].count \in 0 .. normalizeMaxRetries /\ y = [s EXCEPT !.count = jobs[j].count]
    BY <1>1 DEF Job, s
  <2>3. y \in Job /\ y.kind = "validate_output" /\ y.box = jobs[j].box /\ y.pc = "queued"
    BY <2>1, <2>2 DEF Job
  <2> HIDE DEF y
  <2> QED
    BY <1>1, <2>3 DEF Holds, OnSession, Making
<1> HIDE DEF y
<1>7. Moved(j, Returns(j)) /\ Holds(Returns(j), boxes', sessions') /\ Returns(j).pc = "report"
  BY <1>1, <1>2, <1>4, <1>5, <1>6, ChainsGo DEF Gone
<1> QED
  BY <1>1, <1>4, <1>5, <1>7, QuietStep DEF Active, Making

LEMMA ValidateStartsKeeps ==
    ASSUME AgentInv, NEW j \in JobIds, ValidateStarts(j) PROVE AgentInv'
<1>1. jobs[j].kind = "validate_output" /\ jobs[j].pc = "queued" /\ troubles \in 0 .. MaxTroubles
  BY HoldsNow DEF ValidateStarts, At
<1>2. PICK F \in Faults(j, {"session"}) :
         (IF F = {} THEN Goto(j, "commands") ELSE Fails(j)) /\ Counts(j, F)
  BY DEF ValidateStarts
<1>3. troubles' \in 0 .. MaxTroubles
  BY <1>1, <1>2, OpsFinite, TroublesCounted
<1>4. /\ RowsOK' /\ RowsStay(sessions, sessions') /\ UNCHANGED <<boxes, exists, sessions>>
      /\ (repeats = 0 => generation'.files # "other")
      /\ CountersOK' /\ abandoned' = abandoned /\ repeats' = repeats
  BY <1>3, SameRows, SameHistory DEF ValidateStarts
<1>5. CASE F = {}
  <2>1. PICK x : Moved(j, x) /\ Holds(x, boxes', sessions') /\ x.pc = "commands"
    BY <1>1, <1>2, <1>4, <1>5, GotoMoves DEF OnSession
  <2> QED
    BY <1>1, <1>4, <2>1, QuietStep DEF Active, Making
<1>6. CASE F # {}
  BY <1>1, <1>2, <1>4, <1>6, FailsMove, QuietStep DEF Active, Making
<1> QED
  BY <1>5, <1>6

LEMMA RunCommandsKeeps ==
    ASSUME AgentInv, NEW j \in JobIds, RunCommands(j) PROVE AgentInv'
<1>1. /\ jobs[j].kind = "validate_output" /\ jobs[j].pc = "commands" /\ troubles \in 0 .. MaxTroubles
      /\ jobs[j] \in Job /\ Holds(jobs[j], boxes, sessions)
  BY HoldsNow DEF RunCommands, At
<1>2. PICK passed \in BOOLEAN :
         jobs' = [jobs EXCEPT ![j].pc = "decide", ![j].fresh = TRUE, ![j].passed = passed]
  BY DEF RunCommands
<1>3. /\ RowsOK' /\ RowsStay(sessions, sessions') /\ UNCHANGED <<boxes, exists, sessions>>
      /\ (repeats = 0 => generation'.files # "other")
      /\ CountersOK' /\ abandoned' = abandoned /\ repeats' = repeats
  BY <1>1, SameRows, SameHistory DEF RunCommands
<1> DEFINE x == [jobs[j] EXCEPT !.pc = "decide", !.fresh = TRUE, !.passed = passed]
<1>4. x \in Job /\ x.pc = "decide" /\ x.fresh = TRUE /\ x.kind = jobs[j].kind /\ x.box = jobs[j].box
  BY <1>1, TRUE \in BOOLEAN DEF Job
<1>5. jobs' = [jobs EXCEPT ![j] = x]
  BY <1>2 DEF AgentInv, JobsOK
<1> HIDE DEF x
<1>6. Holds(x, boxes', sessions') /\ Moved(j, x)
  BY <1>1, <1>3, <1>4, <1>5 DEF Holds, Making, OnSession, Moved
<1> QED
  BY <1>1, <1>3, <1>4, <1>6, QuietStep DEF Active, Making

LEMMA RetryAgentKeeps ==
    ASSUME AgentInv, NEW j \in JobIds, RetryAgent(j) PROVE AgentInv'
<1>1. /\ jobs[j].kind = "validate_output" /\ jobs[j].pc = "decide" /\ jobs[j].box \in Boxes
      /\ troubles \in 0 .. MaxTroubles /\ jobs[j] \in Job
      /\ boxes \in SUBSET Boxes /\ Holds(jobs[j], boxes, sessions)
      /\ jobs[j].box \in boxes /\ sessions[jobs[j].box].status # "none"
  BY HoldsNow DEF RetryAgent, At, OnSession, AgentInv, RowsOK, ManagersTypeOK
<1>2. PICK F \in Faults(j, {"count", "insert"}) :
         /\ IF "count" \in F THEN UNCHANGED sessions /\ miscounts' = miscounts + 1
            ELSE /\ UpdateSandboxSessionResult(jobs[j].box, jobs[j].count + 1)
                 /\ UNCHANGED miscounts
         /\ Chains(j, Successor(j, "run_agent"), "insert" \notin F)
         /\ Counts(j, F)
  BY DEF RetryAgent
<1>3. troubles' \in 0 .. MaxTroubles /\ miscounts' \in Nat
  <2>1. troubles' \in 0 .. MaxTroubles
    BY <1>1, <1>2, OpsFinite, TroublesCounted
  <2>2. miscounts' \in Nat
    BY <1>2 DEF AgentInv, CountersOK
  <2> QED
    BY <2>1, <2>2
<1>4. sessions' \in [Boxes -> Session] /\ RowsStay(sessions, sessions')
  <2>1. jobs[j].count + 1 \in 0 .. normalizeMaxRetries
    BY <1>1, RetriesAreCounted DEF RetryAgent, MayRetry, Job
  <2> QED
    BY <1>1, <1>2, <2>1, CountWritten DEF AgentInv, RowsOK, RowsStay
<1>5. /\ RowsOK' /\ CountersOK' /\ UNCHANGED <<boxes, exists, abandoned, repeats>>
      /\ repeats = 0 => generation'.files # "other"
  BY <1>3, <1>4, SessionStep DEF RetryAgent
<1> DEFINE y == Successor(j, "run_agent")
<1>6. y \in Job /\ y.pc = "queued" /\ Holds(y, boxes, sessions) /\ Chains(j, y, "insert" \notin F)
  BY <1>1, <1>2, SuccessorHolds DEF Kinds, OnSession
<1> HIDE DEF y
<1>7. Moved(j, Returns(j)) /\ Holds(Returns(j), boxes', sessions') /\ Returns(j).pc = "report"
  BY <1>1, <1>4, <1>5, <1>6, ChainsGo DEF Gone
<1> QED
  BY <1>1, <1>4, <1>5, <1>7, QuietStep DEF Active, Making

(* The steps that write the generation.                                    *)
LEMMA GenerationStep ==
    ASSUME AgentInv, UNCHANGED <<managerVars, sessions, work, stopper, history>>,
           generation' \in [status : {"pending", "running", "failed"},
                            files : {"none", "validated", "other"}],
           troubles' \in 0 .. MaxTroubles
    PROVE  /\ RowsOK' /\ RowsStay(sessions, sessions') /\ UNCHANGED <<boxes, exists, sessions>>
           /\ CountersOK' /\ abandoned' = abandoned /\ repeats' = repeats
BY DEF AgentInv, RowsOK, CountersOK, ManagersTypeOK, managerVars, RowsStay, history

LEMMA GiveUpKeeps ==
    ASSUME AgentInv, NEW j \in JobIds, GiveUp(j) PROVE AgentInv'
<1>1. jobs[j].kind = "validate_output" /\ jobs[j].pc = "decide" /\ troubles \in 0 .. MaxTroubles
  BY HoldsNow DEF GiveUp, At
<1>2. PICK F \in Faults(j, {"generation"}) :
         /\ \/ generation' = [generation EXCEPT !.status = "failed"]
            \/ UNCHANGED generation
         /\ Counts(j, F)
  BY DEF GiveUp
<1>3. troubles' \in 0 .. MaxTroubles
  BY <1>1, <1>2, OpsFinite, TroublesCounted
<1>4. /\ generation' \in [status : {"pending", "running", "failed"},
                          files : {"none", "validated", "other"}]
      /\ repeats = 0 => generation'.files # "other"
  BY <1>2 DEF AgentInv, RowsOK, Alone
<1>5. /\ RowsOK' /\ RowsStay(sessions, sessions') /\ UNCHANGED <<boxes, exists, sessions>>
      /\ CountersOK' /\ abandoned' = abandoned /\ repeats' = repeats
  BY <1>3, <1>4, GenerationStep DEF GiveUp
<1> QED
  BY <1>1, <1>4, <1>5, FailsMove, QuietStep DEF GiveUp, Active, Making

(* What is collected is what was validated, as long as no other job has    *)
(* run the agent in between.                                               *)
LEMMA CollectChangesKeeps ==
    ASSUME AgentInv, NEW j \in JobIds, CollectChanges(j) PROVE AgentInv'
<1>1. jobs[j].kind = "validate_output" /\ jobs[j].pc = "decide" /\ troubles \in 0 .. MaxTroubles
  BY HoldsNow DEF CollectChanges, At
<1>2. PICK F \in Faults(j, {"diff", "generation"}) :
         /\ \/ generation' = [status |-> "running",
                              files |-> IF jobs[j].fresh THEN "validated" ELSE "other"]
            \/ UNCHANGED generation
         /\ Counts(j, F)
  BY DEF CollectChanges
<1>3. troubles' \in 0 .. MaxTroubles
  BY <1>1, <1>2, OpsFinite, TroublesCounted
<1>4. /\ generation' \in [status : {"pending", "running", "failed"},
                          files : {"none", "validated", "other"}]
      /\ repeats = 0 => generation'.files # "other"
  BY <1>1, <1>2 DEF AgentInv, RowsOK, Alone
<1>5. /\ RowsOK' /\ RowsStay(sessions, sessions') /\ UNCHANGED <<boxes, exists, sessions>>
      /\ CountersOK' /\ abandoned' = abandoned /\ repeats' = repeats
  BY <1>3, <1>4, GenerationStep DEF CollectChanges
<1>6. PICK x : Moved(j, x) /\ Holds(x, boxes', sessions') /\ x.pc = "finish"
  BY <1>1, <1>5, GotoMoves DEF CollectChanges, OnSession
<1> QED
  BY <1>1, <1>4, <1>5, <1>6, QuietStep DEF Active, Making

LEMMA FinishKeeps ==
    ASSUME AgentInv, NEW j \in JobIds, Finish(j) PROVE AgentInv'
<1>1. /\ jobs[j].kind = "validate_output" /\ jobs[j].pc = "finish" /\ jobs[j].box \in Boxes
      /\ troubles \in 0 .. MaxTroubles /\ Holds(jobs[j], boxes, sessions) /\ boxes \in SUBSET Boxes
  BY HoldsNow DEF Finish, At, OnSession, AgentInv, RowsOK, ManagersTypeOK
<1>2. PICK F \in Faults(j, {"status", "insert"}) :
         /\ IF "status" \in F THEN UNCHANGED sessions
            ELSE UpdateSandboxSessionStatus(jobs[j].box, "completed")
         /\ prs' = IF "insert" \in F THEN prs ELSE prs + 1
         /\ Counts(j, F)
  BY DEF Finish
<1>3. troubles' \in 0 .. MaxTroubles /\ prs' \in Nat
  <2>1. troubles' \in 0 .. MaxTroubles
    BY <1>1, <1>2, OpsFinite, TroublesCounted
  <2>2. prs' \in Nat
    BY <1>2 DEF AgentInv, CountersOK
  <2> QED
    BY <2>1, <2>2
<1>4. sessions' \in [Boxes -> Session] /\ RowsStay(sessions, sessions')
  BY <1>1, <1>2, StatusWritten DEF Statuses
<1>5. /\ RowsOK' /\ CountersOK' /\ UNCHANGED <<boxes, exists, abandoned, repeats>>
      /\ repeats = 0 => generation'.files # "other"
  BY <1>3, <1>4 DEF Finish, AgentInv, RowsOK, CountersOK, ManagersTypeOK, managerVars, Alone
<1>6. Holds(Returns(j), boxes', sessions') /\ Returns(j).pc = "report" /\ Moved(j, Returns(j))
  BY <1>1, <1>4, <1>5, ReturnsHold, HoldsStays DEF Finish, Moved
<1> QED
  BY <1>1, <1>4, <1>5, <1>6, QuietStep DEF Active, Making

(* What another job validated is no longer what its sandbox holds.         *)
LEMMA AgentKeeps ==
    ASSUME AgentInv, NEW j \in JobIds, Agent(j) PROVE AgentInv'
<1>1. /\ jobs[j].kind = "run_agent" /\ jobs[j].pc = "agent" /\ jobs[j].box \in Boxes
      /\ \A i \in JobIds : jobs[i] \in Job /\ Holds(jobs[i], boxes, sessions)
  BY HoldsNow DEF Agent, At, OnSession
<1>2. /\ RowsOK' /\ CountersOK' /\ RowsStay(sessions, sessions')
      /\ UNCHANGED <<boxes, exists, sessions, abandoned, repeats, generation>>
  <2>1. /\ UNCHANGED <<managerVars, sessions, generation, stopper, prs, abandoned, miscounts,
                       repeats, troubles>>
        /\ agentRuns' = agentRuns + 1
        /\ work' = work \/ \E w \in {"good", "bad"} : work' = [work EXCEPT ![jobs[j].box] = w]
    BY DEF Agent
  <2>2. CountersOK' /\ RowsStay(sessions, sessions')
    BY <2>1 DEF AgentInv, CountersOK, RowsStay
  <2>3. work' \in [Boxes -> {"good", "bad"}]
    BY <1>1, <2>1 DEF AgentInv, RowsOK
  <2> QED
    BY <2>1, <2>2, <2>3 DEF AgentInv, RowsOK, ManagersTypeOK, managerVars
<1>3. CASE UNCHANGED work /\ Goto(j, "save")
  <2>1. PICK x : Moved(j, x) /\ Holds(x, boxes', sessions') /\ x.pc = "save"
    BY <1>1, <1>2, <1>3, GotoMoves DEF OnSession
  <2> QED
    BY <1>1, <1>2, <2>1, QuietStep DEF Active, Making, AgentInv, Alone
<1>4. CASE jobs' = [i \in JobIds |->
               [jobs[i] EXCEPT !.pc = IF i = j THEN "save" ELSE @,
                               !.fresh = @ /\ jobs[i].box # jobs[j].box]]
  <2>1. ASSUME NEW i \in JobIds
        PROVE  /\ jobs'[i] \in Job /\ jobs'[i].kind = jobs[i].kind /\ jobs'[i].box = jobs[i].box
               /\ jobs'[i].pc = IF i = j THEN "save" ELSE jobs[i].pc
    <3> DEFINE pc == IF i = j THEN "save" ELSE jobs[i].pc
               fresh == jobs[i].fresh /\ jobs[i].box # jobs[j].box
    <3>1. fresh \in BOOLEAN
      BY Zenon
    <3>2. jobs'[i] = [jobs[i] EXCEPT !.pc = pc, !.fresh = fresh]
      BY <1>4
    <3>3. pc \in {"idle", "queued", "lost", "clone", "write", "insert", "build", "agent",
                  "save", "commands", "decide", "finish", "report", "discarded"}
      BY <1>1 DEF Job
    <3> HIDE DEF fresh, pc
    <3> DEFINE job == jobs[i]
    <3>4. job \in Job /\ jobs'[i] = [job EXCEPT !.pc = pc, !.fresh = fresh]
      BY <1>1, <3>2
    <3> HIDE DEF job
    <3>5. jobs'[i] \in Job /\ jobs'[i].pc = pc /\ jobs'[i].kind = job.kind /\ jobs'[i].box = job.box
      BY <3>1, <3>3, <3>4 DEF Job
    <3> QED
      BY <3>5 DEF pc, job
  <2>2. JobsOK'
    <3>1. \A i \in JobIds : Holds(jobs'[i], boxes', sessions')
      BY <1>1, <1>2, <2>1 DEF Holds, Making, OnSession
    <3>2. jobs' \in [JobIds -> Job]
      BY <1>4, <2>1
    <3> QED
      BY <3>1, <3>2 DEF JobsOK
  <2>3. Alone'
    <3> SUFFICES ASSUME repeats = 0
                 PROVE  /\ OneActive'
                        /\ \A i \in JobIds : jobs'[i].pc = "decide" => jobs'[i].fresh
      BY <1>2 DEF Alone, AgentInv
    <3>1. OneActive /\ Active(jobs[j])
      BY <1>1, <1>2 DEF AgentInv, Alone, Active
    <3>2. \A i \in JobIds \ {j} : ~Active(jobs[i])
      BY <3>1 DEF OneActive
    <3>3. OneActive'
      BY <2>1, <3>2 DEF OneActive, Active
    <3>4. \A i \in JobIds : jobs'[i].pc # "decide"
      BY <2>1, <3>2 DEF Active
    <3> QED
      BY <3>3, <3>4
  <2>4. LeaksBounded'
    <3>1. \A i \in JobIds : jobs[i].pc \in Making =>
              jobs'[i].pc \in Making /\ jobs'[i].box = jobs[i].box
      BY <1>1, <2>1 DEF Making
    <3>2. JobsOK /\ RowsOK /\ LeaksBounded /\ abandoned \in Nat
      BY DEF AgentInv, CountersOK
    <3> QED
      BY <1>2, <3>1, <3>2, MakersKeepTrack
  <2> QED
    BY <1>2, <2>2, <2>3, <2>4 DEF AgentInv
<1> QED
  BY <1>3, <1>4 DEF Agent
-----------------------------------------------------------------------------
(* River and the API process.                                              *)
LEMMA ReportKeeps ==
    ASSUME AgentInv, NEW j \in JobIds, Report(j) PROVE AgentInv'
<1>1. jobs[j].pc = "report" /\ jobs' = [jobs EXCEPT ![j] = Idle] /\ troubles \in 0 .. MaxTroubles
      /\ Holds(Idle, boxes', sessions') /\ Idle.pc = "idle"
  BY HoldsNow, IdleHolds DEF Report
<1>2. /\ RowsOK' /\ RowsStay(sessions, sessions') /\ UNCHANGED <<boxes, exists, sessions>>
      /\ (repeats = 0 => generation'.files # "other")
      /\ CountersOK' /\ abandoned' = abandoned /\ repeats' = repeats
  BY <1>1, SameRows, SameHistory DEF Report
<1>3. Moved(j, Idle) /\ TakesTurns(j, Idle)
  BY <1>1 DEF Moved, TakesTurns, Active
<1> QED
  BY <1>1, <1>2, <1>3, TrackedStep DEF Making

LEMMA TimeoutKeeps ==
    ASSUME AgentInv, NEW j \in JobIds, Timeout(j) PROVE AgentInv'
<1>1. /\ jobs[j] \in Job /\ Holds(jobs[j], boxes, sessions) /\ Active(jobs[j])
      /\ jobs' = [jobs EXCEPT ![j].ctx = "done"] /\ troubles' \in 0 .. MaxTroubles
  <2>1. troubles' \in 0 .. MaxTroubles
    BY HoldsNow, AgentAssumption DEF Timeout
  <2> QED
    BY <2>1, HoldsNow DEF Timeout, Executing, Active
<1>2. /\ RowsOK' /\ RowsStay(sessions, sessions') /\ UNCHANGED <<boxes, exists, sessions>>
      /\ (repeats = 0 => generation'.files # "other")
      /\ CountersOK' /\ abandoned' = abandoned /\ repeats' = repeats
  BY <1>1, SameRows, SameHistory DEF Timeout
<1> DEFINE x == [jobs[j] EXCEPT !.ctx = "done"]
<1>3. /\ x \in Job /\ x.kind = jobs[j].kind /\ x.pc = jobs[j].pc /\ x.box = jobs[j].box
      /\ x.fresh = jobs[j].fresh
  BY <1>1 DEF Job
<1>4. jobs' = [jobs EXCEPT ![j] = x]
  BY <1>1
<1> HIDE DEF x
<1>5. Holds(x, boxes', sessions') /\ Moved(j, x) /\ TakesTurns(j, x)
  BY <1>1, <1>2, <1>3, <1>4 DEF Holds, Moved, TakesTurns
<1>6. repeats = 0 /\ x.pc = "decide" => x.fresh
  BY <1>3 DEF AgentInv, Alone
<1> QED
  BY <1>2, <1>3, <1>5, <1>6, TrackedStep

LEMMA RescueKeeps ==
    ASSUME AgentInv, NEW j \in JobIds, Rescue(j) PROVE AgentInv'
<1>1. jobs[j].pc = "lost" /\ Fails(j) /\ repeats' = repeats + 1
  BY DEF Rescue
<1>2. /\ RowsOK' /\ RowsStay(sessions, sessions') /\ UNCHANGED <<boxes, exists, sessions>>
      /\ CountersOK' /\ abandoned' = abandoned /\ repeats' # 0
  BY <1>1, SameRows DEF Rescue, AgentInv, CountersOK
<1> QED
  BY <1>1, <1>2, FailsMove, TrackedStep DEF Making

LEMMA StopKeeps ==
    ASSUME AgentInv, StopReads \/ StopWrites PROVE AgentInv'
<1>1. sessions' \in [Boxes -> Session] /\ RowsStay(sessions, sessions')
  <2>1. CASE StopReads
    BY <2>1 DEF StopReads, AgentInv, RowsOK, RowsStay
  <2>2. CASE StopWrites
    BY <2>2, StatusWritten DEF StopWrites, Statuses
  <2> QED
    BY <2>1, <2>2
<1>2. /\ UNCHANGED <<managerVars, jobs, work, generation, history, troubles>>
      /\ stopper' \in {"idle", "decided", "done"}
  BY DEF StopReads, StopWrites
<1>3. RowsOK' /\ CountersOK' /\ Alone'
  BY <1>1, <1>2 DEF AgentInv, RowsOK, CountersOK, ManagersTypeOK, managerVars, history,
                    Alone, OneActive
<1>4. boxes \in SUBSET Boxes /\ boxes' = boxes /\ exists' = exists /\ abandoned' = abandoned
  BY <1>2 DEF AgentInv, RowsOK, ManagersTypeOK, managerVars, history
<1>5. JobsOK'
  <2>1. \A i \in JobIds : Holds(jobs[i], boxes', sessions')
    BY <1>1, <1>4, HoldsStays DEF AgentInv, JobsOK
  <2> QED
    BY <1>2, <2>1 DEF AgentInv, JobsOK
<1>6. LeaksBounded'
  BY <1>1, <1>2, <1>4, MakersKeepTrack DEF AgentInv, CountersOK
<1> QED
  BY <1>3, <1>5, <1>6 DEF AgentInv
-----------------------------------------------------------------------------
(* provision_sandbox: what it leaves behind is counted.                    *)
LEMMA OneMore ==
    ASSUME NEW S, NEW x, IsFiniteSet(S)
    PROVE  /\ IsFiniteSet(S \cup {x}) /\ Cardinality(S) \in Nat
           /\ Cardinality(S \cup {x}) <= Cardinality(S) + 1
<1>1. Cardinality(S) \in Nat
  BY FS_CardinalityType
<1>2. Cardinality(S \cup {x}) = IF x \in S THEN Cardinality(S) ELSE Cardinality(S) + 1
  BY FS_AddElement
<1>3. CASE x \in S
  BY <1>1, <1>2, <1>3, FS_AddElement
<1>4. CASE x \notin S
  BY <1>1, <1>2, <1>4, FS_AddElement
<1> QED
  BY <1>3, <1>4

LEMMA OneLost ==
    ASSUME LeaksBounded, NEW b, abandoned \in Nat, abandoned' = abandoned + 1,
           exists' \subseteq exists \cup {b}, Unowned' \subseteq Unowned \cup {b}
    PROVE  LeaksBounded'
<1>1. IsFiniteSet(exists)
  BY DEF LeaksBounded
<1>2. IsFiniteSet(exists \cup {b})
  BY <1>1, FS_AddElement
<1>3. IsFiniteSet(exists') /\ IsFiniteSet(Unowned)
  BY <1>1, <1>2, FS_Subset DEF Unowned
<1>4. /\ IsFiniteSet(Unowned \cup {b})
      /\ Cardinality(Unowned \cup {b}) <= Cardinality(Unowned) + 1
      /\ Cardinality(Unowned) \in Nat
  BY <1>3, OneMore
<1>5. Cardinality(Unowned') <= Cardinality(Unowned \cup {b}) /\ Cardinality(Unowned') \in Nat
      /\ Cardinality(Unowned \cup {b}) \in Nat
  BY <1>4, FS_Subset, FS_CardinalityType
<1> QED
  BY <1>3, <1>4, <1>5 DEF LeaksBounded

(* A job that gives up its sandbox loses that one at most.                 *)
LEMMA MakerLoses ==
    ASSUME JobsOK, NEW j \in JobIds, NEW x, jobs' = [jobs EXCEPT ![j] = x],
           NEW b, jobs[j].box = b \/ jobs[j].box = None,
           exists' \subseteq exists \cup {b}, exists \in SUBSET Boxes, sessions' = sessions
    PROVE  Unowned' \subseteq Unowned \cup {b}
<1> SUFFICES ASSUME NEW c \in exists', c # b, sessions[c].status = "none",
                    ~ \E i \in JobIds : jobs'[i].box = c /\ Executing(i)',
                    NEW i \in JobIds, jobs[i].box = c, Executing(i)
             PROVE  FALSE
  BY DEF Unowned, Owned
<1>1. i # j
  BY NoneIsNoBox
<1>2. jobs'[i] = jobs[i]
  BY <1>1 DEF JobsOK
<1> QED
  BY <1>2 DEF Executing

LEMMA AbandonsKeeps ==
    ASSUME AgentInv, NEW j \in JobIds, Active(jobs[j]), Fails(j), abandoned' = abandoned + 1,
           NEW b, jobs[j].box = b \/ jobs[j].box = None, exists' \subseteq exists \cup {b},
           boxes \subseteq boxes', boxes' \in SUBSET Boxes,
           sessions' = sessions, generation' = generation, repeats' = repeats,
           RowsOK', CountersOK'
    PROVE  AgentInv'
<1>1. JobsOK /\ RowsOK /\ Alone /\ LeaksBounded /\ boxes \in SUBSET Boxes /\ abandoned \in Nat
      /\ exists \in SUBSET Boxes
  BY DEF AgentInv, RowsOK, ManagersTypeOK, CountersOK
<1>2. Holds(Retried(j), boxes, sessions) /\ Retried(j).pc \in {"queued", "discarded"}
  BY HoldsNow, RetriedHolds
<1>3. RowsStay(sessions, sessions')
  BY DEF RowsStay
<1> DEFINE x == Retried(j)
<1>4. jobs' = [jobs EXCEPT ![j] = x] /\ x.pc \in {"queued", "discarded"} /\ Holds(x, boxes, sessions)
  BY <1>2 DEF Fails
<1> HIDE DEF x
<1>5. Holds(x, boxes', sessions') /\ Moved(j, x) /\ TakesTurns(j, x)
  BY <1>1, <1>3, <1>4, HoldsStays DEF Moved, TakesTurns
<1>6. JobsOK'
  BY <1>1, <1>3, <1>5, JobsStayOK
<1>7. Alone'
  BY <1>1, <1>4, <1>5, AloneKept DEF Alone
<1>8. Unowned' \subseteq Unowned \cup {b}
  <2>1. jobs' = [jobs EXCEPT ![j] = x] /\ sessions' = sessions
    BY <1>4
  <2> QED
    BY <1>1, <2>1, MakerLoses
<1>9. LeaksBounded'
  BY <1>1, <1>8, OneLost
<1> QED
  BY <1>6, <1>7, <1>9 DEF AgentInv

LEMMA CreatesTyped ==
    ASSUME ManagersTypeOK, NEW b \in Boxes, NEW fault \in BOOLEAN, Create(b, fault)
    PROVE  /\ ManagersTypeOK' /\ boxes' = boxes \cup {b} /\ exists' = exists \cup {b}
           /\ b \notin exists
BY DEF ManagersTypeOK, Create, FreshBox, LocalCreate, DockerCreate, E2BCreate, Comes

LEMMA ProvisionStartsKeeps ==
    ASSUME AgentInv, NEW j \in JobIds, ProvisionStarts(j) PROVE AgentInv'
<1>1. /\ jobs[j].kind = "provision_sandbox" /\ jobs[j].pc = "queued" /\ jobs[j].box = None
      /\ troubles \in 0 .. MaxTroubles /\ jobs[j] \in Job /\ Active(jobs[j])
  BY HoldsNow DEF ProvisionStarts, At, Holds, OnSession, Making, Active
<1>2. PICK F \in Faults(j, {"sandbox"}), b \in Boxes :
         /\ \/ /\ F = {} /\ Create(b, FALSE)
               /\ jobs' = [jobs EXCEPT ![j].pc = "clone", ![j].box = b]
               /\ UNCHANGED abandoned
            \/ F # {} /\ Create(b, TRUE) /\ Abandons(j)
            \/ F # {} /\ Fails(j) /\ UNCHANGED <<managerVars, abandoned>>
         /\ Counts(j, F)
  BY DEF ProvisionStarts
<1>3. /\ troubles' \in 0 .. MaxTroubles /\ abandoned \in Nat
      /\ ManagersTypeOK /\ JobsOK /\ Alone /\ LeaksBounded /\ RowsOK /\ boxes \in SUBSET Boxes
      /\ exists \in SUBSET Boxes
  BY <1>1, <1>2, OpsFinite, TroublesCounted
     DEF AgentInv, RowsOK, CountersOK, ManagersTypeOK
<1>4. /\ UNCHANGED <<sessions, work, generation, stopper, prs, agentRuns, miscounts, repeats>>
      /\ RowsStay(sessions, sessions')
  BY DEF ProvisionStarts, pipelineVars, RowsStay
<1>5. ASSUME F = {}, Create(b, FALSE), jobs' = [jobs EXCEPT ![j].pc = "clone", ![j].box = b],
             UNCHANGED abandoned
      PROVE  AgentInv'
  <2>1. ManagersTypeOK' /\ boxes' = boxes \cup {b} /\ exists' = exists \cup {b} /\ b \notin exists
    BY <1>3, <1>5, CreatesTyped
  <2>2. RowsOK' /\ CountersOK'
    BY <1>3, <1>4, <1>5, <2>1 DEF RowsOK, AgentInv, CountersOK
  <2> DEFINE x == [jobs[j] EXCEPT !.pc = "clone", !.box = b]
  <2>3. x \in Job /\ x.kind = "provision_sandbox" /\ x.pc = "clone" /\ x.box = b
    BY <1>1 DEF Job
  <2>4. jobs' = [jobs EXCEPT ![j] = x]
    BY <1>3, <1>5 DEF JobsOK
  <2> HIDE DEF x
  <2>5. Holds(x, boxes', sessions') /\ Moved(j, x) /\ TakesTurns(j, x)
    BY <1>1, <2>1, <2>3, <2>4 DEF Holds, Making, OnSession, Moved, TakesTurns
  <2>6. JobsOK'
    BY <1>3, <1>4, <2>1, <2>5, JobsStayOK
  <2>7. Alone'
    BY <1>3, <1>4, <2>3, <2>5, AloneKept DEF Alone
  <2>8. Unowned' \subseteq Unowned
    <3> SUFFICES ASSUME NEW c \in exists', sessions[c].status = "none",
                        ~ \E i \in JobIds : jobs'[i].box = c /\ Executing(i)',
                        c \notin Unowned
                 PROVE  FALSE
      BY <1>4 DEF Unowned, Owned
    <3>1. jobs'[j] = x /\ Executing(j)'
      BY <1>3, <2>3, <2>4 DEF Executing, JobsOK
    <3>2. c \in exists /\ c # b
      BY <2>1, <2>3, <3>1
    <3>3. PICK i \in JobIds : jobs[i].box = c /\ Executing(i)
      BY <3>2 DEF Unowned, Owned
    <3>4. i # j
      BY <1>1, <3>3 DEF Executing
    <3> QED
      BY <1>3, <2>4, <3>3, <3>4 DEF Executing, JobsOK
  <2>9. LeaksBounded'
    <3>1. IsFiniteSet(exists)
      BY <1>3 DEF LeaksBounded
    <3>2. IsFiniteSet(exists')
      BY <2>1, <3>1, FS_AddElement
    <3>3. IsFiniteSet(Unowned)
      BY <3>1, FS_Subset DEF Unowned
    <3>4. Cardinality(Unowned') <= Cardinality(Unowned) /\ Cardinality(Unowned') \in Nat
          /\ Cardinality(Unowned) \in Nat
      BY <2>8, <3>3, FS_Subset, FS_CardinalityType
    <3> QED
      BY <1>3, <1>5, <3>2, <3>4 DEF LeaksBounded
  <2> QED
    BY <2>2, <2>6, <2>7, <2>9 DEF AgentInv
<1>6. ASSUME Create(b, TRUE), Abandons(j) PROVE AgentInv'
  <2>1. ManagersTypeOK' /\ boxes' = boxes \cup {b} /\ exists' = exists \cup {b}
    BY <1>3, <1>6, CreatesTyped
  <2>2. Fails(j) /\ abandoned' = abandoned + 1
    BY <1>6 DEF Abandons
  <2>3. RowsOK' /\ CountersOK'
    BY <1>3, <1>4, <2>1, <2>2 DEF RowsOK, AgentInv, CountersOK
  <2>4. boxes \subseteq boxes' /\ boxes' \in SUBSET Boxes /\ exists' \subseteq exists \cup {b}
    BY <1>3, <2>1
  <2> QED
    BY <1>1, <1>4, <2>2, <2>3, <2>4, AbandonsKeeps
<1>7. ASSUME Fails(j), UNCHANGED <<managerVars, abandoned>> PROVE AgentInv'
  <2>1. RowsOK' /\ CountersOK' /\ boxes' = boxes /\ exists' = exists
    BY <1>3, <1>4, <1>7 DEF RowsOK, AgentInv, CountersOK, ManagersTypeOK, managerVars
  <2>2. repeats = 0 => generation'.files # "other"
    BY <1>3, <1>4 DEF Alone
  <2> QED
    BY <1>1, <1>4, <1>7, <2>1, <2>2, FailsMove, QuietStep DEF Making
<1> QED
  BY <1>2, <1>5, <1>6, <1>7

LEMMA ProvisionEndsKeeps ==
    ASSUME AgentInv, NEW j \in JobIds, ProvisionEnds(j) PROVE AgentInv'
<1> DEFINE b == jobs[j].box
<1>1. /\ jobs[j].kind = "provision_sandbox" /\ jobs[j].pc = "clone" /\ b \in boxes
      /\ troubles \in 0 .. MaxTroubles /\ jobs[j] \in Job /\ Holds(jobs[j], boxes, sessions)
      /\ Active(jobs[j])
  BY HoldsNow DEF ProvisionEnds, At, Holds, Making, Active
<1>2. \/ Provisioned(b) /\ Goto(j, "write") /\ UNCHANGED <<abandoned, troubles>>
      \/ CleanupOnError(b, FALSE) /\ Fails(j) /\ UNCHANGED <<abandoned, troubles>>
      \/ /\ troubles < MaxTroubles /\ troubles' = troubles + 1
         /\ CleanupOnError(b, TRUE) /\ Abandons(j)
  BY DEF ProvisionEnds
<1>3. troubles' \in 0 .. MaxTroubles
  <2>1. troubles' = troubles \/ (troubles < MaxTroubles /\ troubles' = troubles + 1)
    BY <1>2
  <2> QED
    BY <1>1, <2>1, AgentAssumption
<1>4. /\ JobsOK /\ RowsOK /\ Alone /\ LeaksBounded /\ ManagersTypeOK /\ boxes \in SUBSET Boxes
      /\ abandoned \in Nat /\ exists \in SUBSET boxes
  BY DEF AgentInv, RowsOK, CountersOK, ManagersTypeOK
<1>5. /\ UNCHANGED <<sessions, work, generation, stopper, prs, agentRuns, miscounts, repeats>>
      /\ RowsStay(sessions, sessions')
      /\ (repeats = 0 => generation'.files # "other")
  BY DEF ProvisionEnds, pipelineVars, RowsStay, AgentInv, Alone
<1>6. CASE Provisioned(b) /\ Goto(j, "write") /\ UNCHANGED <<abandoned, troubles>>
  <2>1. ManagersTypeOK' /\ boxes' = boxes /\ exists' = exists
    BY <1>1, <1>4, <1>6 DEF Provisioned, LocalProvisioned, DockerProvisioned,
                            E2BProvisioned, ManagersTypeOK
  <2> DEFINE x == [jobs[j] EXCEPT !.pc = "write"]
  <2>2. x \in Job /\ x.kind = "provision_sandbox" /\ x.pc = "write" /\ x.box = b
    BY <1>1 DEF Job
  <2>3. jobs' = [jobs EXCEPT ![j] = x]
    BY <1>6 DEF Goto
  <2> HIDE DEF x
  <2>4. Holds(x, boxes', sessions') /\ Moved(j, x) /\ TakesTurns(j, x)
    BY <1>1, <2>1, <2>2, <2>3 DEF Holds, Making, OnSession, Moved, TakesTurns
  <2>5. RowsOK' /\ CountersOK'
    BY <1>3, <1>4, <1>5, <1>6, <2>1 DEF RowsOK, AgentInv, CountersOK
  <2> QED
    BY <1>1, <1>5, <1>6, <2>1, <2>2, <2>4, <2>5, TrackedStep DEF Making
<1>7. CASE CleanupOnError(b, FALSE) /\ Fails(j) /\ UNCHANGED <<abandoned, troubles>>
  <2>1. ManagersTypeOK' /\ boxes' = boxes /\ exists' = exists \ {b}
    BY <1>4, <1>7, ManagersAssumption
       DEF CleanupOnError, Destroy, LocalDestroy, DockerDestroy, E2BDestroy, ManagersTypeOK
  <2>2. RowsOK' /\ CountersOK'
    BY <1>3, <1>4, <1>5, <1>7, <2>1 DEF RowsOK, AgentInv, CountersOK
  <2> DEFINE x == Retried(j)
  <2>3. Moved(j, x) /\ Holds(x, boxes', sessions') /\ x.pc \in {"queued", "discarded"}
    BY <1>5, <1>7, <2>1, FailsMove
  <2>4. jobs' = [jobs EXCEPT ![j] = x]
    BY <1>7 DEF Fails
  <2> HIDE DEF x
  <2>5. JobsOK'
    BY <1>4, <1>5, <2>1, <2>3, JobsStayOK
  <2>6. Alone'
    BY <1>1, <1>4, <1>5, <2>3, AloneKept DEF TakesTurns
  <2>7. \A i \in JobIds : jobs[i].pc \in Making =>
            \/ jobs'[i].pc \in Making /\ jobs'[i].box = jobs[i].box
            \/ jobs[i].box \notin exists'
            \/ sessions'[jobs[i].box].status # "none"
    BY <1>4, <2>1, <2>4 DEF JobsOK
  <2>8. LeaksBounded'
    BY <1>4, <1>5, <1>7, <2>1, <2>7, MakersKeepTrack
  <2> QED
    BY <1>5, <2>2, <2>5, <2>6, <2>8 DEF AgentInv
<1>8. CASE CleanupOnError(b, TRUE) /\ Abandons(j)
  <2>1. ManagersTypeOK' /\ boxes' = boxes /\ exists' = exists
    BY <1>4, <1>8 DEF CleanupOnError, Destroy, LocalDestroy, DockerDestroy, E2BDestroy,
                      ManagersTypeOK
  <2>2. Fails(j) /\ abandoned' = abandoned + 1
    BY <1>8 DEF Abandons
  <2>3. RowsOK' /\ CountersOK'
    BY <1>3, <1>4, <1>5, <2>1, <2>2 DEF RowsOK, AgentInv, CountersOK
  <2>4. boxes \subseteq boxes' /\ boxes' \in SUBSET Boxes /\ exists' \subseteq exists \cup {b}
    BY <1>4, <2>1
  <2> QED
    BY <1>1, <1>5, <2>2, <2>3, <2>4, AbandonsKeeps
<1> QED
  BY <1>2, <1>6, <1>7, <1>8

LEMMA WriteInstructionsKeeps ==
    ASSUME AgentInv, NEW j \in JobIds, WriteInstructions(j) PROVE AgentInv'
<1> DEFINE b == jobs[j].box
<1>1. /\ jobs[j].kind = "provision_sandbox" /\ jobs[j].pc = "write" /\ b \in boxes
      /\ troubles \in 0 .. MaxTroubles /\ jobs[j] \in Job /\ Holds(jobs[j], boxes, sessions)
      /\ Active(jobs[j])
  BY HoldsNow DEF WriteInstructions, At, Holds, Making, Active
<1>2. PICK F \in Faults(j, {"files"}) :
         /\ IF F = {} /\ WriteFiles(b, jobs[j].ctx = "live")
            THEN Goto(j, "insert") /\ UNCHANGED abandoned
            ELSE Abandons(j)
         /\ Counts(j, F)
  BY DEF WriteInstructions
<1>3. troubles' \in 0 .. MaxTroubles
  BY <1>1, <1>2, OpsFinite, TroublesCounted
<1>4. UNCHANGED <<managerVars, pipelineVars, prs, agentRuns, miscounts, repeats>>
  BY DEF WriteInstructions
<1>5. /\ RowsOK' /\ RowsStay(sessions, sessions') /\ UNCHANGED <<boxes, exists, sessions>>
      /\ (repeats = 0 => generation'.files # "other")
      /\ UNCHANGED <<generation, repeats>>
  BY <1>4, SameRows DEF pipelineVars
<1>6. CASE Goto(j, "insert") /\ UNCHANGED abandoned
  <2>1. CountersOK'
    BY <1>3, <1>4, <1>6 DEF AgentInv, CountersOK
  <2> DEFINE x == [jobs[j] EXCEPT !.pc = "insert"]
  <2>2. x \in Job /\ x.kind = "provision_sandbox" /\ x.pc = "insert" /\ x.box = b
    BY <1>1 DEF Job
  <2>3. jobs' = [jobs EXCEPT ![j] = x]
    BY <1>6 DEF Goto
  <2> HIDE DEF x
  <2>4. Holds(x, boxes', sessions') /\ Moved(j, x) /\ TakesTurns(j, x)
    BY <1>1, <1>5, <2>2, <2>3 DEF Holds, Making, OnSession, Moved, TakesTurns
  <2> QED
    BY <1>1, <1>5, <1>6, <2>1, <2>2, <2>4, TrackedStep DEF Making
<1>7. CASE Abandons(j)
  <2>1. Fails(j) /\ abandoned' = abandoned + 1
    BY <1>7 DEF Abandons
  <2>2. CountersOK'
    BY <1>3, <1>4, <2>1 DEF AgentInv, CountersOK
  <2>3. boxes \subseteq boxes' /\ boxes' \in SUBSET Boxes /\ exists' \subseteq exists \cup {b}
    BY <1>5 DEF AgentInv, RowsOK, ManagersTypeOK
  <2> QED
    BY <1>1, <1>5, <2>1, <2>2, <2>3, AbandonsKeeps
<1> QED
  BY <1>2, <1>6, <1>7

LEMMA CreateSessionKeeps ==
    ASSUME AgentInv, NEW j \in JobIds, CreateSession(j) PROVE AgentInv'
<1> DEFINE b == jobs[j].box
<1>1. /\ jobs[j].kind = "provision_sandbox" /\ jobs[j].pc = "insert" /\ b \in boxes
      /\ troubles \in 0 .. MaxTroubles /\ jobs[j] \in Job /\ Holds(jobs[j], boxes, sessions)
      /\ Active(jobs[j])
  BY HoldsNow DEF CreateSession, At, Holds, Making, Active
<1>2. PICK F \in Faults(j, {"session", "insert"}) :
         /\ IF "session" \in F \/ ~CreateAdmitted
            THEN Abandons(j) /\ UNCHANGED sessions
            ELSE /\ CreateSandboxSession(b)
                 /\ Chains(j, Successor(j, "run_agent"), "insert" \notin F)
                 /\ UNCHANGED abandoned
         /\ Counts(j, F)
  BY DEF CreateSession
<1>3. troubles' \in 0 .. MaxTroubles
  BY <1>1, <1>2, OpsFinite, TroublesCounted
<1>4. UNCHANGED <<managerVars, work, generation, stopper, prs, agentRuns, miscounts, repeats>>
  BY DEF CreateSession
<1>5. /\ JobsOK /\ RowsOK /\ Alone /\ LeaksBounded /\ ManagersTypeOK /\ boxes \in SUBSET Boxes
      /\ abandoned \in Nat /\ UNCHANGED <<boxes, exists>>
  BY <1>4 DEF AgentInv, RowsOK, CountersOK, ManagersTypeOK, managerVars
<1>6. CASE "session" \in F \/ ~CreateAdmitted
  <2>1. Fails(j) /\ abandoned' = abandoned + 1 /\ UNCHANGED sessions
    BY <1>2, <1>6 DEF Abandons
  <2>2. CountersOK' /\ RowsOK'
    BY <1>3, <1>4, <1>5, <2>1 DEF AgentInv, CountersOK, RowsOK, ManagersTypeOK, managerVars
  <2>3. boxes \subseteq boxes' /\ boxes' \in SUBSET Boxes /\ exists' \subseteq exists \cup {b}
    BY <1>5
  <2> QED
    BY <1>1, <1>4, <2>1, <2>2, <2>3, AbandonsKeeps
<1>7. CASE ~("session" \in F \/ ~CreateAdmitted)
  <2> DEFINE row == [NoSession EXCEPT !.status = "provisioned"]
             y == Successor(j, "run_agent")
  <2>1. row \in Session /\ row.status = "provisioned"
    BY RetriesAreCounted DEF Session, NoSession, Statuses
  <2>2. sessions' = [sessions EXCEPT ![b] = row] /\ Chains(j, y, "insert" \notin F)
        /\ abandoned' = abandoned
    BY <1>2, <1>7 DEF CreateSandboxSession
  <2> HIDE DEF row, y
  <2>3. /\ sessions' \in [Boxes -> Session] /\ RowsStay(sessions, sessions')
        /\ sessions'[b].status # "none"
    BY <1>1, <1>5, <2>1, <2>2 DEF RowsOK, RowsStay
  <2>4. RowsOK' /\ CountersOK'
    BY <1>3, <1>4, <1>5, <2>2, <2>3 DEF AgentInv, RowsOK, CountersOK, ManagersTypeOK, managerVars
  <2>5. Holds(jobs[j], boxes', sessions')
    BY <1>1, <1>5, <2>3, HoldsStays
  <2>6. y \in Job /\ y.pc = "queued" /\ Holds(y, boxes', sessions')
    BY <1>1, <1>5, <2>3, <2>5, SuccessorHolds DEF Kinds, OnSession, y
  <2> DEFINE x == Returns(j)
  <2>7. Moved(j, x)
    BY <1>1, <2>2, <2>6, ChainsMove DEF Gone
  <2>8. Holds(x, boxes', sessions') /\ x.pc = "report"
    BY <2>5, ReturnsHold
  <2> HIDE DEF x
  <2>9. JobsOK'
    BY <1>5, <2>3, <2>7, <2>8, JobsStayOK
  <2>10. Alone'
    BY <1>1, <1>4, <1>5, <2>7, <2>8, AloneKept DEF TakesTurns, Alone
  <2>11. \A i \in JobIds : jobs[i].pc \in Making =>
            \/ jobs'[i].pc \in Making /\ jobs'[i].box = jobs[i].box
            \/ jobs[i].box \notin exists'
            \/ sessions'[jobs[i].box].status # "none"
    <3>1. \A i \in JobIds : Gone(i) => jobs[i].pc \notin Making
      BY DEF Gone, Making
    <3>2. \A i \in JobIds \ {j} : jobs[i].pc \in Making => jobs'[i] = jobs[i]
      BY <1>5, <2>7, <3>1, WhoMoved
    <3> QED
      BY <2>3, <3>2
  <2>12. LeaksBounded'
    BY <1>5, <2>2, <2>3, <2>11, MakersKeepTrack
  <2> QED
    BY <2>4, <2>9, <2>10, <2>12 DEF AgentInv
<1> QED
  BY <1>6, <1>7
-----------------------------------------------------------------------------
LEMMA UnionBound ==
    ASSUME NEW S, NEW T, IsFiniteSet(S), IsFiniteSet(T)
    PROVE  /\ IsFiniteSet(S \cup T)
           /\ Cardinality(S \cup T) <= Cardinality(S) + Cardinality(T)
<1>1. Cardinality(S) \in Nat /\ Cardinality(T) \in Nat
  BY FS_CardinalityType
<1>2. Cardinality(S \cap T) \in Nat
  BY FS_Intersection, FS_CardinalityType
<1>3. Cardinality(S \cup T) = Cardinality(S) + Cardinality(T) - Cardinality(S \cap T)
      /\ IsFiniteSet(S \cup T)
  BY FS_Union
<1> QED
  BY <1>1, <1>2, <1>3

(* The worker process dies: every provision_sandbox at work loses its own. *)
Makers == {j \in JobIds : jobs[j].pc \in Making}

LEMMA CrashKeeps ==
    ASSUME AgentInv, Crash PROVE AgentInv'
<1>1. /\ JobsOK /\ RowsOK /\ Alone /\ LeaksBounded /\ ManagersTypeOK /\ boxes \in SUBSET Boxes
      /\ exists \in SUBSET Boxes /\ abandoned \in Nat /\ troubles \in 0 .. MaxTroubles
  BY DEF AgentInv, RowsOK, CountersOK, ManagersTypeOK
<1>2. /\ troubles < MaxTroubles /\ troubles' = troubles + 1 /\ known' = {}
      /\ abandoned' = abandoned + Cardinality(Makers)
      /\ UNCHANGED <<provider, boxes, exists, sessions, work, generation, stopper, prs, agentRuns,
                     miscounts, repeats>>
  BY DEF Crash, Makers, Making, pipelineVars
<1>3. jobs' = [j \in JobIds |-> IF Executing(j)
                                THEN [Arguments(j) EXCEPT !.pc = "lost"] ELSE jobs[j]]
  BY DEF Crash
<1>4. IsFiniteSet(Makers) /\ Cardinality(Makers) \in Nat
  BY AgentAssumption, FS_Subset, FS_CardinalityType DEF Makers
<1>5. RowsOK' /\ CountersOK'
  BY <1>1, <1>2, <1>4, AgentAssumption DEF AgentInv, RowsOK, CountersOK, ManagersTypeOK
<1>6. ASSUME NEW j \in JobIds
      PROVE  /\ Holds(jobs'[j], boxes', sessions')
             /\ jobs'[j] = jobs[j] \/ jobs'[j].pc = "lost"
             /\ ~Executing(j) => jobs'[j] = jobs[j]
             /\ Executing(j) => jobs'[j].pc = "lost"
  <2>1. Holds(jobs[j], boxes, sessions) /\ UNCHANGED <<boxes, sessions>>
    BY <1>1, <1>2 DEF JobsOK
  <2>2. CASE Executing(j)
    BY <1>3, <2>1, <2>2, LostHolds
  <2>3. CASE ~Executing(j)
    BY <1>3, <2>1, <2>3
  <2> QED
    BY <2>2, <2>3
<1>7. JobsOK'
  <2>1. jobs' \in [JobIds -> Job]
    BY <1>3, <1>6 DEF Holds
  <2> QED
    BY <1>6, <2>1 DEF JobsOK
<1>8. Alone'
  <2> SUFFICES ASSUME repeats = 0
               PROVE  OneActive' /\ \A i \in JobIds : jobs'[i].pc = "decide" => jobs'[i].fresh
    BY <1>1, <1>2 DEF Alone
  <2>1. OneActive /\ \A i \in JobIds : jobs[i].pc = "decide" => jobs[i].fresh
    BY <1>1 DEF Alone
  <2>2. OneActive'
    BY <1>6, <2>1 DEF OneActive, Active
  <2> QED
    BY <1>6, <2>1, <2>2
<1>9. LeaksBounded'
  <2> DEFINE box == [j \in Makers |-> jobs[j].box]
             Lost == {box[j] : j \in Makers}
  <2>1. box \in Surjection(Makers, Lost)
    BY DEF Surjection
  <2>2. IsFiniteSet(Lost) /\ Cardinality(Lost) <= Cardinality(Makers)
    BY <1>4, <2>1, FS_Surjection
  <2>3. Unowned' \subseteq Unowned \cup Lost
    <3> SUFFICES ASSUME NEW c \in exists, sessions[c].status = "none",
                        NEW i \in JobIds, jobs[i].box = c, Executing(i)
                 PROVE  c \in Lost
      BY <1>2 DEF Unowned, Owned
    <3>1. Holds(jobs[i], boxes, sessions) /\ c \in Boxes
      BY <1>1 DEF JobsOK
    <3>2. i \in Makers
      BY <3>1, NoneIsNoBox DEF Holds, Makers
    <3> QED
      BY <3>2
  <2>4. IsFiniteSet(exists) /\ IsFiniteSet(Unowned)
    BY <1>1, FS_Subset DEF LeaksBounded, Unowned
  <2> HIDE DEF Lost
  <2>5. IsFiniteSet(Unowned \cup Lost)
        /\ Cardinality(Unowned \cup Lost) <= Cardinality(Unowned) + Cardinality(Lost)
    BY <2>2, <2>4, UnionBound
  <2>6. Cardinality(Unowned') <= Cardinality(Unowned \cup Lost)
    BY <2>3, <2>5, FS_Subset
  <2>7. /\ Cardinality(Unowned) \in Nat /\ Cardinality(Lost) \in Nat
        /\ Cardinality(Unowned \cup Lost) \in Nat /\ Cardinality(Unowned') \in Nat
    BY <2>2, <2>3, <2>4, <2>5, FS_Subset, FS_CardinalityType
  <2>8. Cardinality(Unowned) <= abandoned
    BY <1>1 DEF LeaksBounded
  <2>9. Cardinality(Unowned') <= abandoned'
    BY <1>1, <1>2, <1>4, <2>2, <2>5, <2>6, <2>7, <2>8
  <2> QED
    BY <1>2, <2>4, <2>9 DEF LeaksBounded
<1> QED
  BY <1>5, <1>7, <1>8, <1>9 DEF AgentInv
-----------------------------------------------------------------------------
LEMMA AgentInitially == AgentInit => AgentInv
<1> SUFFICES ASSUME AgentInit PROVE AgentInv
  OBVIOUS
<1>1. RowsOK
  BY RetriesAreCounted DEF AgentInit, ManagersInit, ManagersTypeOK, RowsOK, NoSession, Session
<1>2. CountersOK
  BY AgentAssumption DEF AgentInit, CountersOK
<1> DEFINE first == [Idle EXCEPT !.kind = "prepare_context", !.pc = "queued"]
<1>3. Holds(first, boxes, sessions) /\ first.pc = "queued"
  <2>1. first \in Job /\ first.kind = "prepare_context" /\ first.pc = "queued" /\ first.box = None
    <3>1. 0 \in 0 .. MaxAttempts - 1 /\ 0 \in 0 .. normalizeMaxRetries
      BY AgentAssumption, RetriesAreCounted
    <3> QED
      BY <3>1 DEF Idle, Job, Kinds
  <2> HIDE DEF first
  <2> QED
    BY <2>1 DEF Holds, OnSession, Making
<1>4. jobs = [j \in JobIds |-> IF \A i \in JobIds : j <= i THEN first ELSE Idle]
  BY DEF AgentInit, CreateAgentCodegenPipeline
<1> HIDE DEF first
<1>5. JobsOK
  <2>1. \A j \in JobIds : Holds(jobs[j], boxes, sessions)
    BY <1>3, <1>4, IdleHolds
  <2>2. jobs \in [JobIds -> Job]
    BY <1>4, <2>1 DEF Holds
  <2> QED
    BY <2>1, <2>2 DEF JobsOK
<1>6. Alone
  <2>1. OneActive
    BY <1>4, IdleHolds, AgentAssumption DEF OneActive, Active
  <2> QED
    BY <1>3, <1>4, <2>1, IdleHolds DEF Alone, AgentInit
<1>7. LeaksBounded
  <2>1. exists = {} /\ Unowned = {} /\ abandoned = 0
    BY DEF AgentInit, ManagersInit, Unowned
  <2> QED
    BY <2>1, FS_EmptySet DEF LeaksBounded
<1> QED
  BY <1>1, <1>2, <1>5, <1>6, <1>7 DEF AgentInv

LEMMA AgentInductive ==
    ASSUME AgentInv, [AgentNext]_vars PROVE AgentInv'
<1>1. ASSUME NEW j \in JobIds, Step(j) PROVE AgentInv'
  <2>1. CASE Report(j) \/ Rescue(j)
    BY <2>1, ReportKeeps, RescueKeeps
  <2>2. CASE PrepareContextWork(j)
    BY <2>2, PrepareContextKeeps DEF PrepareContextWork
  <2>3. CASE ProvisionSandboxWork(j)
    BY <2>3, ProvisionStartsKeeps, ProvisionEndsKeeps, WriteInstructionsKeeps, CreateSessionKeeps
       DEF ProvisionSandboxWork
  <2>4. CASE RunAgentWork(j)
    BY <2>4, RunAgentStartsKeeps, ProviderUnknownKeeps, BuildKeeps, AgentKeeps, SaveRunKeeps
       DEF RunAgentWork
  <2>5. CASE ValidateOutputWork(j)
    BY <2>5, ValidateStartsKeeps, RunCommandsKeeps, RetryAgentKeeps, GiveUpKeeps,
       CollectChangesKeeps, FinishKeeps DEF ValidateOutputWork
  <2> QED
    BY <1>1, <2>1, <2>2, <2>3, <2>4, <2>5 DEF Step
<1>2. CASE UNCHANGED vars
  <2>1. Unowned' = Unowned
    BY <1>2 DEF vars, managerVars, pipelineVars, Unowned, Owned, Executing
  <2> QED
    BY <1>2, <2>1 DEF vars, managerVars, pipelineVars, history, AgentInv, JobsOK, RowsOK,
       ManagersTypeOK, CountersOK, Alone, OneActive, LeaksBounded
<1> QED
  BY <1>1, <1>2, TimeoutKeeps, CrashKeeps, StopKeeps DEF AgentNext

LEMMA AgentAlwaysSound == AgentSpec => []AgentInv
BY AgentInitially, AgentInductive, PTL DEF AgentSpec

(* Every variable keeps its type: in particular a job past                 *)
(* provision_sandbox always names a sandbox that was made, and no count of *)
(* the retry loop passes the limit (agent_provision.go, agent_run.go,      *)
(* agent_validate.go).                                                     *)
THEOREM AgentTypeCorrect == AgentSpec => []AgentTypeOK
<1>1. AgentInv /\ readable \in BOOLEAN => AgentTypeOK
  BY DEF AgentInv, JobsOK, RowsOK, CountersOK, AgentTypeOK
<1>2. AgentSpec => [](readable \in BOOLEAN)
  <2>1. AgentInit => readable \in BOOLEAN
    BY AgentAssumption DEF AgentInit
  <2>2. readable \in BOOLEAN /\ [AgentNext]_vars => (readable \in BOOLEAN)'
    BY DEF AgentNext, vars
  <2> QED
    BY <2>1, <2>2, PTL DEF AgentSpec
<1> QED
  BY <1>1, <1>2, AgentAlwaysSound, PTL

(* What is stored in the generation is what was validated, as long as      *)
(* River rescues no job: nothing else can put two jobs of the pipeline on  *)
(* one sandbox (ValidateOutputWorker.Work).                                *)
THEOREM StoredWorkIsValidated == AgentSpec => []GenerationHoldsValidatedWork
<1>1. AgentInv => GenerationHoldsValidatedWork
  BY DEF AgentInv, Alone, GenerationHoldsValidatedWork
<1> QED
  BY <1>1, AgentAlwaysSound, PTL

(* The sandboxes that belong to nobody are at most those provision_sandbox *)
(* has left behind: in a failure after Provision, in a crash, or because   *)
(* the clean-up of a failed Provision failed (ProvisionSandboxWorker.Work, *)
(* Provision and Destroy of the three managers).                           *)
THEOREM EveryLeakIsCounted == AgentSpec => []LeaksCounted
<1>1. AgentInv => LeaksCounted
  BY DEF AgentInv, LeaksBounded, Unowned, LeaksCounted
<1> QED
  BY <1>1, AgentAlwaysSound, PTL
-----------------------------------------------------------------------------
(* The retry loop.  A job's count and the row's never run ahead of the     *)
(* executions of the agent; and as long as River rescues nothing, the      *)
(* executions never run ahead of the one job that goes on with the loop.   *)
Round(job) == job.count + IF job.kind = "validate_output" \/ job.pc = "save" THEN 1 ELSE 0
KeptUp(job, runs) == Round(job) <= runs

OnRow(job) == job.kind = "run_agent" /\ job.pc = "queued"
Spent(job, runs, rows, missed) ==
    /\ job.kind \notin OnSession => runs <= missed
    /\ OnRow(job) => runs <= rows[job.box].retries + missed
    /\ job.kind \in OnSession /\ ~OnRow(job) =>
         /\ runs <= Round(job) + missed
         /\ job.count <= rows[job.box].retries

LoopRan ==
    /\ \A j \in JobIds : KeptUp(jobs[j], agentRuns)
    /\ \A b \in Boxes : sessions[b].retries <= agentRuns
    /\ generation.status = "failed" => agentRuns > normalizeMaxRetries
LoopSpent ==
    repeats = 0 =>
        /\ agentRuns <= normalizeMaxRetries + 1 + miscounts
        /\ \A j \in JobIds :
             Active(jobs[j]) => Spent(jobs[j], agentRuns, sessions, miscounts)
LoopInv == LoopRan /\ LoopSpent

(* After the step of job j every job is x, y or what it was.               *)
Among(j, x, y) ==
    \A i \in JobIds : \/ jobs'[i] = x \/ jobs'[i] = y
                      \/ i # j /\ jobs'[i] = jobs[i]

LEMMA OtherJobsRest ==
    ASSUME AgentInv, NEW j \in JobIds, Active(jobs[j]), repeats = 0,
           NEW i \in JobIds, i # j
    PROVE  ~Active(jobs[i])
BY DEF AgentInv, Alone, OneActive

(* A step of the loop that does not execute the agent.                     *)
LEMMA LoopGoes ==
    ASSUME AgentInv, LoopInv, NEW j \in JobIds, Active(jobs[j]), NEW x, NEW y, Among(j, x, y),
           agentRuns' = agentRuns, repeats' = repeats, miscounts' \in Nat,
           miscounts <= miscounts', KeptUp(x, agentRuns), KeptUp(y, agentRuns),
           \A b \in Boxes : sessions'[b].retries <= agentRuns,
           generation'.status = "failed" => agentRuns > normalizeMaxRetries,
           repeats = 0 /\ Active(x) => Spent(x, agentRuns, sessions', miscounts'),
           repeats = 0 /\ Active(y) => Spent(y, agentRuns, sessions', miscounts')
    PROVE  LoopInv'
<1>1. LoopRan'
  BY DEF LoopInv, LoopRan, Among
<1>2. ASSUME repeats = 0
      PROVE  /\ agentRuns <= normalizeMaxRetries + 1 + miscounts'
             /\ \A i \in JobIds :
                  Active(jobs'[i]) => Spent(jobs'[i], agentRuns, sessions', miscounts')
  <2>1. agentRuns <= normalizeMaxRetries + 1 + miscounts'
    <3>1. agentRuns <= normalizeMaxRetries + 1 + miscounts
      BY <1>2 DEF LoopInv, LoopSpent
    <3>2. agentRuns \in Nat /\ miscounts \in Nat
      BY DEF AgentInv, CountersOK
    <3>3. normalizeMaxRetries \in Nat /\ miscounts' \in Nat /\ miscounts <= miscounts'
      BY RetriesAreCounted
    <3>4. \A a, n, m, k \in Nat : a <= n + 1 + m /\ m <= k => a <= n + 1 + k
      OBVIOUS
    <3> QED
      BY <3>1, <3>2, <3>3, <3>4
  <2>2. \A i \in JobIds : i # j => ~Active(jobs[i])
    BY <1>2, OtherJobsRest
  <2> QED
    BY <1>2, <2>1, <2>2 DEF Among
<1>3. LoopSpent'
  BY <1>2 DEF LoopSpent
<1> QED
  BY <1>1, <1>3 DEF LoopInv

(* What the invariants say of the job that moves.                          *)
LEMMA LoopAt ==
    ASSUME AgentInv, LoopInv, NEW j \in JobIds
    PROVE  /\ KeptUp(jobs[j], agentRuns) /\ jobs[j].count \in 0 .. normalizeMaxRetries
           /\ agentRuns \in Nat /\ miscounts \in Nat /\ normalizeMaxRetries \in Nat
           /\ \A b \in Boxes : sessions[b].retries <= agentRuns
           /\ generation.status = "failed" => agentRuns > normalizeMaxRetries
           /\ repeats = 0 /\ Active(jobs[j]) => Spent(jobs[j], agentRuns, sessions, miscounts)
           /\ \A b \in Boxes : sessions[b].retries \in 0 .. normalizeMaxRetries
<1>1. jobs[j].count \in 0 .. normalizeMaxRetries
  BY HoldsNow DEF Job
<1>2. \A b \in Boxes : sessions[b].retries \in 0 .. normalizeMaxRetries
  BY DEF AgentInv, RowsOK, Session
<1> QED
  BY <1>1, <1>2, RetriesAreCounted DEF LoopInv, LoopRan, LoopSpent, AgentInv, CountersOK

(* The forms in which a job is left.                                       *)
LEMMA ArgumentsCount ==
    ASSUME AgentInv, NEW j \in JobIds
    PROVE  Arguments(j).count = IF jobs[j].kind = "run_agent" THEN 0 ELSE jobs[j].count
BY HoldsNow DEF Arguments, Job

LEMMA RetriedSpent ==
    ASSUME AgentInv, LoopInv, NEW j \in JobIds, jobs[j].pc # "save"
    PROVE  /\ KeptUp(Retried(j), agentRuns)
           /\ repeats = 0 /\ Active(jobs[j]) /\ Active(Retried(j)) =>
                Spent(Retried(j), agentRuns, sessions, miscounts)
<1>1. /\ Arguments(j) \in Job /\ Arguments(j).box = KeptBox(jobs[j])
      /\ Arguments(j).kind = jobs[j].kind
      /\ Arguments(j).count = IF jobs[j].kind = "run_agent" THEN 0 ELSE jobs[j].count
      /\ jobs[j] \in Job
  BY HoldsNow, ArgumentsTyped, ArgumentsCount
<1>2. CASE jobs[j].attempt + 1 < MaxAttempts
  <2> DEFINE w == [Arguments(j) EXCEPT !.pc = "queued", !.attempt = @ + 1]
  <2>1. /\ w.kind = jobs[j].kind /\ w.pc = "queued" /\ w.box = KeptBox(jobs[j])
        /\ w.count = IF jobs[j].kind = "run_agent" THEN 0 ELSE jobs[j].count
    BY <1>1 DEF Job
  <2>2. Retried(j) = w
    BY <1>2 DEF Retried
  <2> HIDE DEF w
  <2>3. KeptUp(w, agentRuns)
    BY <2>1, LoopAt DEF KeptUp, Round
  <2>4. ASSUME repeats = 0, Active(jobs[j]) PROVE Spent(w, agentRuns, sessions, miscounts)
    <3>1. Spent(jobs[j], agentRuns, sessions, miscounts)
      BY <2>4, LoopAt
    <3>2. CASE jobs[j].kind = "run_agent"
      <4>1. jobs[j].box \in Boxes /\ w.box = jobs[j].box
        BY <3>2, <2>1, HoldsNow DEF OnSession, KeptBox
      <4>2. agentRuns <= sessions[jobs[j].box].retries + miscounts
        BY <3>1, <3>2, <4>1, LoopAt DEF Spent, OnRow, OnSession, Round
      <4> QED
        BY <2>1, <3>2, <4>1, <4>2 DEF Spent, OnRow, OnSession
    <3>3. CASE jobs[j].kind # "run_agent"
      BY <2>1, <3>1, <3>3 DEF Spent, OnRow, OnSession, Round, KeptBox
    <3> QED
      BY <3>2, <3>3
  <2> QED
    BY <2>2, <2>3, <2>4
<1>3. CASE ~(jobs[j].attempt + 1 < MaxAttempts)
  <2>1. /\ Retried(j).kind = jobs[j].kind /\ Retried(j).pc = "discarded"
        /\ Retried(j).count = IF jobs[j].kind = "run_agent" THEN 0 ELSE jobs[j].count
    BY <1>1, <1>3 DEF Retried, Job
  <2> QED
    BY <2>1, LoopAt DEF KeptUp, Round, Active
<1> QED
  BY <1>2, <1>3

LEMMA ReturnsRan ==
    ASSUME AgentInv, LoopInv, NEW j \in JobIds
    PROVE  KeptUp(Returns(j), agentRuns) /\ ~Active(Returns(j))
<1>1. /\ Arguments(j) \in Job /\ Arguments(j).kind = jobs[j].kind
      /\ Arguments(j).count = IF jobs[j].kind = "run_agent" THEN 0 ELSE jobs[j].count
  BY HoldsNow, ArgumentsTyped, ArgumentsCount
<1>2. /\ Returns(j).pc = "report" /\ Returns(j).kind = jobs[j].kind
      /\ Returns(j).count = IF jobs[j].kind = "run_agent" THEN 0 ELSE jobs[j].count
  BY <1>1 DEF Returns, Job
<1> QED
  BY <1>2, LoopAt DEF KeptUp, Round, Active

LEMMA SuccessorCount ==
    ASSUME NEW j \in JobIds, NEW kind
    PROVE  /\ Successor(j, kind).kind = kind /\ Successor(j, kind).pc = "queued"
           /\ Successor(j, kind).box = jobs[j].box /\ Successor(j, kind).count = 0
BY DEF Successor, Idle

(* What a step that writes no count leaves alone.                          *)
CountsStay == \A b \in Boxes : sessions'[b].retries = sessions[b].retries
GenerationStays == generation'.status = "failed" => agentRuns > normalizeMaxRetries

LEMMA LoopStays ==
    ASSUME AgentInv, LoopInv, NEW j \in JobIds
    PROVE  /\ generation'.status = generation.status => GenerationStays
           /\ sessions' = sessions => CountsStay
           /\ CountsStay => \A b \in Boxes : sessions'[b].retries <= agentRuns
           /\ miscounts' = miscounts => miscounts' \in Nat /\ miscounts <= miscounts'
BY LoopAt DEF GenerationStays, CountsStay

LEMMA StatusKeepsCounts ==
    ASSUME AgentInv, NEW b \in Boxes, NEW status,
           UpdateSandboxSessionStatus(b, status) \/ UNCHANGED sessions
    PROVE  CountsStay
BY DEF AgentInv, RowsOK, Session, UpdateSandboxSessionStatus, CountsStay

LEMMA FailsLoops ==
    ASSUME AgentInv, LoopInv, NEW j \in JobIds, Active(jobs[j]), jobs[j].pc # "save", Fails(j),
           UNCHANGED <<agentRuns, repeats, miscounts>>, CountsStay, GenerationStays
    PROVE  LoopInv'
<1> DEFINE x == Retried(j)
<1>1. /\ KeptUp(x, agentRuns)
      /\ repeats = 0 /\ Active(x) => Spent(x, agentRuns, sessions, miscounts)
  BY RetriedSpent
<1>2. x.kind \in OnSession => x.box \in Boxes
  <2>1. Holds(x, boxes, sessions) /\ boxes \in SUBSET Boxes
    BY HoldsNow, RetriedHolds DEF AgentInv, RowsOK, ManagersTypeOK
  <2> QED
    BY <2>1 DEF Holds
<1>3. Among(j, x, x)
  BY DEF Fails, Among, AgentInv, JobsOK
<1> HIDE DEF x
<1>4. repeats = 0 /\ Active(x) => Spent(x, agentRuns, sessions', miscounts')
  BY <1>1, <1>2 DEF Spent, CountsStay, OnRow, OnSession
<1> QED
  BY <1>1, <1>3, <1>4, LoopGoes, LoopStays DEF GenerationStays

(* A step within a round.                                                  *)
LEMMA SameRound ==
    ASSUME AgentInv, LoopInv, NEW j \in JobIds, Active(jobs[j]),
           NEW x, jobs' = [jobs EXCEPT ![j] = x], x.kind = jobs[j].kind,
           x.kind \in OnSession => x.box = jobs[j].box,
           x.count = jobs[j].count, Round(x) = Round(jobs[j]), ~OnRow(x), ~OnRow(jobs[j]),
           UNCHANGED <<agentRuns, repeats, miscounts>>, CountsStay, GenerationStays
    PROVE  LoopInv'
<1>1. /\ KeptUp(x, agentRuns)
      /\ jobs[j].kind \in OnSession => jobs[j].box \in Boxes
      /\ repeats = 0 => Spent(jobs[j], agentRuns, sessions, miscounts)
  BY LoopAt, HoldsNow DEF KeptUp
<1>2. repeats = 0 => Spent(x, agentRuns, sessions', miscounts')
  BY <1>1 DEF Spent, CountsStay
<1>3. Among(j, x, x)
  BY DEF Among, AgentInv, JobsOK
<1> QED
  BY <1>1, <1>2, <1>3, LoopGoes, LoopStays DEF GenerationStays

LEMMA GotoLoops ==
    ASSUME AgentInv, LoopInv, NEW j \in JobIds, Active(jobs[j]),
           NEW pc \in {"write", "insert", "agent", "commands", "finish"}, Goto(j, pc),
           jobs[j].kind = "run_agent" => pc = "agent" /\ jobs[j].pc = "build",
           jobs[j].kind \notin OnSession => jobs[j].pc # "save",
           UNCHANGED <<agentRuns, repeats, miscounts>>, CountsStay, GenerationStays
    PROVE  LoopInv'
<1> DEFINE x == [jobs[j] EXCEPT !.pc = pc]
<1>1. /\ x.kind = jobs[j].kind /\ x.box = jobs[j].box /\ x.count = jobs[j].count /\ x.pc = pc
  BY HoldsNow DEF Job
<1>2. jobs' = [jobs EXCEPT ![j] = x]
  BY DEF Goto
<1> HIDE DEF x
<1>3. Round(x) = Round(jobs[j]) /\ ~OnRow(x) /\ ~OnRow(jobs[j])
  BY <1>1 DEF Round, OnRow, OnSession
<1> QED
  BY <1>1, <1>2, <1>3, SameRound

(* A step that ends a job, with or without its successor.                  *)
LEMMA ChainsLoop ==
    ASSUME AgentInv, LoopInv, NEW j \in JobIds, Active(jobs[j]), NEW next, NEW inserted \in BOOLEAN,
           Chains(j, next, inserted),
           agentRuns' = agentRuns, repeats' = repeats, miscounts' \in Nat,
           miscounts <= miscounts', KeptUp(next, agentRuns),
           \A b \in Boxes : sessions'[b].retries <= agentRuns, GenerationStays,
           repeats = 0 => Spent(next, agentRuns, sessions', miscounts')
    PROVE  LoopInv'
<1>1. Among(j, Returns(j), next)
  BY DEF Among, Chains, AgentInv, JobsOK
<1> QED
  BY <1>1, ReturnsRan, LoopGoes DEF GenerationStays

(* The steps of the loop.                                                  *)
LEMMA PrepareContextLoops ==
    ASSUME AgentInv, LoopInv, NEW j \in JobIds, PrepareContext(j) PROVE LoopInv'
<1>1. PICK F \in Faults(j, {"read", "insert"}) :
        IF "read" \in F THEN Fails(j)
        ELSE Chains(j, Successor(j, "provision_sandbox"), "insert" \notin F)
  BY DEF PrepareContext
<1>2. /\ jobs[j].kind = "prepare_context" /\ jobs[j].pc = "queued" /\ Active(jobs[j])
      /\ UNCHANGED <<sessions, generation, agentRuns, repeats, miscounts>>
      /\ CountsStay /\ GenerationStays
  BY LoopStays DEF PrepareContext, At, Active, pipelineVars, history
<1>3. CASE "read" \in F
  BY <1>1, <1>2, <1>3, FailsLoops
<1>4. CASE "read" \notin F
  <2> DEFINE y == Successor(j, "provision_sandbox")
  <2>1. y.kind = "provision_sandbox" /\ y.pc = "queued" /\ y.count = 0
    BY SuccessorCount
  <2> HIDE DEF y
  <2>2. KeptUp(y, agentRuns)
    BY <2>1, LoopAt DEF KeptUp, Round
  <2>3. repeats = 0 => Spent(y, agentRuns, sessions', miscounts')
    BY <1>2, <2>1, LoopAt DEF Spent, OnSession, OnRow
  <2> QED
    BY <1>1, <1>2, <1>4, <2>2, <2>3, ChainsLoop, LoopStays DEF y
<1> QED
  BY <1>3, <1>4

LEMMA ProvisionLoops ==
    ASSUME AgentInv, LoopInv, NEW j \in JobIds,
           ProvisionStarts(j) \/ ProvisionEnds(j) \/ WriteInstructions(j)
    PROVE  LoopInv'
<1>1. /\ jobs[j].kind = "provision_sandbox" /\ Active(jobs[j]) /\ jobs[j].pc # "save"
      /\ jobs[j] \in Job
      /\ UNCHANGED <<sessions, generation, agentRuns, repeats, miscounts>>
      /\ CountsStay /\ GenerationStays
  BY LoopStays, HoldsNow DEF ProvisionStarts, ProvisionEnds, WriteInstructions, At, Active,
                             pipelineVars, history
<1>2. \/ Fails(j) \/ Goto(j, "write") \/ Goto(j, "insert")
      \/ \E b \in Boxes : jobs' = [jobs EXCEPT ![j].pc = "clone", ![j].box = b]
  BY DEF ProvisionStarts, ProvisionEnds, WriteInstructions, Abandons
<1>3. ASSUME NEW b \in Boxes, jobs' = [jobs EXCEPT ![j].pc = "clone", ![j].box = b]
      PROVE  LoopInv'
  <2> DEFINE x == [jobs[j] EXCEPT !.pc = "clone", !.box = b]
  <2>1. x.kind = jobs[j].kind /\ x.pc = "clone" /\ x.count = jobs[j].count
    BY <1>1 DEF Job
  <2>2. jobs' = [jobs EXCEPT ![j] = x]
    BY <1>3 DEF AgentInv, JobsOK
  <2> HIDE DEF x
  <2>3. Round(x) = Round(jobs[j]) /\ ~OnRow(x) /\ ~OnRow(jobs[j]) /\ x.kind \notin OnSession
    BY <1>1, <2>1 DEF Round, OnRow, OnSession
  <2> QED
    BY <1>1, <2>1, <2>2, <2>3, SameRound
<1> QED
  BY <1>1, <1>2, <1>3, FailsLoops, GotoLoops

LEMMA CreateSessionLoops ==
    ASSUME AgentInv, LoopInv, NEW j \in JobIds, CreateSession(j) PROVE LoopInv'
<1> DEFINE b == jobs[j].box
<1>1. /\ jobs[j].kind = "provision_sandbox" /\ jobs[j].pc = "insert" /\ Active(jobs[j])
      /\ b \in Boxes
      /\ UNCHANGED <<generation, agentRuns, repeats, miscounts>> /\ GenerationStays
  BY LoopStays, HoldsNow DEF CreateSession, At, Active, Holds, Making, AgentInv, RowsOK,
                             ManagersTypeOK
<1>2. PICK F \in Faults(j, {"session", "insert"}) :
         IF "session" \in F \/ ~CreateAdmitted THEN Abandons(j) /\ UNCHANGED sessions
         ELSE /\ CreateSandboxSession(b)
              /\ Chains(j, Successor(j, "run_agent"), "insert" \notin F)
  BY DEF CreateSession
<1>3. CASE Abandons(j) /\ UNCHANGED sessions
  <2>1. CountsStay
    BY <1>3, LoopStays
  <2> QED
    BY <1>1, <1>3, <2>1, FailsLoops DEF Abandons
<1>4. CASE CreateSandboxSession(b) /\ Chains(j, Successor(j, "run_agent"), "insert" \notin F)
  <2> DEFINE y == Successor(j, "run_agent")
  <2>1. y.kind = "run_agent" /\ y.pc = "queued" /\ y.box = b /\ y.count = 0
    BY SuccessorCount
  <2>2. /\ sessions'[b].retries = 0
        /\ \A c \in Boxes : c # b => sessions'[c] = sessions[c]
    BY <1>1, <1>4 DEF CreateSandboxSession, NoSession, AgentInv, RowsOK
  <2>3. Chains(j, y, "insert" \notin F)
    BY <1>4
  <2> HIDE DEF y
  <2>4. KeptUp(y, agentRuns) /\ \A c \in Boxes : sessions'[c].retries <= agentRuns
    BY <2>1, <2>2, LoopAt DEF KeptUp, Round
  <2>5. repeats = 0 => Spent(y, agentRuns, sessions', miscounts')
    BY <1>1, <2>1, <2>2, LoopAt DEF Spent, OnSession, OnRow
  <2> QED
    BY <1>1, <2>3, <2>4, <2>5, ChainsLoop, LoopStays
<1> QED
  BY <1>2, <1>3, <1>4

LEMMA RunAgentStartsLoops ==
    ASSUME AgentInv, LoopInv, NEW j \in JobIds, RunAgentStarts(j) PROVE LoopInv'
<1> DEFINE b == jobs[j].box
<1>1. /\ jobs[j].kind = "run_agent" /\ jobs[j].pc = "queued" /\ Active(jobs[j])
      /\ jobs[j] \in Job /\ b \in Boxes
      /\ UNCHANGED <<generation, agentRuns, repeats, miscounts>> /\ GenerationStays
  BY LoopStays, HoldsNow DEF RunAgentStarts, At, Active, history, OnSession
<1>2. PICK F \in Faults(j, {"session", "status"}) :
         IF "session" \in F THEN Fails(j) /\ UNCHANGED sessions
         ELSE /\ jobs' = [jobs EXCEPT ![j].pc = "build", ![j].count = sessions[b].retries]
              /\ IF "status" \in F THEN UNCHANGED sessions
                 ELSE UpdateSandboxSessionStatus(b, "running")
  BY DEF RunAgentStarts
<1>3. CountsStay
  BY <1>1, <1>2, StatusKeepsCounts
<1>4. CASE "session" \in F
  BY <1>1, <1>2, <1>3, <1>4, FailsLoops
<1>5. CASE "session" \notin F
  <2> DEFINE x == [jobs[j] EXCEPT !.pc = "build", !.count = sessions[b].retries]
  <2>1. x.kind = "run_agent" /\ x.pc = "build" /\ x.count = sessions[b].retries /\ x.box = b
    BY <1>1 DEF Job
  <2>2. jobs' = [jobs EXCEPT ![j] = x]
    BY <1>2, <1>5 DEF AgentInv, JobsOK
  <2>3. Among(j, x, x)
    BY <2>2 DEF Among, AgentInv, JobsOK
  <2> HIDE DEF x
  <2>4. sessions[b].retries \in 0 .. normalizeMaxRetries /\ sessions[b].retries <= agentRuns
    BY <1>1, LoopAt
  <2>5. Round(x) = sessions[b].retries
    BY <2>1, <2>4 DEF Round
  <2>6. KeptUp(x, agentRuns)
    BY <2>4, <2>5 DEF KeptUp
  <2>7. ASSUME repeats = 0 PROVE Spent(x, agentRuns, sessions', miscounts')
    <3>1. agentRuns <= sessions[b].retries + miscounts
      BY <1>1, <2>7, LoopAt DEF Spent, OnRow
    <3> QED
      BY <1>1, <1>3, <2>1, <2>4, <2>5, <3>1 DEF Spent, OnRow, OnSession, CountsStay
  <2> QED
    BY <1>1, <1>3, <2>3, <2>6, <2>7, LoopGoes, LoopStays DEF GenerationStays
<1> QED
  BY <1>4, <1>5

LEMMA BuildLoops ==
    ASSUME AgentInv, LoopInv, NEW j \in JobIds,
           ProviderUnknown(j) \/ BuildCommand(j) \/ BuildFails(j)
    PROVE  LoopInv'
<1>1. /\ jobs[j].kind = "run_agent" /\ jobs[j].pc = "build" /\ Active(jobs[j])
      /\ jobs[j].box \in Boxes
      /\ UNCHANGED <<generation, agentRuns, repeats, miscounts>> /\ GenerationStays
  BY LoopStays, HoldsNow DEF ProviderUnknown, BuildCommand, BuildFails, At, Active, history, pipelineVars,
                             OnSession
<1>2. CASE BuildCommand(j)
  <2>1. CountsStay /\ Goto(j, "agent")
    BY <1>2, LoopStays DEF BuildCommand, pipelineVars
  <2> QED
    BY <1>1, <2>1, GotoLoops DEF OnSession
<1>3. CASE BuildFails(j)
  <2>1. UpdateSandboxSessionStatus(jobs[j].box, "failed") \/ UNCHANGED sessions
    BY <1>3 DEF BuildFails
  <2>2. CountsStay
    BY <1>1, <2>1, StatusKeepsCounts
  <2> QED
    BY <1>1, <1>3, <2>2, FailsLoops DEF BuildFails
<1>4. CASE ProviderUnknown(j)
  BY <1>1, <1>4, FailsLoops, LoopStays DEF ProviderUnknown, pipelineVars
<1> QED
  BY <1>2, <1>3, <1>4

LEMMA SaveRunLoops ==
    ASSUME AgentInv, LoopInv, NEW j \in JobIds, SaveRun(j) PROVE LoopInv'
<1> DEFINE y == [Successor(j, "validate_output") EXCEPT !.count = jobs[j].count]
<1>1. /\ jobs[j].kind = "run_agent" /\ jobs[j].pc = "save" /\ Active(jobs[j])
      /\ jobs[j].box \in Boxes
      /\ UNCHANGED <<generation, agentRuns, repeats, miscounts>> /\ GenerationStays
  BY LoopStays, HoldsNow DEF SaveRun, At, Active, history, OnSession
<1>2. PICK F \in Faults(j, {"status", "insert"}) :
         /\ UpdateSandboxSessionStatus(jobs[j].box, "validating") \/ UNCHANGED sessions
         /\ Chains(j, y, "insert" \notin F)
  BY DEF SaveRun
<1>3. CountsStay
  BY <1>1, <1>2, StatusKeepsCounts
<1>4. /\ y.kind = "validate_output" /\ y.pc = "queued" /\ y.box = jobs[j].box
      /\ y.count = jobs[j].count
  BY DEF Successor, Idle
<1> HIDE DEF y
<1>5. Round(y) = Round(jobs[j])
  BY <1>1, <1>4 DEF Round
<1>6. KeptUp(y, agentRuns)
  BY <1>5, LoopAt DEF KeptUp
<1>7. repeats = 0 => Spent(y, agentRuns, sessions', miscounts')
  BY <1>1, <1>3, <1>4, <1>5, LoopAt DEF Spent, OnRow, OnSession, CountsStay
<1> QED
  BY <1>1, <1>2, <1>3, <1>6, <1>7, ChainsLoop, LoopStays

(* An execution of the agent takes the next round, and no other job is in  *)
(* the loop as long as River rescues nothing.                              *)
LEMMA AgentLoops ==
    ASSUME AgentInv, LoopInv, NEW j \in JobIds, Agent(j) PROVE LoopInv'
<1>1. /\ jobs[j].kind = "run_agent" /\ jobs[j].pc = "agent" /\ Active(jobs[j])
      /\ jobs[j].box \in Boxes /\ agentRuns' = agentRuns + 1
      /\ UNCHANGED <<sessions, generation, repeats, miscounts>>
      /\ \A i \in JobIds : jobs[i] \in Job
  BY HoldsNow DEF Agent, At, Active, OnSession
<1>2. ASSUME NEW i \in JobIds
      PROVE  /\ jobs'[i].kind = jobs[i].kind /\ jobs'[i].box = jobs[i].box
             /\ jobs'[i].count = jobs[i].count
             /\ jobs'[i].pc = IF i = j THEN "save" ELSE jobs[i].pc
  <2>1. CASE Goto(j, "save")
    BY <1>1, <2>1 DEF Goto, AgentInv, JobsOK, Job
  <2>2. CASE jobs' = [k \in JobIds |->
               [jobs[k] EXCEPT !.pc = IF k = j THEN "save" ELSE @,
                               !.fresh = @ /\ jobs[k].box # jobs[j].box]]
    <3> DEFINE pc == IF i = j THEN "save" ELSE jobs[i].pc
               fresh == jobs[i].fresh /\ jobs[i].box # jobs[j].box
    <3>1. jobs'[i] = [jobs[i] EXCEPT !.pc = pc, !.fresh = fresh]
      BY <2>2
    <3> HIDE DEF fresh, pc
    <3> DEFINE job == jobs[i]
    <3>2. job \in Job /\ jobs'[i] = [job EXCEPT !.pc = pc, !.fresh = fresh]
      BY <1>1, <3>1
    <3> HIDE DEF job
    <3>3. /\ jobs'[i].pc = pc /\ jobs'[i].kind = job.kind /\ jobs'[i].box = job.box
          /\ jobs'[i].count = job.count
      BY <3>2 DEF Job
    <3> QED
      BY <3>3 DEF pc, job
  <2> QED
    BY <2>1, <2>2 DEF Agent
<1>3. LoopRan'
  <2>1. \A i \in JobIds : KeptUp(jobs'[i], agentRuns')
    <3> SUFFICES ASSUME NEW i \in JobIds PROVE KeptUp(jobs'[i], agentRuns + 1)
      BY <1>1
    <3>1. KeptUp(jobs[i], agentRuns) /\ jobs[i].count \in 0 .. normalizeMaxRetries
          /\ agentRuns \in Nat /\ normalizeMaxRetries \in Nat
      BY LoopAt
    <3> QED
      BY <1>1, <1>2, <3>1 DEF KeptUp, Round
  <2> QED
    BY <1>1, <2>1, LoopAt DEF LoopRan
<1>4. ASSUME repeats = 0
      PROVE  /\ agentRuns + 1 <= normalizeMaxRetries + 1 + miscounts
             /\ \A i \in JobIds :
                  Active(jobs'[i]) => Spent(jobs'[i], agentRuns + 1, sessions, miscounts)
  <2>1. /\ agentRuns <= jobs[j].count + miscounts
        /\ jobs[j].count <= sessions[jobs[j].box].retries
        /\ jobs[j].count \in 0 .. normalizeMaxRetries /\ normalizeMaxRetries \in Nat
        /\ agentRuns \in Nat /\ miscounts \in Nat
    BY <1>1, <1>4, LoopAt DEF Spent, OnRow, OnSession, Round
  <2>2. \A i \in JobIds : i # j => ~Active(jobs'[i])
    BY <1>1, <1>2, <1>4, OtherJobsRest DEF Active
  <2>3. Spent(jobs'[j], agentRuns + 1, sessions, miscounts)
    BY <1>1, <1>2, <2>1 DEF Spent, OnRow, OnSession, Round
  <2> QED
    BY <2>1, <2>2, <2>3
<1>5. LoopSpent'
  BY <1>1, <1>4 DEF LoopSpent
<1> QED
  BY <1>3, <1>5 DEF LoopInv

LEMMA RetryAgentLoops ==
    ASSUME AgentInv, LoopInv, NEW j \in JobIds, RetryAgent(j) PROVE LoopInv'
<1> DEFINE b == jobs[j].box
           y == Successor(j, "run_agent")
<1>1. /\ jobs[j].kind = "validate_output" /\ jobs[j].pc = "decide" /\ Active(jobs[j])
      /\ b \in Boxes
      /\ UNCHANGED <<generation, agentRuns, repeats>> /\ GenerationStays
  BY LoopStays, HoldsNow DEF RetryAgent, At, Active, OnSession
<1>2. PICK F \in Faults(j, {"count", "insert"}) :
         /\ IF "count" \in F THEN UNCHANGED sessions /\ miscounts' = miscounts + 1
            ELSE UpdateSandboxSessionResult(b, jobs[j].count + 1) /\ UNCHANGED miscounts
         /\ Chains(j, y, "insert" \notin F)
  BY DEF RetryAgent
<1>3. y.kind = "run_agent" /\ y.pc = "queued" /\ y.box = b /\ y.count = 0
  BY SuccessorCount
<1> HIDE DEF y
<1>4. /\ agentRuns \in Nat /\ miscounts \in Nat /\ jobs[j].count \in Nat
      /\ jobs[j].count + 1 <= agentRuns
      /\ \A c \in Boxes : sessions[c].retries \in Nat /\ sessions[c].retries <= agentRuns
  BY <1>1, LoopAt DEF KeptUp, Round
<1>5. KeptUp(y, agentRuns)
  BY <1>3, <1>4 DEF KeptUp, Round
<1>6. repeats = 0 => /\ agentRuns <= jobs[j].count + 1 + miscounts
                     /\ jobs[j].count <= sessions[b].retries
  BY <1>1, LoopAt DEF Spent, OnRow, OnSession, Round
<1>7. Chains(j, y, "insert" \notin F)
  BY <1>2
<1>8. CASE "count" \in F
  <2>1. miscounts' = miscounts + 1 /\ sessions' = sessions
    BY <1>2, <1>8
  <2>2. repeats = 0 => Spent(y, agentRuns, sessions', miscounts')
    BY <1>1, <1>3, <1>4, <1>6, <2>1 DEF Spent, OnRow, OnSession
  <2>3. miscounts' \in Nat /\ miscounts <= miscounts'
    BY <1>4, <2>1
  <2>4. \A c \in Boxes : sessions'[c].retries <= agentRuns
    BY <1>4, <2>1
  <2> QED
    BY <1>1, <1>5, <1>7, <2>2, <2>3, <2>4, ChainsLoop
<1>9. CASE "count" \notin F
  <2>1. /\ miscounts' = miscounts /\ sessions'[b].retries = jobs[j].count + 1
        /\ \A c \in Boxes : c # b => sessions'[c] = sessions[c]
    BY <1>1, <1>2, <1>9 DEF UpdateSandboxSessionResult, AgentInv, RowsOK, Session
  <2>2. \A c \in Boxes : sessions'[c].retries <= agentRuns
    BY <1>4, <2>1
  <2>3. repeats = 0 => Spent(y, agentRuns, sessions', miscounts')
    BY <1>1, <1>3, <1>4, <1>6, <2>1 DEF Spent, OnRow, OnSession
  <2>4. miscounts' \in Nat /\ miscounts <= miscounts'
    BY <1>4, <2>1
  <2> QED
    BY <1>1, <1>5, <1>7, <2>2, <2>3, <2>4, ChainsLoop
<1> QED
  BY <1>8, <1>9

(* The generation fails only when the count has reached the limit.         *)
LEMMA ValidateLoops ==
    ASSUME AgentInv, LoopInv, NEW j \in JobIds,
           ValidateStarts(j) \/ RunCommands(j) \/ GiveUp(j) \/ CollectChanges(j)
    PROVE  LoopInv'
<1>1. /\ jobs[j].kind = "validate_output" /\ Active(jobs[j]) /\ jobs[j].pc # "save"
      /\ jobs[j] \in Job
      /\ UNCHANGED <<sessions, agentRuns, repeats, miscounts>> /\ CountsStay
  BY LoopStays, HoldsNow DEF ValidateStarts, RunCommands, GiveUp, CollectChanges, At, Active,
                             pipelineVars, history, Job
<1>2. GenerationStays
  <2>1. CASE GiveUp(j)
    <3>1. jobs[j].count >= normalizeMaxRetries
      BY <2>1 DEF GiveUp, GivesUp
    <3> QED
      BY <1>1, <3>1, LoopAt DEF KeptUp, Round, GenerationStays
  <2>2. CASE CollectChanges(j)
    <3>1. generation' = generation \/ generation'.status = "running"
      BY <2>2 DEF CollectChanges
    <3> QED
      BY <3>1, LoopStays DEF GenerationStays
  <2>3. CASE ValidateStarts(j) \/ RunCommands(j)
    BY <2>3, LoopStays DEF ValidateStarts, RunCommands, pipelineVars
  <2> QED
    BY <2>1, <2>2, <2>3
<1>3. \/ Fails(j) \/ Goto(j, "commands") \/ Goto(j, "finish")
      \/ \E p : jobs' = [jobs EXCEPT ![j].pc = "decide", ![j].fresh = TRUE, ![j].passed = p]
  BY DEF ValidateStarts, RunCommands, GiveUp, CollectChanges
<1>4. ASSUME NEW p,
             jobs' = [jobs EXCEPT ![j].pc = "decide", ![j].fresh = TRUE, ![j].passed = p]
      PROVE  LoopInv'
  <2> DEFINE x == [jobs[j] EXCEPT !.pc = "decide", !.fresh = TRUE, !.passed = p]
  <2>1. x.kind = jobs[j].kind /\ x.pc = "decide" /\ x.count = jobs[j].count /\ x.box = jobs[j].box
    BY <1>1 DEF Job
  <2>2. jobs' = [jobs EXCEPT ![j] = x]
    BY <1>4 DEF AgentInv, JobsOK
  <2> HIDE DEF x
  <2>3. Round(x) = Round(jobs[j]) /\ ~OnRow(x) /\ ~OnRow(jobs[j])
    BY <1>1, <2>1 DEF Round, OnRow
  <2> QED
    BY <1>1, <1>2, <2>1, <2>2, <2>3, SameRound
<1> QED
  BY <1>1, <1>2, <1>3, <1>4, FailsLoops, GotoLoops DEF OnSession

LEMMA FinishLoops ==
    ASSUME AgentInv, LoopInv, NEW j \in JobIds, Finish(j) PROVE LoopInv'
<1>1. /\ jobs[j].kind = "validate_output" /\ jobs[j].pc = "finish" /\ Active(jobs[j])
      /\ jobs[j].box \in Boxes /\ jobs' = [jobs EXCEPT ![j] = Returns(j)]
      /\ UNCHANGED <<generation, agentRuns, repeats, miscounts>> /\ GenerationStays
      /\ UpdateSandboxSessionStatus(jobs[j].box, "completed") \/ UNCHANGED sessions
  BY LoopStays, HoldsNow DEF Finish, At, Active, OnSession
<1>2. CountsStay
  BY <1>1, StatusKeepsCounts
<1>3. Among(j, Returns(j), Returns(j))
  BY <1>1 DEF Among, AgentInv, JobsOK
<1> QED
  BY <1>1, <1>2, <1>3, ReturnsRan, LoopGoes, LoopStays DEF GenerationStays
-----------------------------------------------------------------------------
(* River: jobs that stop being active, and jobs that are rescued.          *)
LEMMA RestLoops ==
    ASSUME AgentInv, LoopInv,
           \A i \in JobIds : \/ jobs'[i] = jobs[i]
                             \/ ~Active(jobs'[i]) /\ KeptUp(jobs'[i], agentRuns),
           UNCHANGED <<sessions, generation, agentRuns, repeats, miscounts>>
    PROVE  LoopInv'
<1>1. LoopRan'
  BY DEF LoopInv, LoopRan
<1>2. LoopSpent'
  BY DEF LoopInv, LoopSpent
<1> QED
  BY <1>1, <1>2 DEF LoopInv

LEMMA RiverLoops ==
    ASSUME AgentInv, LoopInv PROVE  /\ \A j \in JobIds : Report(j) \/ Rescue(j) \/ Timeout(j) => LoopInv'
                                    /\ Crash => LoopInv'
<1>1. ASSUME NEW j \in JobIds, Report(j) PROVE LoopInv'
  <2>1. jobs' = [jobs EXCEPT ![j] = Idle]
    BY <1>1 DEF Report
  <2>2. KeptUp(Idle, agentRuns) /\ ~Active(Idle)
    BY LoopAt DEF Idle, KeptUp, Round, Active
  <2>3. \A i \in JobIds : jobs'[i] = jobs[i] \/ jobs'[i] = Idle
    BY <2>1 DEF AgentInv, JobsOK
  <2> QED
    BY <1>1, <2>2, <2>3, RestLoops DEF Report, pipelineVars, history
<1>2. ASSUME NEW j \in JobIds, Rescue(j) PROVE LoopInv'
  <2>1. /\ jobs[j].pc = "lost" /\ jobs' = [jobs EXCEPT ![j] = Retried(j)]
        /\ repeats' = repeats + 1 /\ UNCHANGED <<sessions, generation, agentRuns>>
    BY <1>2 DEF Rescue, Fails, pipelineVars
  <2>2. KeptUp(Retried(j), agentRuns)
    BY <2>1, RetriedSpent
  <2>3. LoopRan'
    BY <2>1, <2>2 DEF LoopInv, LoopRan, AgentInv, JobsOK
  <2>4. LoopSpent'
    BY <2>1 DEF LoopSpent, AgentInv, CountersOK
  <2> QED
    BY <2>3, <2>4 DEF LoopInv
<1>3. ASSUME NEW j \in JobIds, Timeout(j) PROVE LoopInv'
  <2> DEFINE x == [jobs[j] EXCEPT !.ctx = "done"]
  <2>1. /\ x.kind = jobs[j].kind /\ x.pc = jobs[j].pc /\ x.count = jobs[j].count
        /\ x.box = jobs[j].box
    BY HoldsNow DEF Job
  <2>2. jobs' = [jobs EXCEPT ![j] = x] /\ Active(jobs[j]) /\ jobs[j].pc # "queued"
    BY <1>3 DEF Timeout, Executing, Active
  <2> HIDE DEF x
  <2>3. Round(x) = Round(jobs[j]) /\ ~OnRow(x) /\ ~OnRow(jobs[j])
    BY <2>1, <2>2 DEF Round, OnRow
  <2>4. UNCHANGED <<sessions, generation, agentRuns, repeats, miscounts>>
        /\ CountsStay /\ GenerationStays
    BY <1>3, LoopStays DEF Timeout, pipelineVars, history
  <2> QED
    BY <2>1, <2>2, <2>3, <2>4, SameRound
<1>4. ASSUME Crash PROVE LoopInv'
  <2>1. ASSUME NEW i \in JobIds
        PROVE  \/ jobs'[i] = jobs[i]
               \/ ~Active(jobs'[i]) /\ KeptUp(jobs'[i], agentRuns)
    <3>1. CASE ~Executing(i)
      BY <1>4, <3>1 DEF Crash
    <3>2. CASE Executing(i)
      <4> DEFINE w == [Arguments(i) EXCEPT !.pc = "lost"]
      <4>1. /\ Arguments(i) \in Job /\ Arguments(i).kind = jobs[i].kind
            /\ Arguments(i).count = IF jobs[i].kind = "run_agent" THEN 0 ELSE jobs[i].count
        BY HoldsNow, ArgumentsTyped, ArgumentsCount
      <4>2. /\ w.pc = "lost" /\ w.kind = jobs[i].kind
            /\ w.count = IF jobs[i].kind = "run_agent" THEN 0 ELSE jobs[i].count
        BY <4>1 DEF Job
      <4>3. jobs'[i] = w
        BY <1>4, <3>2 DEF Crash
      <4> HIDE DEF w
      <4> QED
        BY <4>2, <4>3, LoopAt DEF KeptUp, Round, Active
    <3> QED
      BY <3>1, <3>2
  <2> QED
    BY <1>4, <2>1, RestLoops DEF Crash, pipelineVars
<1> QED
  BY <1>1, <1>2, <1>3, <1>4

(* Stop writes the status of a session, not its count.                     *)
LEMMA StopLoops ==
    ASSUME AgentInv, LoopInv, StopReads \/ StopWrites PROVE LoopInv'
<1>1. UNCHANGED <<jobs, generation, agentRuns, repeats, miscounts>>
  BY DEF StopReads, StopWrites, history
<1>2. CountsStay
  <2>1. CASE StopReads
    BY <2>1 DEF StopReads, CountsStay
  <2>2. CASE StopWrites
    BY <2>2, StatusKeepsCounts DEF StopWrites
  <2> QED
    BY <2>1, <2>2
<1>3. LoopRan'
  BY <1>1, <1>2 DEF LoopInv, LoopRan, CountsStay
<1>4. \A j \in JobIds : jobs[j].kind \in OnSession => jobs[j].box \in Boxes
  BY HoldsNow
<1>5. LoopSpent'
  BY <1>1, <1>2, <1>4 DEF LoopInv, LoopSpent, Spent, OnRow, OnSession, CountsStay
<1> QED
  BY <1>3, <1>5 DEF LoopInv

LEMMA LoopInitially == AgentInit => LoopInv
<1> SUFFICES ASSUME AgentInit PROVE LoopInv
  OBVIOUS
<1> DEFINE first == [Idle EXCEPT !.kind = "prepare_context", !.pc = "queued"]
<1>1. /\ KeptUp(first, 0) /\ KeptUp(Idle, 0) /\ ~Active(Idle)
      /\ first.kind = "prepare_context"
  BY DEF KeptUp, Round, Idle, Active
<1>2. \A j \in JobIds : jobs[j] = first \/ jobs[j] = Idle
  BY DEF AgentInit, CreateAgentCodegenPipeline
<1> HIDE DEF first
<1>3. /\ agentRuns = 0 /\ miscounts = 0 /\ generation.status = "pending"
      /\ \A b \in Boxes : sessions[b].retries = 0
  BY DEF AgentInit, NoSession
<1>4. LoopRan
  BY <1>1, <1>2, <1>3 DEF LoopRan
<1>5. LoopSpent
  <2>1. Spent(first, 0, sessions, 0)
    BY <1>1 DEF Spent, OnSession, OnRow
  <2> QED
    BY <1>1, <1>2, <1>3, <2>1, RetriesAreCounted DEF LoopSpent
<1> QED
  BY <1>4, <1>5 DEF LoopInv

LEMMA LoopInductive ==
    ASSUME AgentInv, LoopInv, [AgentNext]_vars PROVE LoopInv'
<1>1. ASSUME NEW j \in JobIds, Step(j) PROVE LoopInv'
  <2>1. CASE Report(j) \/ Rescue(j)
    BY <2>1, RiverLoops
  <2>2. CASE PrepareContextWork(j)
    BY <2>2, PrepareContextLoops DEF PrepareContextWork
  <2>3. CASE ProvisionSandboxWork(j)
    BY <2>3, ProvisionLoops, CreateSessionLoops DEF ProvisionSandboxWork
  <2>4. CASE RunAgentWork(j)
    BY <2>4, RunAgentStartsLoops, BuildLoops, AgentLoops, SaveRunLoops DEF RunAgentWork
  <2>5. CASE ValidateOutputWork(j)
    BY <2>5, ValidateLoops, RetryAgentLoops, FinishLoops DEF ValidateOutputWork
  <2> QED
    BY <1>1, <2>1, <2>2, <2>3, <2>4, <2>5 DEF Step
<1>2. CASE UNCHANGED vars
  BY <1>2 DEF vars, pipelineVars, history, LoopInv, LoopRan, LoopSpent
<1> QED
  BY <1>1, <1>2, RiverLoops, StopLoops DEF AgentNext

(* A generation is failed only after the agent has used all its retries,   *)
(* for any limit and whatever fails, is rescued or is stopped; and while   *)
(* River rescues nothing it is never run more often than they allow        *)
(* (ValidateOutputWorker.Work and the count it passes to RunAgentWorker).  *)
THEOREM RetriesAreExact == AgentSpec => []RetriesExact
<1>1. LoopInv => RetriesExact
  BY DEF LoopInv, LoopRan, LoopSpent, RetriesExact
<1>2. AgentInit => AgentInv /\ LoopInv
  BY AgentInitially, LoopInitially
<1>3. AgentInv /\ LoopInv /\ [AgentNext]_vars => (AgentInv /\ LoopInv)'
  BY AgentInductive, LoopInductive
<1> QED
  BY <1>1, <1>2, <1>3, PTL DEF AgentSpec
=============================================================================
