---------------------------- MODULE SandboxProofs ---------------------------
(***************************************************************************)
(* Where agents run: the limiter never gives out more slots than it has,   *)
(* the goroutines of a command's stream never send on a closed channel,    *)
(* and the runner of parallel sandboxes loses none of them, for any        *)
(* organisations, limits, sizes of pipe and channel and numbers of         *)
(* configurations.                                                         *)
(***************************************************************************)
EXTENDS MCGuards, FiniteSetTheorems, TLAPS

(***************************************************************************)
(* The limiter (SandboxLimiter).                                           *)
(***************************************************************************)
LimiterInv == LimiterTypeOK /\ SlotsMatchHolders

LEMMA MaxIsNat == maxPerOrg \in Nat /\ IsFiniteSet(Sessions)
BY LimiterAssumption DEF maxPerOrg, defaultSandboxMaxPerOrg

(* The holders of an organisation are some of finitely many sessions.      *)
LEMMA HoldersFinite ==
    ASSUME LimiterTypeOK, NEW o \in Orgs
    PROVE  IsFiniteSet(holding[o]) /\ Cardinality(holding[o]) \in Nat
BY MaxIsNat, FS_Subset, FS_CardinalityType DEF LimiterTypeOK

LEMMA AcquireKeepsSlots ==
    ASSUME LimiterInv, NEW o \in Orgs, NEW s \in Sessions, Acquire(o, s)
    PROVE  LimiterInv'
<1>1. LimiterTypeOK'
  BY DEF LimiterInv, LimiterTypeOK, Acquire
<1>2. Cardinality(holding[o] \cup {s}) = Cardinality(holding[o]) + 1
  <2>1. s \notin holding[o]
    BY DEF Acquire, Idle
  <2> QED
    BY <2>1, HoldersFinite, FS_AddElement DEF LimiterInv
<1>3. ASSUME NEW p \in Orgs
      PROVE  active'[p] = Cardinality(holding'[p]) /\ active'[p] <= maxPerOrg
  <2>1. CASE p = o
    BY <1>2, <2>1, MaxIsNat DEF LimiterInv, LimiterTypeOK, SlotsMatchHolders, Acquire
  <2>2. CASE p # o
    BY <2>2 DEF LimiterInv, LimiterTypeOK, SlotsMatchHolders, Acquire
  <2> QED
    BY <2>1, <2>2
<1> QED
  BY <1>1, <1>3 DEF LimiterInv, SlotsMatchHolders

LEMMA ReleaseKeepsSlots ==
    ASSUME LimiterInv, NEW o \in Orgs, NEW s \in Sessions, Release(o, s)
    PROVE  LimiterInv'
<1>1. LimiterTypeOK'
  BY DEF LimiterInv, LimiterTypeOK, Release
<1>2. /\ Cardinality(holding[o] \ {s}) = Cardinality(holding[o]) - 1
      /\ Cardinality(holding[o] \ {s}) \in Nat
  <2>1. s \in holding[o]
    BY DEF Release
  <2>2. IsFiniteSet(holding[o] \ {s})
    BY HoldersFinite, FS_Subset DEF LimiterInv
  <2> QED
    BY <2>1, <2>2, HoldersFinite, FS_RemoveElement, FS_CardinalityType DEF LimiterInv
<1>3. ASSUME NEW p \in Orgs
      PROVE  active'[p] = Cardinality(holding'[p]) /\ active'[p] <= maxPerOrg
  <2>1. CASE p = o
    <3>1. active[o] = Cardinality(holding[o]) /\ active[o] <= maxPerOrg /\ active[o] \in Nat
      BY DEF LimiterInv, LimiterTypeOK, SlotsMatchHolders
    <3>2. holding'[o] = holding[o] \ {s} /\ active'[o] = IF active[o] <= 1 THEN 0 ELSE active[o] - 1
      BY DEF LimiterInv, LimiterTypeOK, Release
    <3> QED
      BY <1>2, <2>1, <3>1, <3>2, MaxIsNat
  <2>2. CASE p # o
    BY <2>2 DEF LimiterInv, LimiterTypeOK, SlotsMatchHolders, Release
  <2> QED
    BY <2>1, <2>2
<1> QED
  BY <1>1, <1>3 DEF LimiterInv, SlotsMatchHolders

(* In every state an organisation's count is the number of sessions that   *)
(* hold one of its slots, and at most the limit (sandbox_limiter.go).      *)
THEOREM SlotsAlwaysMatchHolders == LimiterSpec => []SlotsMatchHolders
<1>1. LimiterInit => LimiterInv
  BY MaxIsNat, FS_EmptySet DEF LimiterInit, LimiterInv, LimiterTypeOK, SlotsMatchHolders
<1>2. LimiterInv /\ [LimiterNext]_limiterVars => LimiterInv'
  <2> SUFFICES ASSUME LimiterInv, [LimiterNext]_limiterVars PROVE LimiterInv'
    OBVIOUS
  <2>1. ASSUME NEW o \in Orgs, NEW s \in Sessions, Acquire(o, s) \/ Release(o, s)
        PROVE  LimiterInv'
    BY <2>1, AcquireKeepsSlots, ReleaseKeepsSlots
  <2>2. CASE UNCHANGED limiterVars
    BY <2>2 DEF limiterVars, LimiterInv, LimiterTypeOK, SlotsMatchHolders
  <2> QED
    BY <2>1, <2>2 DEF LimiterNext
<1>3. LimiterInv => SlotsMatchHolders
  BY DEF LimiterInv
<1> QED
  BY <1>1, <1>2, <1>3, PTL DEF LimiterSpec

-----------------------------------------------------------------------------
(***************************************************************************)
(* The goroutines of StreamOutput (SandboxStreams).                        *)
(***************************************************************************)
(* Readers only ever run while the closer waits for them: once it has gone *)
(* on, all are done, and a reader that is done does nothing any more.      *)
ReadersDoneFirst == closer # "waiting" => \A s \in Pipes : reader[s] = "done"

StreamInv ==
    /\ remote \in BOOLEAN
    /\ reader \in [Pipes -> {"scanning", "sending", "apologising", "done"}]
    /\ ReadersDoneFirst

LEMMA ReadersKeepOrder ==
    ASSUME StreamInv, NEW s \in Pipes,
           CommandWrites(s) \/ ReaderScans(s) \/ ReaderChokes(s) \/ ReaderSends(s)
               \/ ReaderApologises(s) \/ ReaderEnds(s)
    PROVE  StreamInv'
<1>1. CASE CommandWrites(s)
  BY <1>1 DEF StreamInv, ReadersDoneFirst, Pipes, CommandWrites
<1>2. CASE ReaderScans(s)
  BY <1>2 DEF StreamInv, ReadersDoneFirst, Pipes, ReaderScans, ReaderGoes
<1>3. CASE ReaderChokes(s)
  BY <1>3 DEF StreamInv, ReadersDoneFirst, Pipes, ReaderChokes, ReaderGoes
<1>4. CASE ReaderSends(s)
  BY <1>4 DEF StreamInv, ReadersDoneFirst, Pipes, ReaderSends, ReaderGoes
<1>5. CASE ReaderApologises(s)
  BY <1>5 DEF StreamInv, ReadersDoneFirst, Pipes, ReaderApologises, ReaderGoes
<1>6. CASE ReaderEnds(s)
  BY <1>6 DEF StreamInv, ReadersDoneFirst, Pipes, ReaderEnds, ReaderGoes
<1> QED
  BY <1>1, <1>2, <1>3, <1>4, <1>5, <1>6

LEMMA OthersKeepOrder ==
    ASSUME StreamInv,
           \/ \E how \in {"zero", "nonzero", "killed", "cut"} : CommandEnds(how)
           \/ \E to \in {"reporting", "insisting", "closed"} : CloserWaits(to)
           \/ CloserCloses \/ StreamDeadline \/ ConsumerReads \/ ConsumerLeaves
    PROVE  StreamInv'
<1>1. ASSUME NEW how \in {"zero", "nonzero", "killed", "cut"}, CommandEnds(how)
      PROVE  StreamInv'
  BY <1>1 DEF StreamInv, ReadersDoneFirst, Pipes, CommandEnds
<1>2. ASSUME NEW to \in {"reporting", "insisting", "closed"}, CloserWaits(to)
      PROVE  StreamInv'
  BY <1>2 DEF StreamInv, ReadersDoneFirst, Pipes, CloserWaits, StreamReports
<1>3. CASE CloserCloses
  BY <1>3 DEF StreamInv, ReadersDoneFirst, Pipes, CloserCloses
<1>4. CASE StreamDeadline
  BY <1>4 DEF StreamInv, ReadersDoneFirst, Pipes, StreamDeadline
<1>5. CASE ConsumerReads \/ ConsumerLeaves
  BY <1>5 DEF StreamInv, ReadersDoneFirst, Pipes, ConsumerReads, ConsumerLeaves
<1> QED
  BY <1>1, <1>2, <1>3, <1>4, <1>5

(* The channel is closed only after every goroutine that could send on it  *)
(* has ended (StreamOutput of sandbox_local.go, _docker.go and _e2b.go).   *)
THEOREM NeverSendsAfterClose == StreamSpec => []NoSendAfterClose
<1>1. StreamInit => StreamInv
  BY DEF StreamInit, StreamInv, ReadersDoneFirst
<1>2. StreamInv /\ [StreamNext]_streamVars => StreamInv'
  <2>1. StreamInv /\ UNCHANGED streamVars => StreamInv'
    BY DEF streamVars, StreamInv, ReadersDoneFirst, Pipes
  <2>2. StreamInv /\ StreamNext => StreamInv'
    BY ReadersKeepOrder, OthersKeepOrder DEF StreamNext
  <2> QED
    BY <2>1, <2>2
<1>3. StreamInv => NoSendAfterClose
  BY DEF StreamInv, ReadersDoneFirst, NoSendAfterClose
<1> QED
  BY <1>1, <1>2, <1>3, PTL DEF StreamSpec

-----------------------------------------------------------------------------
(***************************************************************************)
(* The runner of parallel sandboxes (ParallelSandboxes).                   *)
(***************************************************************************)
Holding(c) == goroutine[c] \in {"cloning", "working", "destroying"}
Unowned == exists \ Owned

RunnerTyped ==
    /\ provider \in {"local", "docker", "e2b"}
    /\ goroutine \in [Configs -> {"waiting", "provisioning", "cloning", "working",
                                  "destroying", "leaving", "done"}]
    /\ box \in [Configs -> Boxes \cup {None}]
    /\ exists \subseteq boxes /\ boxes \subseteq Boxes
    /\ IsFiniteSet(exists)
    /\ faults \in Nat /\ live \in BOOLEAN

(* Two goroutines never hold the same sandbox, so that one which destroys  *)
(* its own takes nothing from another; only what was made is held.         *)
BoxesApart ==
    /\ \A c \in Configs : Holding(c) => box[c] \in boxes
    /\ \A c, d \in Configs : Holding(c) /\ Holding(d) /\ box[c] = box[d] => c = d

(* What nobody owns is a lost reply or a failed removal, while removals    *)
(* are tried at all.                                                       *)
FewUnowned == live \/ provider = "local" => Cardinality(Unowned) <= faults
SlotsKept  == Cardinality(Taken) <= limit

RunnerInv == RunnerTyped /\ BoxesApart /\ FewUnowned /\ SlotsKept

LEMMA Subfinite ==
    ASSUME NEW A, NEW B, IsFiniteSet(A), B \subseteq A
    PROVE  IsFiniteSet(B) /\ Cardinality(B) \in Nat /\ Cardinality(A) \in Nat
           /\ Cardinality(B) <= Cardinality(A)
BY FS_Subset, FS_CardinalityType

LEMMA OneMore ==
    ASSUME NEW A, NEW B, NEW x, IsFiniteSet(A), B \subseteq A \cup {x}
    PROVE  /\ IsFiniteSet(B) /\ Cardinality(B) \in Nat /\ Cardinality(A) \in Nat
           /\ Cardinality(B) <= Cardinality(A) + 1
<1>1. IsFiniteSet(A \cup {x}) /\ Cardinality(A) \in Nat
  BY FS_AddElement, FS_CardinalityType
<1>2. Cardinality(A \cup {x}) = IF x \in A THEN Cardinality(A) ELSE Cardinality(A) + 1
  BY FS_AddElement
<1>3. Cardinality(A \cup {x}) <= Cardinality(A) + 1 /\ Cardinality(A \cup {x}) \in Nat
  BY <1>1, <1>2
<1>4. /\ IsFiniteSet(B) /\ Cardinality(B) \in Nat
      /\ Cardinality(B) <= Cardinality(A \cup {x})
  BY <1>1, Subfinite
<1> QED
  BY <1>1, <1>3, <1>4

LEMMA LimitIsNatural == limit \in Nat
<1>1. Cardinality(Configs) \in Nat
  BY ParallelAssumption, FS_CardinalityType
<1> QED
  BY <1>1, ParallelAssumption DEF limit

(* As many sandboxes are owned as goroutines hold one.                     *)
LEMMA OwnedBySlots ==
    ASSUME RunnerTyped
    PROVE  /\ IsFiniteSet(Taken) /\ Cardinality(Taken) \in Nat
           /\ IsFiniteSet(Owned) /\ Cardinality(Owned) \in Nat
           /\ Cardinality(Owned) <= Cardinality(Taken)
<1> DEFINE H == {d \in Configs : Holding(d)}
<1>1. IsFiniteSet(Configs) /\ Taken \subseteq Configs /\ H \subseteq Taken
  BY ParallelAssumption DEF Taken, Holding
<1>2. IsFiniteSet(Taken) /\ Cardinality(Taken) \in Nat
  BY <1>1, Subfinite
<1>3. IsFiniteSet(H) /\ Cardinality(H) <= Cardinality(Taken) /\ Cardinality(H) \in Nat
  BY <1>1, <1>2, Subfinite
<1>4. Owned = {box[c] : c \in H}
  BY DEF Owned, Holding
<1> DEFINE f == [c \in H |-> box[c]]
<1>5. f \in Surjection(H, Owned)
  BY <1>4 DEF Surjection
<1>6. IsFiniteSet(Owned) /\ Cardinality(Owned) <= Cardinality(H)
  <2> HIDE DEF f, H
  <2> QED
    BY <1>3, <1>5, FS_Surjection
<1>7. Cardinality(Owned) \in Nat
  BY <1>6, FS_CardinalityType
<1> QED
  BY <1>2, <1>3, <1>6, <1>7
-----------------------------------------------------------------------------
(* A step that moves one goroutine and makes or removes no sandbox; what   *)
(* the goroutine holds, it held before.                                    *)
LEMMA MovesOnly ==
    ASSUME RunnerInv, NEW c \in Configs, Cardinality(Taken') <= limit,
           NEW to \in {"provisioning", "working", "destroying", "leaving", "done"},
           Moves(c, to), Holding(c) <=> to \in {"working", "destroying"},
           exists' = exists, boxes' = boxes, provider' = provider,
           UNCHANGED <<box, live, faults>>
    PROVE  RunnerInv'
<1>1. RunnerTyped'
  BY DEF RunnerInv, RunnerTyped, Moves
<1>2. \A d \in Configs : Holding(d)' <=> Holding(d)
  BY DEF RunnerInv, RunnerTyped, Moves, Holding
<1>3. Owned' = Owned
  BY <1>2 DEF Owned, Holding
<1> QED
  BY <1>1, <1>2, <1>3 DEF RunnerInv, BoxesApart, FewUnowned, Unowned, SlotsKept

(* A goroutine that keeps its slot, or never gets one, takes no slot.      *)
LEMMA SameSlots ==
    ASSUME RunnerTyped, NEW c \in Configs,
           NEW to \in {"provisioning", "cloning", "working", "destroying", "leaving", "done"},
           Moves(c, to), goroutine[c] = "waiting" => to = "done",
           goroutine[c] # "waiting" => to # "done", goroutine[c] # "done"
    PROVE  Taken' = Taken
BY DEF RunnerTyped, Moves, Taken

LEMMA SlotStep ==
    ASSUME RunnerInv, NEW c \in Configs,
           AcquireSlot(c) \/ GiveUpWaiting(c) \/ ReleaseSlot(c)
    PROVE  RunnerInv'
<1> USE DEF RunnerInv, managerVars, At
<1>1. CASE AcquireSlot(c)
  <2>1. Taken' = Taken \cup {c}
    BY <1>1 DEF AcquireSlot, RunnerTyped, Moves, Taken
  <2>2. Cardinality(Taken') <= Cardinality(Taken) + 1 /\ Cardinality(Taken') \in Nat
    BY <2>1, OwnedBySlots, OneMore
  <2>3. Cardinality(Taken') <= limit
    BY <1>1, <2>2, OwnedBySlots, LimitIsNatural DEF AcquireSlot
  <2> QED
    BY <1>1, <2>3, MovesOnly DEF AcquireSlot, Holding
<1>2. CASE GiveUpWaiting(c)
  <2>1. Taken' = Taken
    BY <1>2, SameSlots DEF GiveUpWaiting
  <2> QED
    BY <1>2, <2>1, MovesOnly DEF GiveUpWaiting, Holding, SlotsKept
<1>3. CASE ReleaseSlot(c)
  <2>1. Taken' \subseteq Taken
    BY <1>3 DEF ReleaseSlot, RunnerTyped, Moves, Taken
  <2>2. Cardinality(Taken') <= limit
    <3>1. Cardinality(Taken') <= Cardinality(Taken) /\ Cardinality(Taken') \in Nat
      BY <2>1, OwnedBySlots, Subfinite
    <3> QED
      BY <3>1, OwnedBySlots, LimitIsNatural DEF SlotsKept
  <2> QED
    BY <1>3, <2>2, MovesOnly DEF ReleaseSlot, Holding
<1> QED
  BY <1>1, <1>2, <1>3

LEMMA WorkStep ==
    ASSUME RunnerInv, NEW c \in Configs,
           ProvisionRefused(c) \/ ProvisionSucceeds(c) \/ FnReturns(c)
    PROVE  RunnerInv'
<1> USE DEF RunnerInv, managerVars, At
<1>1. CASE ProvisionRefused(c)
  <2>1. Taken' = Taken
    BY <1>1, SameSlots DEF ProvisionRefused
  <2> QED
    BY <1>1, <2>1, MovesOnly DEF ProvisionRefused, Holding, SlotsKept
<1>2. CASE ProvisionSucceeds(c)
  <2>1. Taken' = Taken
    BY <1>2, SameSlots DEF ProvisionSucceeds
  <2> QED
    BY <1>2, <2>1, MovesOnly DEF ProvisionSucceeds, Provisioned, Holding, SlotsKept
<1>3. CASE FnReturns(c)
  <2>1. Taken' = Taken
    BY <1>3, SameSlots DEF FnReturns
  <2> QED
    BY <1>3, <2>1, MovesOnly DEF FnReturns, Holding, SlotsKept
<1> QED
  BY <1>1, <1>2, <1>3

LEMMA FaultsCounted ==
    ASSUME RunnerTyped, NEW fault \in BOOLEAN, Faulty(fault)
    PROVE  faults' = (IF fault THEN faults + 1 ELSE faults) /\ faults' \in Nat
BY DEF RunnerTyped, Faulty

(* A new sandbox is its goroutine's, or nobody's if the reply was lost.    *)
LEMMA BeginStep ==
    ASSUME RunnerInv, NEW c \in Configs, NEW b \in Boxes, NEW fault \in BOOLEAN,
           ProvisionBegins(c, b, fault)
    PROVE  RunnerInv'
<1> USE DEF RunnerInv
<1>1. /\ exists' = exists \cup {b} /\ boxes' = boxes \cup {b} /\ provider' = provider
      /\ b \notin boxes /\ live' = live /\ goroutine[c] = "provisioning"
  BY DEF ProvisionBegins, Create, Comes, FreshBox, LocalCreate, DockerCreate, E2BCreate, At
<1>2. faults' = (IF fault THEN faults + 1 ELSE faults) /\ faults' \in Nat
  BY FaultsCounted DEF ProvisionBegins
<1>3. IsFiniteSet(exists')
  BY <1>1, FS_AddElement DEF RunnerTyped
<1>4. RunnerTyped'
  BY <1>1, <1>2, <1>3 DEF ProvisionBegins, RunnerTyped, Moves
<1>5. Taken' = Taken
  BY <1>1, SameSlots DEF ProvisionBegins
<1>6. \A d \in Configs : d # c => (Holding(d)' <=> Holding(d)) /\ box'[d] = box[d]
  BY DEF ProvisionBegins, RunnerTyped, Moves, Holding
<1>7. IsFiniteSet(Unowned)
  BY FS_Subset DEF Unowned, RunnerTyped
<1>8. CASE fault
  <2>1. ~Holding(c) /\ ~Holding(c)' /\ box' = box
    BY <1>1, <1>8 DEF ProvisionBegins, RunnerTyped, Moves, Holding
  <2>2. \A d \in Configs : Holding(d)' <=> Holding(d)
    BY <1>6, <2>1
  <2>3. Owned' = Owned
    BY <2>1, <2>2 DEF Owned, Holding
  <2>4. Unowned' \subseteq Unowned \cup {b}
    BY <1>1, <2>3 DEF Unowned
  <2>5. Cardinality(Unowned') <= Cardinality(Unowned) + 1 /\ Cardinality(Unowned') \in Nat
        /\ Cardinality(Unowned) \in Nat
    BY <1>7, <2>4, OneMore
  <2>6. FewUnowned'
    BY <1>1, <1>2, <1>8, <2>5 DEF FewUnowned, RunnerTyped
  <2>7. BoxesApart'
    BY <1>1, <2>1, <2>2 DEF BoxesApart
  <2> QED
    BY <1>4, <1>5, <2>6, <2>7 DEF SlotsKept
<1>9. CASE ~fault
  <2>1. ~Holding(c) /\ Holding(c)' /\ box'[c] = b
    BY <1>1, <1>9 DEF ProvisionBegins, RunnerTyped, Moves, Holding
  <2>2. Owned \cup {b} \subseteq Owned'
    <3>1. ASSUME NEW x \in Owned PROVE x \in Owned'
      <4>1. PICK d \in Configs : Holding(d) /\ x = box[d]
        BY DEF Owned, Holding
      <4>2. d # c
        BY <2>1, <4>1
      <4> QED
        BY <1>6, <4>1, <4>2 DEF Owned, Holding
    <3>2. b \in Owned'
      BY <2>1 DEF Owned, Holding
    <3> QED
      BY <3>1, <3>2
  <2>3. Unowned' \subseteq Unowned
    BY <1>1, <2>2 DEF Unowned
  <2>4. /\ Cardinality(Unowned') <= Cardinality(Unowned) /\ Cardinality(Unowned') \in Nat
        /\ Cardinality(Unowned) \in Nat
    BY <1>7, <2>3, Subfinite
  <2>5. FewUnowned'
    BY <1>1, <1>2, <1>9, <2>4 DEF FewUnowned, RunnerTyped
  <2>6. BoxesApart'
    <3>1. \A d \in Configs : d # c /\ Holding(d)' => box'[d] \in boxes
      BY <1>6 DEF BoxesApart
    <3> QED
      BY <1>1, <1>6, <2>1, <3>1 DEF BoxesApart
  <2> QED
    BY <1>4, <1>5, <2>5, <2>6 DEF SlotsKept
<1> QED
  BY <1>8, <1>9

(* Destroy only ever removes, and fails only with a context that is done   *)
(* or a fault; local does not look at its context.                         *)
LEMMA DestroyRemoves ==
    ASSUME RunnerTyped, NEW b, NEW alive \in BOOLEAN, NEW fault \in BOOLEAN,
           Destroy(b, alive, fault)
    PROVE  /\ boxes' = boxes /\ provider' = provider
           /\ exists' \subseteq exists /\ exists \subseteq exists' \cup {b}
           /\ (alive \/ provider = "local") /\ ~fault => b \notin exists'
BY DEF RunnerTyped, Destroy, LocalDestroy, DockerDestroy, E2BDestroy

(* A goroutine gives up the sandbox it destroys, and no other.             *)
LEMMA GivesUp ==
    ASSUME RunnerInv, NEW c \in Configs, NEW alive \in BOOLEAN, NEW fault \in BOOLEAN,
           Holding(c), Moves(c, "leaving"), Destroy(box[c], alive, fault), Faulty(fault),
           box' = box, live' = live, live => alive
    PROVE  RunnerInv'
<1> USE DEF RunnerInv
<1>1. /\ boxes' = boxes /\ provider' = provider
      /\ exists' \subseteq exists /\ exists \subseteq exists' \cup {box[c]}
      /\ (alive \/ provider = "local") /\ ~fault => box[c] \notin exists'
  BY DestroyRemoves
<1>2. faults' = (IF fault THEN faults + 1 ELSE faults) /\ faults' \in Nat
  BY FaultsCounted
<1>3. IsFiniteSet(exists') /\ IsFiniteSet(Unowned)
  BY <1>1, FS_Subset DEF RunnerTyped, Unowned
<1>4. RunnerTyped'
  BY <1>1, <1>2, <1>3 DEF RunnerTyped, Moves
<1>5. Taken' = Taken
  BY SameSlots DEF Holding
<1>6. /\ \A d \in Configs : d # c => (Holding(d)' <=> Holding(d))
      /\ ~Holding(c)'
  BY DEF RunnerTyped, Moves, Holding
<1>7. BoxesApart'
  BY <1>1, <1>6 DEF BoxesApart
<1>8. Owned \subseteq Owned' \cup {box[c]}
  BY <1>6 DEF Owned, Holding
<1>9. Unowned' \subseteq Unowned \cup {box[c]}
  BY <1>1, <1>8 DEF Unowned
<1>10. FewUnowned'
  <2> SUFFICES ASSUME live \/ provider = "local"
               PROVE  Cardinality(Unowned') <= faults'
    BY <1>1 DEF FewUnowned
  <2>1. Cardinality(Unowned) <= faults
    BY DEF FewUnowned
  <2>2. CASE fault
    <3>1. Cardinality(Unowned') <= Cardinality(Unowned) + 1 /\ Cardinality(Unowned') \in Nat
          /\ Cardinality(Unowned) \in Nat
      BY <1>3, <1>9, OneMore
    <3> QED
      BY <1>2, <2>1, <2>2, <3>1 DEF RunnerTyped
  <2>3. CASE ~fault
    <3>1. Unowned' \subseteq Unowned
      BY <1>1, <1>9, <2>3 DEF Unowned
    <3>2. Cardinality(Unowned') <= Cardinality(Unowned) /\ Cardinality(Unowned') \in Nat
          /\ Cardinality(Unowned) \in Nat
      BY <1>3, <3>1, Subfinite
    <3> QED
      BY <1>2, <2>1, <2>3, <3>2 DEF RunnerTyped
  <2> QED
    BY <2>2, <2>3
<1> QED
  BY <1>4, <1>5, <1>7, <1>10 DEF SlotsKept

LEMMA RunnerInductive ==
    ASSUME RunnerInv, [ParallelNext]_allParallelVars PROVE RunnerInv'
<1>1. ASSUME NEW c \in Configs, NEW fault \in BOOLEAN, ProvisionFails(c, fault)
      PROVE  RunnerInv'
  BY <1>1, GivesUp DEF ProvisionFails, CleanupOnError, Holding, At
<1>2. ASSUME NEW c \in Configs, NEW fault \in BOOLEAN, DeferredDestroy(c, fault)
      PROVE  RunnerInv'
  BY <1>2, GivesUp DEF DeferredDestroy, Holding, At, RunnerInv, RunnerTyped
<1>3. CASE ContextEnds \/ RunReturns \/ UNCHANGED allParallelVars
  <2>1. /\ UNCHANGED <<provider, boxes, exists, goroutine, box, faults>>
        /\ live' \in BOOLEAN /\ (live' => live)
    <3>1. CASE ContextEnds
      BY <3>1 DEF ContextEnds, managerVars, RunnerInv, RunnerTyped
    <3>2. CASE RunReturns
      BY <3>2 DEF RunReturns, managerVars, RunnerInv, RunnerTyped
    <3>3. CASE UNCHANGED allParallelVars
      BY <3>3 DEF allParallelVars, parallelVars, managerVars, RunnerInv, RunnerTyped
    <3> QED
      BY <1>3, <3>1, <3>2, <3>3
  <2>2. Taken' = Taken /\ Owned' = Owned /\ \A c \in Configs : Holding(c)' <=> Holding(c)
    BY <2>1 DEF Taken, Owned, Holding
  <2> QED
    BY <2>1, <2>2 DEF RunnerInv, RunnerTyped, BoxesApart, FewUnowned, Unowned, SlotsKept
<1> QED
  BY <1>1, <1>2, <1>3, SlotStep, WorkStep, BeginStep DEF ParallelNext

LEMMA RunnerInitially == ASSUME ParallelInit PROVE RunnerInv
<1>1. Taken = {} /\ Unowned = {} /\ \A c \in Configs : ~Holding(c)
  BY DEF ParallelInit, ManagersInit, Taken, Unowned, Holding
<1>2. RunnerTyped
  BY FS_EmptySet, ManagersAssumption DEF ParallelInit, ManagersInit, RunnerTyped
<1>3. Cardinality({}) = 0
  BY FS_EmptySet
<1> QED
  BY <1>1, <1>2, <1>3, LimitIsNatural
  DEF RunnerInv, BoxesApart, FewUnowned, SlotsKept, RunnerTyped

LEMMA RunnerMeansAccounted == ASSUME RunnerInv PROVE SandboxesAccounted
<1> SUFFICES ASSUME live \/ provider = "local"
             PROVE  Cardinality(exists \ Owned) <= faults /\ Cardinality(exists) <= limit + faults
  BY DEF SandboxesAccounted
<1>1. Cardinality(Unowned) <= faults /\ IsFiniteSet(Unowned) /\ Cardinality(Unowned) \in Nat
  BY FS_Subset, FS_CardinalityType DEF RunnerInv, RunnerTyped, FewUnowned, Unowned
<1>2. /\ IsFiniteSet(Owned) /\ Cardinality(Owned) \in Nat /\ Cardinality(Taken) \in Nat
      /\ Cardinality(Owned) <= Cardinality(Taken) /\ Cardinality(Taken) <= limit
  BY OwnedBySlots DEF RunnerInv, SlotsKept
<1>3. /\ IsFiniteSet(Owned \cap exists) /\ Cardinality(Owned \cap exists) <= Cardinality(Owned)
      /\ Cardinality(Owned \cap exists) \in Nat
  BY <1>2, Subfinite
<1>4. exists = (Owned \cap exists) \cup Unowned /\ (Owned \cap exists) \cap Unowned = {}
  BY DEF Unowned
<1>5. Cardinality(exists) = Cardinality(Owned \cap exists) + Cardinality(Unowned)
  <2>1. Cardinality((Owned \cap exists) \cap Unowned) = 0
    BY <1>4, FS_EmptySet
  <2>2. Cardinality((Owned \cap exists) \cup Unowned)
            = Cardinality(Owned \cap exists) + Cardinality(Unowned)
              - Cardinality((Owned \cap exists) \cap Unowned)
    BY <1>1, <1>3, FS_Union
  <2>3. Cardinality(exists) = Cardinality((Owned \cap exists) \cup Unowned)
    BY <1>4, Zenon
  <2> QED
    BY <1>1, <1>3, <2>1, <2>2, <2>3
<1> QED
  BY <1>1, <1>2, <1>3, <1>5, LimitIsNatural DEF RunnerInv, RunnerTyped, Unowned

(* Goroutines that provision, work and destroy in any order, fail anywhere *)
(* and are timed out anywhere keep to their slots and lose no sandbox but  *)
(* by a lost reply or a failed removal (parallel_sandbox.go).              *)
THEOREM SandboxesAreAccounted == ParallelSpec => []SandboxesAccounted
BY RunnerInitially, RunnerInductive, RunnerMeansAccounted, PTL DEF ParallelSpec

(* The same of the run that explores the runner beside the other machines. *)
THEOREM RunnerIsAccounted == GuardsSpec => []RunnerAccounted
<1> DEFINE Runs == scenario = "parallel" => RunnerInv
<1>1. GuardsInit => Runs
  BY RunnerInitially DEF GuardsInit
<1>2. Runs /\ [GuardsNext]_guardVars => Runs'
  <2> SUFFICES ASSUME Runs, [GuardsNext]_guardVars, scenario' = "parallel" PROVE RunnerInv'
    OBVIOUS
  <2>1. scenario' = scenario
    BY DEF GuardsNext, guardVars
  <2>2. ParallelNext \/ UNCHANGED allParallelVars
    BY <2>1 DEF GuardsNext, Moves1, Moves2, guardVars, managers, allParallelVars
  <2> QED
    BY <2>1, <2>2, RunnerInductive
<1>3. Runs => RunnerAccounted
  BY RunnerMeansAccounted DEF RunnerAccounted
<1> QED
  <2>1. GuardsSpec => GuardsInit /\ [][GuardsNext]_guardVars
    BY PTL DEF GuardsSpec
  <2> HIDE DEF Runs
  <2> QED
    BY <1>1, <1>2, <1>3, <2>1, PTL
=============================================================================
