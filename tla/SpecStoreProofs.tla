--------------------------- MODULE SpecStoreProofs --------------------------
(***************************************************************************)
(* The history of a spec is sound for any editors, generation jobs, notes, *)
(* attempts and troubles: no gap in the versions, no execution that stores *)
(* two specs, and every missing review or note paid for by a trouble.      *)
(***************************************************************************)
EXTENDS SpecStore, FiniteSetTheorems, SequenceTheorems, TLAPS

Steps == {"none", "idle", "queued", "asking", "storing", "announcing", "announced",
          "done", "failed"}
Reviews == [at : Steps, executions : Nat, left : Nat]
Jobs == [at : Steps, executions : Nat, row : Nat]

SpecTypes ==
    /\ rows \in Seq([version : Nat, by : Generators \cup {"user"}])
    /\ review \in Seq(Reviews) /\ Len(review) = Len(rows)
    /\ notes \in Seq(Nat) /\ Len(notes) = Len(rows)
    /\ specTroubles \in Nat
    /\ editor \in [Editors -> [at : {"idle", "locking", "inserting"}, row : Nat]]
    /\ generator \in [Generators -> Jobs]

(* Rows are never deleted, so the row an editor or a job holds is there.   *)
RowsHeldExist ==
    /\ \A e \in Editors : editor[e].at # "idle" => editor[e].row \in DOMAIN rows
    /\ \A g \in Generators : generator[g].at = "announcing" =>
          /\ generator[g].row \in DOMAIN rows
          /\ rows[generator[g].row].by = g

(* A number is only ever inserted after its predecessor.                   *)
NoGap == \E n \in Nat : Versions = 1..n

(* An execution stores its spec when it leaves "asking".                   *)
StoresOncePerExecution ==
    \A g \in Generators :
        /\ Cardinality(StoredBy(g)) <= generator[g].executions
        /\ generator[g].at = "asking" => Cardinality(StoredBy(g)) < generator[g].executions
        /\ generator[g].at \in {"announcing", "announced", "done"} => StoredBy(g) # {}

(* Generated specs without a review whose job is not about to ask for it.  *)
Lost ==
    {i \in DOMAIN rows :
        /\ rows[i].by # "user" /\ review[i].at = "none"
        /\ ~(\E g \in Generators : generator[g].at = "announcing" /\ generator[g].row = i)}
LossesPaid == Cardinality(Lost) <= specTroubles

(* The notes still to store count as stored until one fails.               *)
NotesPaid ==
    \A i \in DOMAIN rows :
        review[i].at \in {"storing", "done"} =>
            notes[i] + review[i].left + specTroubles >= NotesPerReview
LeftIsDone == \A i \in DOMAIN rows : review[i].at = "done" => review[i].left = 0

SpecInv ==
    SpecTypes /\ RowsHeldExist /\ NoGap /\ StoresOncePerExecution
    /\ LossesPaid /\ NotesPaid /\ LeftIsDone
-----------------------------------------------------------------------------
LEMMA SpecNats == NotesPerReview \in Nat /\ MaxSpecTroubles \in Nat /\ "user" \notin Generators
BY SpecAssumption

LEMMA SameLength ==
    ASSUME SpecTypes
    PROVE  /\ Len(rows) \in Nat
           /\ DOMAIN rows = 1..Len(rows) /\ DOMAIN review = 1..Len(rows)
           /\ DOMAIN notes = 1..Len(rows)
BY LenProperties DEF SpecTypes

LEMMA RowTyped ==
    ASSUME SpecTypes, NEW i \in DOMAIN rows
    PROVE  /\ rows[i] \in [version : Nat, by : Generators \cup {"user"}]
           /\ review[i] \in Reviews /\ notes[i] \in Nat
<1>1. /\ i \in 1..Len(rows) /\ i \in 1..Len(review) /\ i \in 1..Len(notes)
      /\ rows \in Seq([version : Nat, by : Generators \cup {"user"}])
      /\ review \in Seq(Reviews) /\ notes \in Seq(Nat)
  BY SameLength DEF SpecTypes
<1>2. rows[i] \in [version : Nat, by : Generators \cup {"user"}]
  BY <1>1, ElementOfSeq
<1>3. review[i] \in Reviews
  BY <1>1, ElementOfSeq
<1>4. notes[i] \in Nat
  BY <1>1, ElementOfSeq
<1> QED
  BY <1>2, <1>3, <1>4

LEMMA OneMore ==
    ASSUME NEW S, NEW x, IsFiniteSet(S)
    PROVE  /\ IsFiniteSet(S \cup {x}) /\ Cardinality(S \cup {x}) \in Nat
           /\ Cardinality(S \cup {x}) <= Cardinality(S) + 1
<1>1. Cardinality(S) \in Nat
  BY FS_CardinalityType
<1>2. IsFiniteSet(S \cup {x})
      /\ Cardinality(S \cup {x}) = IF x \in S THEN Cardinality(S) ELSE Cardinality(S) + 1
  BY FS_AddElement
<1> QED
  BY <1>1, <1>2

LEMMA FiniteParts ==
    ASSUME SpecTypes, NEW T \in SUBSET (DOMAIN rows)
    PROVE  IsFiniteSet(T) /\ Cardinality(T) \in Nat
<1>1. IsFiniteSet(DOMAIN rows)
  BY SameLength, FS_Interval
<1>2. IsFiniteSet(T)
  BY <1>1, FS_Subset
<1> QED
  BY <1>2, FS_CardinalityType
-----------------------------------------------------------------------------
(* An edit that selects, locks or gives up only moves its editor.          *)
LEMMA EditorMoves ==
    ASSUME SpecInv, NEW e \in Editors,
           NEW r \in [at : {"idle", "locking", "inserting"}, row : Nat],
           editor' = [editor EXCEPT ![e] = r],
           UNCHANGED <<rows, generator, review, notes, specTroubles>>,
           r.at # "idle" => r.row \in DOMAIN rows
    PROVE  SpecInv'
<1>1. SpecTypes'
  BY DEF SpecInv, SpecTypes
<1>2. RowsHeldExist'
  <2>1. \A o \in Editors : editor'[o] = IF o = e THEN r ELSE editor[o]
    BY DEF SpecInv, SpecTypes
  <2> QED
    BY <2>1 DEF SpecInv, RowsHeldExist
<1>3. NoGap' /\ StoresOncePerExecution'
  BY DEF SpecInv, NoGap, Versions, StoresOncePerExecution, StoredBy
<1>4. LossesPaid' /\ NotesPaid' /\ LeftIsDone'
  BY DEF SpecInv, LossesPaid, Lost, NotesPaid, LeftIsDone
<1> QED
  BY <1>1, <1>2, <1>3, <1>4 DEF SpecInv

LEMMA EditorStepsSound ==
    ASSUME SpecInv, NEW e \in Editors, SelectsLatest(e) \/ GetsLock(e) \/ EditFails(e)
    PROVE  SpecInv'
<1> DEFINE record == [at : {"idle", "locking", "inserting"}, row : Nat]
<1>0. editor[e] \in record /\ DOMAIN rows \subseteq Nat
  BY SameLength DEF SpecInv, SpecTypes
<1>1. CASE SelectsLatest(e)
  <2>1. PICK i \in DOMAIN rows : editor' = [editor EXCEPT ![e] = [at |-> "locking", row |-> i]]
    BY <1>1 DEF SelectsLatest
  <2>2. [at |-> "locking", row |-> i] \in record
    BY <1>0
  <2>3. UNCHANGED <<rows, generator, review, notes, specTroubles>>
    BY <1>1 DEF SelectsLatest
  <2> HIDE DEF record
  <2> QED
    BY <2>1, <2>2, <2>3, EditorMoves DEF record
<1>2. CASE GetsLock(e)
  <2> DEFINE r == [editor[e] EXCEPT !.at = "inserting"]
  <2>1. editor' = [editor EXCEPT ![e] = r] /\ r \in record
    BY <1>0, <1>2 DEF GetsLock
  <2>2. r.row \in DOMAIN rows
    BY <1>0, <1>2 DEF GetsLock, SpecInv, RowsHeldExist
  <2>3. UNCHANGED <<rows, generator, review, notes, specTroubles>>
    BY <1>2 DEF GetsLock
  <2> HIDE DEF r
  <2> QED
    BY <2>1, <2>2, <2>3, EditorMoves
<1>3. CASE EditFails(e)
  <2> DEFINE r == [at |-> "idle", row |-> 0]
  <2>1. editor' = [editor EXCEPT ![e] = r] /\ r \in record /\ r.at = "idle"
    BY <1>3 DEF EditFails, EditEnds
  <2>2. UNCHANGED <<rows, generator, review, notes, specTroubles>>
    BY <1>3 DEF EditFails
  <2> HIDE DEF r
  <2> QED
    BY <2>1, <2>2, EditorMoves
<1> QED
  BY <1>1, <1>2, <1>3

(* A job that moves on without storing keeps what it has stored; one that  *)
(* leaves "announcing" without asking for the review has had a trouble.    *)
LEMMA GeneratorMoves ==
    ASSUME SpecInv, NEW g \in Generators,
           NEW r \in Jobs,
           generator' = [generator EXCEPT ![g] = r],
           UNCHANGED <<rows, editor, review, notes>>,
           specTroubles' \in {specTroubles, specTroubles + 1},
           generator[g].at = "announcing" => specTroubles' = specTroubles + 1,
           r.at # "announcing",
           r.executions >= generator[g].executions,
           r.at = "asking" => r.executions > generator[g].executions,
           r.at \in {"announced", "done"} => generator[g].at \in {"announcing", "announced"}
    PROVE  SpecInv'
<1>1. SpecTypes'
  BY DEF SpecInv, SpecTypes
<1>2. RowsHeldExist'
  <2>1. \A k \in Generators : generator'[k] = IF k = g THEN r ELSE generator[k]
    BY DEF SpecInv, SpecTypes
  <2> QED
    BY <2>1 DEF SpecInv, RowsHeldExist
<1>3. NoGap' /\ LeftIsDone'
  BY DEF SpecInv, NoGap, Versions, LeftIsDone
<1>6. NotesPaid'
  <2> SUFFICES ASSUME NEW i \in DOMAIN rows, review[i].at \in {"storing", "done"}
      PROVE notes[i] + review[i].left + specTroubles' >= NotesPerReview
    BY DEF NotesPaid
  <2>1. notes[i] + review[i].left + specTroubles >= NotesPerReview
    BY DEF SpecInv, NotesPaid
  <2>2. notes[i] \in Nat /\ review[i].left \in Nat /\ specTroubles \in Nat
    BY RowTyped DEF SpecInv, SpecTypes, Reviews
  <2> QED
    BY <2>1, <2>2, SpecNats
<1>4. StoresOncePerExecution'
  <2> SUFFICES ASSUME NEW k \in Generators
      PROVE /\ Cardinality(StoredBy(k)) <= generator'[k].executions
            /\ generator'[k].at = "asking" => Cardinality(StoredBy(k)) < generator'[k].executions
            /\ generator'[k].at \in {"announcing", "announced", "done"} => StoredBy(k) # {}
    BY DEF StoresOncePerExecution, StoredBy
  <2>1. Cardinality(StoredBy(k)) \in Nat
    BY FiniteParts DEF SpecInv, StoredBy
  <2>2. generator'[k] = IF k = g THEN r ELSE generator[k]
    BY DEF SpecInv, SpecTypes
  <2>3. /\ Cardinality(StoredBy(k)) <= generator[k].executions
        /\ generator[k].at = "asking" => Cardinality(StoredBy(k)) < generator[k].executions
        /\ generator[k].at \in {"announcing", "announced", "done"} => StoredBy(k) # {}
        /\ generator[k].executions \in Nat
    BY DEF SpecInv, SpecTypes, StoresOncePerExecution, Jobs
  <2> QED
    <3>1. CASE k = g
      <4>1. Cardinality(StoredBy(g)) <= r.executions /\ r.executions \in Nat
        BY <2>1, <2>3, <3>1 DEF Jobs
      <4>2. r.at = "asking" => Cardinality(StoredBy(g)) < r.executions
        BY <2>1, <2>3, <3>1, <4>1
      <4>3. r.at \in {"announcing", "announced", "done"} => StoredBy(g) # {}
        BY <2>3, <3>1
      <4> QED
        BY <2>2, <3>1, <4>1, <4>2, <4>3
    <3>2. CASE k # g
      BY <2>2, <2>3, <3>2
    <3> QED
      BY <3>1, <3>2
<1>5. LossesPaid'
  <2>1. Lost' \subseteq Lost \cup {generator[g].row} /\ (generator[g].at # "announcing" => Lost' \subseteq Lost)
    BY DEF SpecInv, SpecTypes, Lost
  <2>2. IsFiniteSet(Lost) /\ Cardinality(Lost) \in Nat /\ specTroubles \in Nat
    BY FiniteParts DEF SpecInv, SpecTypes, Lost
  <2>3. /\ IsFiniteSet(Lost \cup {generator[g].row})
        /\ Cardinality(Lost \cup {generator[g].row}) <= Cardinality(Lost) + 1
        /\ Cardinality(Lost \cup {generator[g].row}) \in Nat
    BY <2>2, OneMore
  <2>4. Cardinality(Lost') \in Nat
    BY <2>1, <2>3, FS_Subset, FS_CardinalityType
  <2>5. CASE generator[g].at = "announcing"
    <3>1. Cardinality(Lost') <= Cardinality(Lost) + 1
      BY <2>1, <2>2, <2>3, <2>4, FS_Subset
    <3> QED
      BY <2>2, <2>4, <2>5, <3>1 DEF SpecInv, LossesPaid
  <2>6. CASE generator[g].at # "announcing"
    <3>1. Cardinality(Lost') <= Cardinality(Lost)
      BY <2>1, <2>2, <2>6, FS_Subset
    <3> QED
      BY <2>2, <2>4, <3>1 DEF SpecInv, LossesPaid
  <2> QED
    BY <2>5, <2>6
<1> QED
  BY <1>1, <1>2, <1>3, <1>4, <1>5, <1>6 DEF SpecInv

(* A review that has been asked for stays; its notes are stored, still to  *)
(* come, or paid for.                                                      *)
LEMMA ReviewMoves ==
    ASSUME SpecInv, NEW i \in DOMAIN rows, NEW r \in Reviews, NEW n \in Nat,
           review' = [review EXCEPT ![i] = r], notes' = [notes EXCEPT ![i] = n],
           UNCHANGED <<rows, generator, editor>>,
           specTroubles' \in {specTroubles, specTroubles + 1},
           r.at # "none",
           r.at \in {"storing", "done"} => n + r.left + specTroubles' >= NotesPerReview,
           r.at = "done" => r.left = 0
    PROVE  SpecInv'
<1>0. /\ i \in 1..Len(rows) /\ i \in 1..Len(review) /\ i \in 1..Len(notes)
      /\ DOMAIN rows = 1..Len(rows) /\ specTroubles \in Nat
  BY SameLength DEF SpecInv, SpecTypes
<1>1. /\ review' \in Seq(Reviews) /\ Len(review') = Len(review)
      /\ \A j \in DOMAIN rows : review'[j] = IF j = i THEN r ELSE review[j]
  BY <1>0, ExceptSeq DEF SpecInv, SpecTypes
<1>2. /\ notes' \in Seq(Nat) /\ Len(notes') = Len(notes)
      /\ \A j \in DOMAIN rows : notes'[j] = IF j = i THEN n ELSE notes[j]
  BY <1>0, ExceptSeq DEF SpecInv, SpecTypes
<1>3. SpecTypes'
  BY <1>0, <1>1, <1>2 DEF SpecInv, SpecTypes
<1>4. RowsHeldExist' /\ NoGap' /\ StoresOncePerExecution'
  BY DEF SpecInv, RowsHeldExist, NoGap, Versions, StoresOncePerExecution, StoredBy
<1>5. LossesPaid'
  <2>1. Lost' \subseteq Lost
    BY <1>1 DEF Lost
  <2>2. IsFiniteSet(Lost) /\ Cardinality(Lost) \in Nat
    BY FiniteParts DEF SpecInv, Lost
  <2>3. Cardinality(Lost') <= Cardinality(Lost) /\ Cardinality(Lost') \in Nat
    BY <2>1, <2>2, FS_Subset, FS_CardinalityType
  <2> QED
    BY <1>0, <2>2, <2>3 DEF SpecInv, LossesPaid
<1>6. NotesPaid' /\ LeftIsDone'
  <2> SUFFICES ASSUME NEW j \in DOMAIN rows
      PROVE /\ review'[j].at \in {"storing", "done"} =>
                 notes'[j] + review'[j].left + specTroubles' >= NotesPerReview
            /\ review'[j].at = "done" => review'[j].left = 0
    BY DEF NotesPaid, LeftIsDone
  <2>1. CASE j = i
    BY <1>1, <1>2, <2>1
  <2>2. CASE j # i
    <3>1. review'[j] = review[j] /\ notes'[j] = notes[j]
      BY <1>1, <1>2, <2>2
    <3>2. notes[j] \in Nat /\ review[j].left \in Nat
      BY RowTyped DEF SpecInv, Reviews
    <3>3. /\ review[j].at \in {"storing", "done"} =>
                 notes[j] + review[j].left + specTroubles >= NotesPerReview
          /\ review[j].at = "done" => review[j].left = 0
      BY DEF SpecInv, NotesPaid, LeftIsDone
    <3>4. notes[j] + review[j].left + specTroubles >= NotesPerReview
          => notes[j] + review[j].left + specTroubles' >= NotesPerReview
      BY <1>0, <3>2, SpecNats
    <3> QED
      BY <3>1, <3>3, <3>4
  <2> QED
    BY <2>1, <2>2
<1> QED
  BY <1>3, <1>4, <1>5, <1>6 DEF SpecInv

(* The review is enqueued, and the row that waited for it is no longer     *)
(* without one.                                                            *)
LEMMA TriggerKeepsHistory ==
    ASSUME SpecInv, NEW g \in Generators, TriggersReview(g, FALSE)
    PROVE  SpecInv'
<1> DEFINE i == generator[g].row
           r == [review[i] EXCEPT !.at = "queued"]
<1>0. /\ i \in DOMAIN rows /\ i \in 1..Len(review) /\ generator[g].at = "announcing"
      /\ generator' = [generator EXCEPT ![g].at = "announced"]
      /\ review' = [review EXCEPT ![i] = r]
      /\ UNCHANGED <<rows, editor, notes, specTroubles>>
  BY SameLength DEF SpecInv, SpecTypes, RowsHeldExist, TriggersReview, GeneratorGoes
<1>1. r \in Reviews
  BY <1>0, RowTyped DEF SpecInv, Reviews, Steps
<1>2. /\ review' \in Seq(Reviews) /\ Len(review') = Len(review)
      /\ \A j \in DOMAIN rows : review'[j] = IF j = i THEN r ELSE review[j]
  BY <1>0, <1>1, ExceptSeq, SameLength DEF SpecInv, SpecTypes
<1>3. SpecTypes'
  <2>1. generator \in [Generators -> Jobs] /\ [generator[g] EXCEPT !.at = "announced"] \in Jobs
    BY DEF SpecInv, SpecTypes, Jobs, Steps
  <2>2. generator' \in [Generators -> Jobs]
    BY <1>0, <2>1
  <2> HIDE DEF i, r
  <2> QED
    BY <1>0, <1>2, <2>2 DEF SpecInv, SpecTypes
<1>4. RowsHeldExist' /\ NoGap'
  <2>1. \A k \in Generators : generator'[k].at = "announcing" => generator'[k] = generator[k]
    <3>1. generator \in [Generators -> Jobs] /\ generator'[g].at = "announced"
      BY <1>0 DEF SpecInv, SpecTypes, Jobs
    <3>2. \A k \in Generators \ {g} : generator'[k] = generator[k]
      BY <1>0, <3>1
    <3> QED
      BY <3>1, <3>2
  <2> QED
    BY <1>0, <2>1 DEF SpecInv, RowsHeldExist, NoGap, Versions
<1>5. StoresOncePerExecution'
  <2>1. \A k \in Generators :
            /\ generator'[k].executions = generator[k].executions
            /\ generator'[k].at = "asking" => generator[k].at = "asking"
            /\ generator'[k].at \in {"announcing", "announced", "done"} =>
                   generator[k].at \in {"announcing", "announced", "done"}
    BY <1>0 DEF SpecInv, SpecTypes, Jobs
  <2>2. \A k \in Generators : StoredBy(k)' = StoredBy(k)
    BY <1>0 DEF StoredBy
  <2> QED
    BY <2>1, <2>2 DEF SpecInv, StoresOncePerExecution
<1>6. LossesPaid'
  <2>1. Lost' \subseteq Lost
    BY <1>0, <1>1, <1>2 DEF SpecInv, SpecTypes, Lost
  <2>2. IsFiniteSet(Lost) /\ Cardinality(Lost) \in Nat
    BY FiniteParts DEF SpecInv, Lost
  <2>3. Cardinality(Lost') <= Cardinality(Lost) /\ Cardinality(Lost') \in Nat
    BY <2>1, <2>2, FS_Subset, FS_CardinalityType
  <2> QED
    BY <1>0, <2>2, <2>3 DEF SpecInv, SpecTypes, LossesPaid
<1>7. NotesPaid' /\ LeftIsDone'
  <2>1. \A j \in DOMAIN rows :
            review'[j].at \in {"storing", "done"} => review'[j] = review[j]
    BY <1>0, <1>2, RowTyped DEF SpecInv, Reviews
  <2> QED
    BY <1>0, <2>1 DEF SpecInv, NotesPaid, LeftIsDone
<1> QED
  BY <1>3, <1>4, <1>5, <1>6, <1>7 DEF SpecInv
-----------------------------------------------------------------------------
(* An INSERT adds a row at the end, without a review and without notes.    *)
LEMMA RowAdded ==
    ASSUME SpecTypes, NEW v \in Nat, NEW who \in Generators \cup {"user"}, CreateSpec(v, who)
    PROVE  /\ rows' \in Seq([version : Nat, by : Generators \cup {"user"}])
           /\ review' \in Seq(Reviews) /\ notes' \in Seq(Nat)
           /\ Len(rows') = Len(rows) + 1 /\ Len(review') = Len(rows') /\ Len(notes') = Len(rows')
           /\ DOMAIN rows' = DOMAIN rows \cup {Len(rows')} /\ Len(rows') \notin DOMAIN rows
           /\ \A i \in DOMAIN rows :
                 rows'[i] = rows[i] /\ review'[i] = review[i] /\ notes'[i] = notes[i]
           /\ rows'[Len(rows')] = [version |-> v, by |-> who]
           /\ review'[Len(rows')] = NoReview /\ notes'[Len(rows')] = 0
<1>1. [version |-> v, by |-> who] \in [version : Nat, by : Generators \cup {"user"}]
      /\ NoReview \in Reviews
  BY DEF NoReview, Reviews, Steps
<1>2. /\ Len(rows) \in Nat /\ Len(review) = Len(rows) /\ Len(notes) = Len(rows)
      /\ DOMAIN rows = 1..Len(rows)
  BY SameLength DEF SpecTypes
<1>3. /\ rows' \in Seq([version : Nat, by : Generators \cup {"user"}])
      /\ Len(rows') = Len(rows) + 1
      /\ \A i \in 1..Len(rows) : rows'[i] = rows[i]
      /\ rows'[Len(rows) + 1] = [version |-> v, by |-> who]
  BY <1>1, AppendProperties DEF SpecTypes, CreateSpec
<1>4. /\ review' \in Seq(Reviews) /\ Len(review') = Len(review) + 1
      /\ \A i \in 1..Len(review) : review'[i] = review[i]
      /\ review'[Len(review) + 1] = NoReview
  BY <1>1, AppendProperties DEF SpecTypes, CreateSpec
<1>5. /\ notes' \in Seq(Nat) /\ Len(notes') = Len(notes) + 1
      /\ \A i \in 1..Len(notes) : notes'[i] = notes[i]
      /\ notes'[Len(notes) + 1] = 0
  BY AppendProperties DEF SpecTypes, CreateSpec
<1>6. DOMAIN rows' = 1..(Len(rows) + 1)
  BY <1>3, LenProperties
<1> QED
  BY <1>2, <1>3, <1>4, <1>5, <1>6

(* The parts of the invariant that an insertion keeps whoever inserts, if  *)
(* the version is 1 or follows one that is there.                          *)
LEMMA InsertKeepsVersions ==
    ASSUME SpecInv, NEW v \in Nat, NEW who \in Generators \cup {"user"}, CreateSpec(v, who),
           v = 1 \/ v - 1 \in Versions
    PROVE  NoGap'
<1>1. PICK n \in Nat : Versions = 1..n
  BY DEF SpecInv, NoGap
<1>2. Versions' = Versions \cup {v}
  <2>1. SpecTypes
    BY DEF SpecInv
  <2>2. /\ DOMAIN rows' = DOMAIN rows \cup {Len(rows')}
        /\ \A i \in DOMAIN rows : rows'[i] = rows[i]
        /\ rows'[Len(rows')] = [version |-> v, by |-> who]
    BY <2>1, RowAdded
  <2>3. rows'[Len(rows')].version = v
    BY <2>2
  <2>4. ASSUME NEW i \in DOMAIN rows' PROVE rows'[i].version \in Versions \cup {v}
    <3>1. CASE i \in DOMAIN rows
      BY <2>2, <3>1 DEF Versions
    <3>2. CASE i = Len(rows')
      BY <2>3, <3>2
    <3> QED
      BY <2>2, <2>4, <3>1, <3>2
  <2>5. ASSUME NEW i \in DOMAIN rows PROVE rows[i].version \in Versions'
    BY <2>2, <2>5 DEF Versions
  <2>6. v \in Versions'
    <3> DEFINE last == Len(rows')
    <3>1. last \in DOMAIN rows' /\ rows'[last].version = v
      BY <2>2, <2>3
    <3> HIDE DEF last
    <3> QED
      BY <3>1 DEF Versions
  <2> QED
    BY <2>4, <2>5, <2>6 DEF Versions
<1>3. CASE v \in 1..n
  BY <1>1, <1>2, <1>3 DEF NoGap
<1>4. CASE v = n + 1
  <2>1. Versions' = 1..(n + 1)
    BY <1>1, <1>2, <1>4
  <2> QED
    BY <2>1 DEF NoGap
<1> QED
  BY <1>1, <1>3, <1>4

LEMMA InsertKeepsNotes ==
    ASSUME SpecInv, NEW v \in Nat, NEW who \in Generators \cup {"user"}, CreateSpec(v, who),
           UNCHANGED specTroubles
    PROVE  NotesPaid' /\ LeftIsDone'
<1>1. /\ DOMAIN rows' = DOMAIN rows \cup {Len(rows')}
      /\ \A i \in DOMAIN rows : review'[i] = review[i] /\ notes'[i] = notes[i]
      /\ review'[Len(rows')] = NoReview
  <2>1. SpecTypes
    BY DEF SpecInv
  <2> QED
    BY <2>1, RowAdded
<1>2. review'[Len(rows')].at = "none"
  BY <1>1 DEF NoReview
<1> QED
  BY <1>1, <1>2 DEF SpecInv, NotesPaid, LeftIsDone

LEMMA EditKeepsHistory ==
    ASSUME SpecInv, NEW e \in Editors, InsertsNext(e)
    PROVE  SpecInv'
<1> DEFINE v == rows[editor[e].row].version + 1
<1>1. /\ editor[e].row \in DOMAIN rows /\ v \in Nat /\ v - 1 \in Versions
      /\ CreateSpec(v, "user")
      /\ UNCHANGED <<generator, specTroubles>>
  <2>1. editor[e].row \in DOMAIN rows
    BY DEF SpecInv, RowsHeldExist, InsertsNext
  <2> QED
    BY <2>1, RowTyped DEF SpecInv, Versions, InsertsNext
<1>2. /\ rows' \in Seq([version : Nat, by : Generators \cup {"user"}])
      /\ review' \in Seq(Reviews) /\ notes' \in Seq(Nat)
      /\ Len(review') = Len(rows') /\ Len(notes') = Len(rows')
      /\ DOMAIN rows' = DOMAIN rows \cup {Len(rows')} /\ Len(rows') \notin DOMAIN rows
      /\ \A i \in DOMAIN rows : rows'[i] = rows[i] /\ review'[i] = review[i]
      /\ rows'[Len(rows')] = [version |-> v, by |-> "user"]
  <2>1. SpecTypes
    BY DEF SpecInv
  <2> HIDE DEF v
  <2> QED
    BY <1>1, <2>1, RowAdded
<1> HIDE DEF v
<1>3. SpecTypes'
  BY <1>1, <1>2 DEF SpecInv, SpecTypes, InsertsNext, EditEnds
<1>4. RowsHeldExist'
  <2>1. \A o \in Editors : editor'[o].at # "idle" => editor'[o] = editor[o]
    BY DEF SpecInv, SpecTypes, InsertsNext, EditEnds
  <2> QED
    BY <1>1, <1>2, <2>1 DEF SpecInv, RowsHeldExist
<1>5. StoresOncePerExecution'
  <2>1. \A g \in Generators : StoredBy(g)' = StoredBy(g)
    BY <1>2, SpecNats DEF StoredBy
  <2> QED
    BY <1>1, <2>1 DEF SpecInv, StoresOncePerExecution
<1>6. LossesPaid'
  <2>1. Lost' = Lost
    BY <1>1, <1>2 DEF Lost
  <2> QED
    BY <1>1, <2>1 DEF SpecInv, LossesPaid
<1>7. NoGap' /\ NotesPaid' /\ LeftIsDone'
  BY <1>1, InsertKeepsVersions, InsertKeepsNotes
<1> QED
  BY <1>3, <1>4, <1>5, <1>6, <1>7 DEF SpecInv

LEMMA GenerationKeepsHistory ==
    ASSUME SpecInv, NEW g \in Generators, StoresSpec(g)
    PROVE  SpecInv'
<1>1. /\ CreateSpec(1, g) /\ UNCHANGED <<editor, specTroubles>>
      /\ generator[g].at = "asking"
      /\ generator' = [generator EXCEPT ![g].at = "announcing", ![g].row = Len(rows')]
  BY DEF StoresSpec
<1>2. /\ rows' \in Seq([version : Nat, by : Generators \cup {"user"}])
      /\ review' \in Seq(Reviews) /\ notes' \in Seq(Nat)
      /\ Len(review') = Len(rows') /\ Len(notes') = Len(rows')
      /\ DOMAIN rows' = DOMAIN rows \cup {Len(rows')} /\ Len(rows') \notin DOMAIN rows
      /\ \A i \in DOMAIN rows : rows'[i] = rows[i] /\ review'[i] = review[i]
      /\ rows'[Len(rows')] = [version |-> 1, by |-> g]
      /\ review'[Len(rows')] = NoReview
      /\ Len(rows') \in Nat
  <2>1. SpecTypes
    BY DEF SpecInv
  <2>2. Len(rows') \in Nat
    BY <1>1, <2>1, RowAdded, LenProperties
  <2> QED
    BY <1>1, <2>1, <2>2, RowAdded
<1>3. SpecTypes'
  <2>1. generator \in [Generators -> Jobs] /\ editor' = editor /\ specTroubles' = specTroubles
    BY <1>1 DEF SpecInv, SpecTypes
  <2>2. [generator[g] EXCEPT !.at = "announcing", !.row = Len(rows')] \in Jobs
    <3>1. generator[g] \in Jobs /\ Len(rows') \in Nat /\ "announcing" \in Steps
      BY <1>2, <2>1 DEF Steps
    <3> QED
      BY <3>1 DEF Jobs
  <2>3. generator' \in [Generators -> Jobs]
    BY <1>1, <2>1, <2>2
  <2> QED
    BY <1>2, <2>1, <2>3 DEF SpecInv, SpecTypes
<1>4. \A k \in Generators :
          generator'[k] = IF k = g THEN [generator[g] EXCEPT !.at = "announcing", !.row = Len(rows')]
                          ELSE generator[k]
  BY <1>1 DEF SpecInv, SpecTypes
<1>5. RowsHeldExist'
  <2>1. generator \in [Generators -> Jobs] /\ editor' = editor
    BY <1>1 DEF SpecInv, SpecTypes
  <2>2. \A i \in DOMAIN rows : i \in DOMAIN rows' /\ rows'[i] = rows[i]
    BY <1>2
  <2>3. generator'[g].row = Len(rows') /\ Len(rows') \in DOMAIN rows' /\ rows'[Len(rows')].by = g
    <3>1. generator[g] \in Jobs /\ generator'[g] = [generator[g] EXCEPT !.at = "announcing", !.row = Len(rows')]
      BY <1>4, <2>1
    <3>2. generator'[g].row = Len(rows')
      BY <3>1 DEF Jobs
    <3>3. Len(rows') \in DOMAIN rows' /\ rows'[Len(rows')].by = g
      BY <1>2
    <3> QED
      BY <3>2, <3>3
  <2>4. \A k \in Generators \ {g} : generator'[k] = generator[k]
    BY <1>4
  <2> QED
    BY <2>1, <2>2, <2>3, <2>4 DEF SpecInv, RowsHeldExist
<1>6. StoresOncePerExecution'
  <2> SUFFICES ASSUME NEW k \in Generators
      PROVE /\ Cardinality(StoredBy(k)') <= generator'[k].executions
            /\ generator'[k].at = "asking" => Cardinality(StoredBy(k)') < generator'[k].executions
            /\ generator'[k].at \in {"announcing", "announced", "done"} => StoredBy(k)' # {}
    BY DEF StoresOncePerExecution
  <2>1. CASE k = g
    <3>1. StoredBy(g)' = StoredBy(g) \cup {Len(rows')} /\ Len(rows') \notin StoredBy(g)
      BY <1>2 DEF StoredBy
    <3>2. IsFiniteSet(StoredBy(g)) /\ Cardinality(StoredBy(g)) \in Nat
      BY FiniteParts DEF SpecInv, StoredBy
    <3>3. Cardinality(StoredBy(g)') = Cardinality(StoredBy(g)) + 1
      BY <3>1, <3>2, FS_AddElement
    <3>4. Cardinality(StoredBy(g)) < generator[g].executions /\ generator[g].executions \in Nat
      BY <1>1 DEF SpecInv, SpecTypes, StoresOncePerExecution, Jobs
    <3>5. generator'[g].at = "announcing" /\ generator'[g].executions = generator[g].executions
      BY <1>4 DEF SpecInv, SpecTypes, Jobs
    <3> QED
      BY <2>1, <3>1, <3>2, <3>3, <3>4, <3>5
  <2>2. CASE k # g
    <3>1. StoredBy(k)' = StoredBy(k) /\ generator'[k] = generator[k]
      BY <1>2, <1>4, <2>2 DEF StoredBy
    <3> QED
      BY <3>1 DEF SpecInv, StoresOncePerExecution
  <2> QED
    BY <2>1, <2>2
<1>7. LossesPaid'
  <2>1. generator'[g].at = "announcing" /\ generator'[g].row = Len(rows')
    BY <1>4 DEF SpecInv, SpecTypes, Jobs
  <2>2. \A i \in DOMAIN rows :
            (\E k \in Generators : generator'[k].at = "announcing" /\ generator'[k].row = i)
            <=> (\E k \in Generators : generator[k].at = "announcing" /\ generator[k].row = i)
    <3>1. generator[g].at # "announcing" /\ \A i \in DOMAIN rows : generator'[g].row # i
      BY <1>1, <1>2, <2>1
    <3>2. \A k \in Generators : k # g => generator'[k] = generator[k]
      BY <1>4
    <3> QED
      BY <3>1, <3>2
  <2>3. Lost' = Lost
    <3>1. Len(rows') \notin Lost'
      BY <2>1 DEF Lost
    <3>2. \A i \in DOMAIN rows : i \in Lost' <=> i \in Lost
      BY <1>2, <2>2 DEF Lost
    <3>3. Lost \subseteq DOMAIN rows /\ Lost' \subseteq DOMAIN rows'
      BY DEF Lost
    <3> QED
      BY <1>2, <3>1, <3>2, <3>3
  <2> QED
    BY <1>1, <2>3 DEF SpecInv, LossesPaid
<1>8. NoGap' /\ NotesPaid' /\ LeftIsDone'
  BY <1>1, InsertKeepsVersions, InsertKeepsNotes
<1> QED
  BY <1>3, <1>5, <1>6, <1>7, <1>8 DEF SpecInv
-----------------------------------------------------------------------------
(* What a job's step has to show for GeneratorMoves.                       *)
JobMoves(g, r) ==
    /\ r \in Jobs
    /\ generator' = [generator EXCEPT ![g] = r]
    /\ UNCHANGED <<rows, editor, review, notes>>
    /\ specTroubles' \in {specTroubles, specTroubles + 1}
    /\ generator[g].at = "announcing" => specTroubles' = specTroubles + 1
    /\ r.at # "announcing"
    /\ r.executions >= generator[g].executions
    /\ r.at = "asking" => r.executions > generator[g].executions
    /\ r.at \in {"announced", "done"} => generator[g].at \in {"announcing", "announced"}

LEMMA GeneratorStepsSound ==
    ASSUME SpecInv, NEW g \in Generators,
           \/ GenerateSpec(g) \/ StartsGeneration(g) \/ GenerationFails(g)
           \/ TriggersReview(g, TRUE) \/ GenerationEnds(g) \/ GenerationCrashes(g)
    PROVE  SpecInv'
<1>0. /\ generator[g] \in [at : Steps, executions : Nat, row : Nat] /\ specTroubles \in Nat
      /\ AgainOrDiscarded(generator[g].executions) \in {"queued", "failed"}
  BY DEF SpecInv, SpecTypes, Jobs, AgainOrDiscarded
<1>1. ASSUME NEW r, JobMoves(g, r) PROVE SpecInv'
  BY <1>1, GeneratorMoves DEF JobMoves
<1>2. CASE GenerateSpec(g)
  <2>1. JobMoves(g, [generator[g] EXCEPT !.at = "queued"])
    BY <1>0, <1>2 DEF GenerateSpec, GeneratorGoes, JobMoves, Jobs, Steps
  <2> QED
    BY <1>1, <2>1
<1>3. CASE StartsGeneration(g)
  <2>1. JobMoves(g, [at |-> "asking", executions |-> generator[g].executions + 1, row |-> 0])
    BY <1>0, <1>3 DEF StartsGeneration, JobMoves, Jobs, Steps
  <2> QED
    BY <1>1, <2>1
<1>4. CASE GenerationFails(g)
  <2>1. JobMoves(g, [generator[g] EXCEPT !.at = AgainOrDiscarded(generator[g].executions)])
    BY <1>0, <1>4 DEF GenerationFails, GeneratorGoes, JobMoves, Jobs, Steps
  <2> QED
    BY <1>1, <2>1
<1>5. CASE TriggersReview(g, TRUE)
  <2>1. JobMoves(g, [generator[g] EXCEPT !.at = "announced"])
    BY <1>0, <1>5 DEF TriggersReview, Trouble, GeneratorGoes, JobMoves, Jobs, Steps
  <2> QED
    BY <1>1, <2>1
<1>6. CASE GenerationEnds(g)
  <2>1. JobMoves(g, [generator[g] EXCEPT !.at = "done"])
    BY <1>0, <1>6 DEF GenerationEnds, GeneratorGoes, JobMoves, Jobs, Steps
  <2> QED
    BY <1>1, <2>1
<1>7. CASE GenerationCrashes(g)
  <2>1. JobMoves(g, [generator[g] EXCEPT !.at = AgainOrDiscarded(generator[g].executions)])
    BY <1>0, <1>7 DEF GenerationCrashes, Trouble, GeneratorGoes, JobMoves, Jobs, Steps
  <2> QED
    BY <1>1, <2>1
<1> QED
  BY <1>2, <1>3, <1>4, <1>5, <1>6, <1>7

(* The same for ReviewMoves.                                               *)
NotesMove(i, r, n) ==
    /\ r \in Reviews /\ n \in Nat
    /\ review' = [review EXCEPT ![i] = r] /\ notes' = [notes EXCEPT ![i] = n]
    /\ UNCHANGED <<rows, generator, editor>>
    /\ specTroubles' \in {specTroubles, specTroubles + 1}
    /\ r.at # "none"
    /\ r.at \in {"storing", "done"} => n + r.left + specTroubles' >= NotesPerReview
    /\ r.at = "done" => r.left = 0

LEMMA ReviewStepsSound ==
    ASSUME SpecInv, NEW i \in DOMAIN rows,
           \/ ReviewStarts(i) \/ ReviewFails(i) \/ reviewSpec(i)
           \/ \E fault \in BOOLEAN : CreateCopilotNote(i, fault)
           \/ ReviewEnds(i) \/ ReviewCrashes(i)
    PROVE  SpecInv'
<1>0. /\ review[i] \in [at : Steps, executions : Nat, left : Nat] /\ notes[i] \in Nat
      /\ specTroubles \in Nat /\ NotesPerReview \in Nat
      /\ AgainOrDiscarded(review[i].executions) \in {"queued", "failed"}
  BY RowTyped, SpecNats DEF SpecInv, SpecTypes, Reviews, AgainOrDiscarded
<1>1. /\ review[i].at \in {"storing", "done"} =>
             notes[i] + review[i].left + specTroubles >= NotesPerReview
      /\ review[i].at = "done" => review[i].left = 0
  BY DEF SpecInv, NotesPaid, LeftIsDone
<1>2. ASSUME NEW r, NEW n, NotesMove(i, r, n) PROVE SpecInv'
  BY <1>2, ReviewMoves DEF NotesMove
<1>3. notes = [notes EXCEPT ![i] = notes[i]]
  <2>1. notes \in [1..Len(notes) -> Nat]
    BY LenProperties DEF SpecInv, SpecTypes
  <2> QED
    BY <2>1
<1>4. CASE ReviewStarts(i)
  <2> DEFINE r == [review[i] EXCEPT !.at = "asking", !.executions = review[i].executions + 1]
  <2>1. r \in Reviews /\ r.at = "asking"
    <3>1. review[i].executions + 1 \in Nat /\ "asking" \in Steps
      BY <1>0 DEF Steps
    <3>2. review[i] \in [at : Steps, executions : Nat, left : Nat]
      BY <1>0
    <3> QED
      BY <3>1, <3>2 DEF Reviews
  <2>2. review' = [review EXCEPT ![i] = r]
    BY <1>4 DEF ReviewStarts
  <2> HIDE DEF r
  <2>3. NotesMove(i, r, notes[i])
    BY <1>0, <1>3, <1>4, <2>1, <2>2 DEF ReviewStarts, NotesMove
  <2> QED
    BY <1>2, <2>3
<1>5. CASE ReviewFails(i)
  <2>1. NotesMove(i, [review[i] EXCEPT !.at = AgainOrDiscarded(review[i].executions)], notes[i])
    BY <1>0, <1>3, <1>5 DEF ReviewFails, NotesMove, Reviews, Steps
  <2> QED
    BY <1>2, <2>1
<1>6. CASE reviewSpec(i)
  <2> DEFINE r == [review[i] EXCEPT !.at = "storing", !.left = NotesPerReview]
  <2>1. r \in Reviews /\ r.at = "storing" /\ r.left = NotesPerReview
    BY <1>0 DEF Reviews, Steps
  <2>2. review' = [review EXCEPT ![i] = r]
    BY <1>6 DEF reviewSpec
  <2> HIDE DEF r
  <2>3. notes[i] + NotesPerReview + specTroubles >= NotesPerReview
    BY <1>0
  <2>4. UNCHANGED <<rows, editor, generator, notes, specTroubles>>
    BY <1>6 DEF reviewSpec
  <2>5. NotesMove(i, r, notes[i])
    BY <1>0, <1>3, <2>1, <2>2, <2>3, <2>4 DEF NotesMove
  <2> QED
    BY <1>2, <2>5
<1>7. CASE CreateCopilotNote(i, TRUE)
  <2>1. NotesMove(i, [review[i] EXCEPT !.left = @ - 1], notes[i])
    BY <1>0, <1>1, <1>3, <1>7 DEF CreateCopilotNote, Trouble, NotesMove, Reviews, Steps
  <2> QED
    BY <1>2, <2>1
<1>8. CASE CreateCopilotNote(i, FALSE)
  <2>1. NotesMove(i, [review[i] EXCEPT !.left = @ - 1], notes[i] + 1)
    BY <1>0, <1>1, <1>8 DEF CreateCopilotNote, NotesMove, Reviews, Steps
  <2> QED
    BY <1>2, <2>1
<1>9. CASE ReviewEnds(i)
  <2>1. NotesMove(i, [review[i] EXCEPT !.at = "done"], notes[i])
    BY <1>0, <1>1, <1>3, <1>9 DEF ReviewEnds, NotesMove, Reviews, Steps
  <2> QED
    BY <1>2, <2>1
<1>10. CASE ReviewCrashes(i)
  <2>1. NotesMove(i, [review[i] EXCEPT !.at = AgainOrDiscarded(review[i].executions), !.left = 0],
                  notes[i])
    BY <1>0, <1>3, <1>10 DEF ReviewCrashes, Trouble, NotesMove, Reviews, Steps
  <2> QED
    BY <1>2, <2>1
<1> QED
  BY <1>4, <1>5, <1>6, <1>7, <1>8, <1>9, <1>10
-----------------------------------------------------------------------------
LEMMA SpecInductive ==
    ASSUME SpecInv, [SpecNext]_specVars PROVE SpecInv'
<1>1. ASSUME NEW e \in Editors,
             SelectsLatest(e) \/ GetsLock(e) \/ InsertsNext(e) \/ EditFails(e)
      PROVE  SpecInv'
  BY <1>1, EditorStepsSound, EditKeepsHistory
<1>2. ASSUME NEW g \in Generators,
             \/ GenerateSpec(g) \/ StartsGeneration(g) \/ GenerationFails(g) \/ StoresSpec(g)
             \/ \E fault \in BOOLEAN : TriggersReview(g, fault)
             \/ GenerationEnds(g) \/ GenerationCrashes(g)
      PROVE  SpecInv'
  BY <1>2, GeneratorStepsSound, GenerationKeepsHistory, TriggerKeepsHistory
<1>3. CASE UNCHANGED specVars
  <2>1. SpecTypes' /\ RowsHeldExist'
    BY <1>3 DEF specVars, SpecInv, SpecTypes, RowsHeldExist
  <2>3. NoGap'
    <3>1. Versions' = Versions
      BY <1>3 DEF specVars, Versions
    <3> QED
      BY <3>1 DEF SpecInv, NoGap
  <2>2. StoresOncePerExecution' /\ LossesPaid' /\ NotesPaid' /\ LeftIsDone'
    BY <1>3 DEF specVars, SpecInv, StoresOncePerExecution, StoredBy, LossesPaid, Lost, NotesPaid,
                LeftIsDone
  <2> QED
    BY <2>1, <2>2, <2>3 DEF SpecInv
<1> QED
  BY <1>1, <1>2, <1>3, ReviewStepsSound DEF SpecNext

LEMMA SoundFromInv == ASSUME SpecInv PROVE SpecHistorySound
<1>1. Versions = 1..Cardinality(Versions)
  <2>1. PICK n \in Nat : Versions = 1..n
    BY DEF SpecInv, NoGap
  <2>2. Cardinality(1..n) = n
    BY FS_Interval
  <2> QED
    BY <2>1, <2>2
<1>2. ASSUME NEW g \in Generators
      PROVE  /\ Cardinality(StoredBy(g)) <= generator[g].executions
             /\ generator[g].at = "done" => StoredBy(g) # {}
  BY DEF SpecInv, StoresOncePerExecution
<1>3. Cardinality(Unreviewed) <= specTroubles
  <2>1. Unreviewed \subseteq Lost
    BY DEF Unreviewed, Lost
  <2>2. IsFiniteSet(Lost) /\ Cardinality(Lost) \in Nat /\ specTroubles \in Nat
    BY FiniteParts DEF SpecInv, SpecTypes, Lost
  <2>3. Cardinality(Unreviewed) <= Cardinality(Lost) /\ Cardinality(Unreviewed) \in Nat
    BY <2>1, <2>2, FS_Subset, FS_CardinalityType
  <2> QED
    BY <2>2, <2>3 DEF SpecInv, LossesPaid
<1>4. ASSUME NEW i \in DOMAIN rows, review[i].at = "done"
      PROVE  notes[i] + specTroubles >= NotesPerReview
  <2>1. notes[i] + review[i].left + specTroubles >= NotesPerReview /\ review[i].left = 0
    BY <1>4 DEF SpecInv, NotesPaid, LeftIsDone
  <2>2. notes[i] \in Nat /\ specTroubles \in Nat
    BY RowTyped DEF SpecInv, SpecTypes
  <2> QED
    BY <2>1, <2>2, SpecNats
<1> QED
  BY <1>1, <1>2, <1>3, <1>4 DEF SpecHistorySound

(* UpdateSpec, the generation job and the review leave a history without   *)
(* gaps, one spec per execution at most, and lose reviews and notes only   *)
(* to crashes and failed insertions (specs.go, specgen.go, copilot.go).    *)
THEOREM SpecHistoryIsSound == HistorySpec => []SpecHistorySound
<1>1. SpecInit => SpecInv
  <2> SUFFICES ASSUME SpecInit PROVE SpecInv
    OBVIOUS
  <2>1. SpecTypes
    BY EmptySeq DEF SpecInit, SpecTypes, Jobs, Steps
  <2>2. DOMAIN rows = {} /\ Versions = {} /\ Lost = {} /\ \A g \in Generators : StoredBy(g) = {}
    <3>1. DOMAIN rows = {}
      BY DEF SpecInit
    <3> QED
      BY <3>1 DEF Versions, Lost, StoredBy
  <2>3. NoGap
    <3>1. Versions = 1..0
      BY <2>2
    <3> QED
      BY <3>1 DEF NoGap
  <2>4. RowsHeldExist /\ NotesPaid /\ LeftIsDone
    BY <2>2 DEF SpecInit, RowsHeldExist, NotesPaid, LeftIsDone
  <2>5. StoresOncePerExecution /\ LossesPaid
    <3>1. Cardinality({}) = 0
      BY FS_EmptySet
    <3>2. \A g \in Generators : generator[g].at = "idle" /\ generator[g].executions = 0
      BY DEF SpecInit
    <3> QED
      <4>1. StoresOncePerExecution
        <5>1. \A g \in Generators : Cardinality(StoredBy(g)) = 0
          BY <2>2, <3>1
        <5>2. \A g \in Generators : generator[g].at \notin {"asking", "announcing", "announced", "done"}
          BY <3>2
        <5> QED
          BY <3>2, <5>1, <5>2 DEF StoresOncePerExecution
      <4>2. LossesPaid
        BY <2>2, <3>1 DEF SpecInit, LossesPaid
      <4> QED
        BY <4>1, <4>2
  <2> QED
    BY <2>1, <2>3, <2>4, <2>5 DEF SpecInv
<1> QED
  BY <1>1, SpecInductive, SoundFromInv, PTL DEF HistorySpec
=============================================================================
