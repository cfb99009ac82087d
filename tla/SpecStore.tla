----------------------------- MODULE SpecStore ------------------------------
(***************************************************************************)
(* The specs of one candidate: every generation job inserts a row with     *)
(* version 1, every edit a row with the next version, and a copilot review *)
(* writes its notes beside the row that was generated.  The one-task run   *)
(* of a generation behaves as PipelineEngine says; here is what its job    *)
(* does to the other tables.                                               *)
(***************************************************************************)
EXTENDS Naturals, Sequences, FiniteSets, FiniteSetsExt

CONSTANTS
    SpecSchemas,      \* are specs.generated_by and feature_candidates.created_at columns?
                      \* (of the migrations: no, {FALSE})
    Editors,          \* requests that edit the spec
    Generators,       \* spec_gen jobs
    MaxRows,          \* bound: rows of specs
    NotesPerReview,   \* notes the model answers with
    MaxSpecAttempts,  \* attempts River gives a job
    MaxSpecTroubles   \* bound: crashes, and failures that are only logged

ASSUME SpecAssumption ==
    /\ SpecSchemas \subseteq BOOLEAN /\ "user" \notin Generators
    /\ {MaxRows, NotesPerReview, MaxSpecAttempts, MaxSpecTroubles} \subseteq Nat

VARIABLES
    hasColumns,      \* the schema
    rows,            \* the table: the version of a row, and who made it
    editor,          \* per request: "idle", "locking" or "inserting", and the row it selected
    generator,       \* per job: step, executions, and the row of this execution
    review,          \* per row: its review job: step, executions, notes still to store
    notes,           \* per row: the notes stored for it
    specTroubles     \* how many so far

specVars == <<hasColumns, rows, editor, generator, review, notes, specTroubles>>

NoReview == [at |-> "none", executions |-> 0, left |-> 0]

SpecInit ==
    /\ hasColumns \in SpecSchemas
    /\ rows = <<>> /\ review = <<>> /\ notes = <<>> /\ specTroubles = 0
    /\ editor = [e \in Editors |-> [at |-> "idle", row |-> 0]]
    /\ generator = [g \in Generators |-> [at |-> "idle", executions |-> 0, row |-> 0]]

Versions == {rows[i].version : i \in DOMAIN rows}

(* Every INSERT into specs names generated_by, and the one of a generation *)
(* comes after GetCandidateInternal, which selects created_at: without the *)
(* columns no generation gets here, and there is nothing to edit.          *)
CreateSpec(version, who) ==
    /\ hasColumns /\ Len(rows) < MaxRows
    /\ rows' = Append(rows, [version |-> version, by |-> who])
    /\ review' = Append(review, NoReview)
    /\ notes' = Append(notes, 0)

Trouble == specTroubles < MaxSpecTroubles /\ specTroubles' = specTroubles + 1

-----------------------------------------------------------------------------
(* UpdateSpec: the latest row is selected FOR UPDATE; the snapshot is that *)
(* of the statement, also when it then waits for the lock.                 *)
SelectsLatest(e) ==
    /\ editor[e].at = "idle" /\ rows # <<>>
    /\ \E i \in DOMAIN rows :
          /\ rows[i].version = Max(Versions)
          /\ editor' = [editor EXCEPT ![e] = [at |-> "locking", row |-> i]]
    /\ UNCHANGED <<hasColumns, rows, generator, review, notes, specTroubles>>

GetsLock(e) ==
    /\ editor[e].at = "locking"
    /\ \A o \in Editors : editor[o].at = "inserting" => editor[o].row # editor[e].row
    /\ editor' = [editor EXCEPT ![e].at = "inserting"]
    /\ UNCHANGED <<hasColumns, rows, generator, review, notes, specTroubles>>

EditEnds(e) == editor' = [editor EXCEPT ![e] = [at |-> "idle", row |-> 0]]

(* The next version taken from the number of rows.                         *)
InsertsCounted(e) ==
    /\ editor[e].at = "inserting"
    /\ CreateSpec(Len(rows) + 1, "user")
    /\ EditEnds(e)
    /\ UNCHANGED <<hasColumns, generator, specTroubles>>

InsertsNext(e) ==
    /\ editor[e].at = "inserting"
    /\ CreateSpec(rows[editor[e].row].version + 1, "user")
    /\ EditEnds(e)
    /\ UNCHANGED <<hasColumns, generator, specTroubles>>

(* A statement fails or the user leaves: the transaction is rolled back.   *)
EditFails(e) ==
    /\ editor[e].at # "idle"
    /\ EditEnds(e)
    /\ UNCHANGED <<hasColumns, rows, generator, review, notes, specTroubles>>

-----------------------------------------------------------------------------
GeneratorGoes(g, to) == generator' = [generator EXCEPT ![g].at = to]
AgainOrDiscarded(executions) == IF executions < MaxSpecAttempts THEN "queued" ELSE "failed"

(* GenerateSpec: run, task and job; also for a candidate that has a spec.  *)
GenerateSpec(g) ==
    /\ generator[g].at = "idle"
    /\ GeneratorGoes(g, "queued")
    /\ UNCHANGED <<hasColumns, rows, editor, review, notes, specTroubles>>

StartsGeneration(g) ==
    /\ generator[g].at = "queued"
    /\ generator' = [generator EXCEPT ![g] =
                         [at |-> "asking", executions |-> @.executions + 1, row |-> 0]]
    /\ UNCHANGED <<hasColumns, rows, editor, review, notes, specTroubles>>

(* A look-up, the model or the insertion fails: FailTask, and River tries  *)
(* the job again from the start.                                           *)
GenerationFails(g) ==
    /\ generator[g].at = "asking"
    /\ GeneratorGoes(g, AgainOrDiscarded(generator[g].executions))
    /\ UNCHANGED <<hasColumns, rows, editor, review, notes, specTroubles>>

(* The model has answered: the spec is always version 1.                   *)
StoresSpec(g) ==
    /\ generator[g].at = "asking"
    /\ CreateSpec(1, g)
    /\ generator' = [generator EXCEPT ![g].at = "announcing", ![g].row = Len(rows')]
    /\ UNCHANGED <<hasColumns, editor, specTroubles>>

(* The candidate is marked and the task completed; then the review job.    *)
(* With a fault the insertion fails, which is only logged.                 *)
TriggersReview(g, fault) ==
    /\ generator[g].at = "announcing"
    /\ IF fault THEN Trouble /\ UNCHANGED review
                ELSE /\ review' = [review EXCEPT ![generator[g].row].at = "queued"]
                     /\ UNCHANGED specTroubles
    /\ GeneratorGoes(g, "announced")
    /\ UNCHANGED <<hasColumns, rows, editor, notes>>

GenerationEnds(g) ==
    /\ generator[g].at = "announced"
    /\ GeneratorGoes(g, "done")
    /\ UNCHANGED <<hasColumns, rows, editor, review, notes, specTroubles>>

(* The worker dies: River finds the job running and executes it again.     *)
GenerationCrashes(g) ==
    /\ generator[g].at \in {"asking", "announcing", "announced"}
    /\ Trouble
    /\ GeneratorGoes(g, AgainOrDiscarded(generator[g].executions))
    /\ UNCHANGED <<hasColumns, rows, editor, review, notes>>

-----------------------------------------------------------------------------
(* CopilotReviewWorker, for a spec.                                        *)
ReviewStarts(i) ==
    /\ review[i].at = "queued"
    /\ review' = [review EXCEPT ![i].at = "asking", ![i].executions = @ + 1]
    /\ UNCHANGED <<hasColumns, rows, editor, generator, notes, specTroubles>>

ReviewFails(i) ==
    /\ review[i].at = "asking"
    /\ review' = [review EXCEPT ![i].at = AgainOrDiscarded(review[i].executions)]
    /\ UNCHANGED <<hasColumns, rows, editor, generator, notes, specTroubles>>

reviewSpec(i) ==
    /\ review[i].at = "asking"
    /\ review' = [review EXCEPT ![i].at = "storing", ![i].left = NotesPerReview]
    /\ UNCHANGED <<hasColumns, rows, editor, generator, notes, specTroubles>>

(* One insertion per note; one that fails is logged.                       *)
CreateCopilotNote(i, fault) ==
    /\ review[i].at = "storing" /\ review[i].left > 0
    /\ review' = [review EXCEPT ![i].left = @ - 1]
    /\ IF fault THEN Trouble /\ UNCHANGED notes
                ELSE notes' = [notes EXCEPT ![i] = @ + 1] /\ UNCHANGED specTroubles
    /\ UNCHANGED <<hasColumns, rows, editor, generator>>

ReviewEnds(i) ==
    /\ review[i].at = "storing" /\ review[i].left = 0
    /\ review' = [review EXCEPT ![i].at = "done"]
    /\ UNCHANGED <<hasColumns, rows, editor, generator, notes, specTroubles>>

ReviewCrashes(i) ==
    /\ review[i].at \in {"asking", "storing"}
    /\ Trouble
    /\ review' = [review EXCEPT ![i].at = AgainOrDiscarded(review[i].executions), ![i].left = 0]
    /\ UNCHANGED <<hasColumns, rows, editor, generator, notes>>

SpecNext ==
    \/ \E e \in Editors : SelectsLatest(e) \/ GetsLock(e) \/ InsertsNext(e) \/ EditFails(e)
    \/ \E g \in Generators :
         \/ GenerateSpec(g) \/ StartsGeneration(g) \/ GenerationFails(g) \/ StoresSpec(g)
         \/ \E fault \in BOOLEAN : TriggersReview(g, fault)
         \/ GenerationEnds(g) \/ GenerationCrashes(g)
    \/ \E i \in DOMAIN rows :
         \/ ReviewStarts(i) \/ ReviewFails(i) \/ reviewSpec(i)
         \/ \E fault \in BOOLEAN : CreateCopilotNote(i, fault)
         \/ ReviewEnds(i) \/ ReviewCrashes(i)

HistorySpec == SpecInit /\ [][SpecNext]_specVars

-----------------------------------------------------------------------------
(* The history of a spec has no gap, however edits overlap with each other *)
(* and with new generations; no execution of a job stores two specs, and   *)
(* a job that ended well stored one; each generated spec is reviewed but   *)
(* for one per crash or failed insertion, and a review that ended well     *)
(* left all its notes but for one per failed insertion.                    *)
StoredBy(g) == {i \in DOMAIN rows : rows[i].by = g}
Unreviewed ==
    {i \in DOMAIN rows : /\ rows[i].by # "user" /\ review[i].at = "none"
                         /\ \A g \in Generators : generator[g].row # i \/ generator[g].at = "done"}
SpecHistorySound ==
    /\ Versions = 1..Cardinality(Versions)
    /\ \A g \in Generators :
          /\ Cardinality(StoredBy(g)) <= generator[g].executions
          /\ generator[g].at = "done" => StoredBy(g) # {}
    /\ Cardinality(Unreviewed) <= specTroubles
    /\ \A i \in DOMAIN rows : review[i].at = "done" => notes[i] + specTroubles >= NotesPerReview

(* "The version field is automatically incremented by reading the current  *)
(* max version inside a transaction, ensuring there are no gaps or         *)
(* conflicts": no two rows have the same version.                          *)
VersionsDistinct ==
    \A i, j \in DOMAIN rows : rows[i].version = rows[j].version => i = j
=============================================================================
