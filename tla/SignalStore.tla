---------------------------- MODULE SignalStore ----------------------------
(***************************************************************************)
(* The signals table of one project (internal/store/signals.go) and the    *)
(* embed jobs that work on it (EmbedWorker in internal/jobs/ingest.go).    *)
(*                                                                         *)
(* A content stands for everything with the same hash after lower-casing   *)
(* and trimming (ContentHash).  InsertSignal is two statements, a lookup   *)
(* and an INSERT; the unique index of migration 000012 and its foreign key *)
(* are the database's part (external).  Near-duplicates are found when a   *)
(* signal is embedded and point to the signal they duplicate.              *)
(***************************************************************************)
EXTENDS Naturals, FiniteSets

CONSTANTS
    Contents,     \* signal texts, up to case and surrounding blanks
    Near,         \* pairs whose embeddings are at least 0.95 similar
    SignalIds,    \* bound: the rows ever inserted
    EmbedSlots,   \* bound: embed jobs alive at the same time
    EmbedLimit,   \* how many signals ListUnembeddedSignals returns
    MaxTroubles   \* bound: crashes and failed calls

None == 0

ASSUME SignalAssumption ==
    /\ Near \subseteq Contents \X Contents
    /\ None \notin Contents
    /\ SignalIds \subseteq Nat \ {None}
    /\ EmbedLimit \in Nat
    /\ MaxTroubles \in Nat

VARIABLES
    signals,      \* the rows, by id
    embeds,       \* the embed jobs and how far their execution is
    unattended,   \* history: signals a trouble or an input path left to chance
    troubles      \* how much of the bound is used

storeVars == <<signals, embeds, unattended, troubles>>

Signal == [state : {"none", "row", "deleted"}, content : Contents \cup {None},
           embedded : BOOLEAN, original : SignalIds \cup {None}]
NoSignal == [state |-> "none", content |-> None, embedded |-> FALSE, original |-> None]

EmbedJob == [pc : {"free", "queued", "embed", "find", "mark"},
             all : BOOLEAN, ids : SUBSET SignalIds,
             todo : SUBSET SignalIds, cur : SignalIds \cup {None}, found : SignalIds \cup {None}]
FreeSlot == [pc |-> "free", all |-> FALSE, ids |-> {}, todo |-> {},
             cur |-> None, found |-> None]

StoreTypeOK ==
    /\ signals \in [SignalIds -> Signal]
    /\ embeds \in [EmbedSlots -> EmbedJob]
    /\ unattended \in SUBSET SignalIds
    /\ troubles \in 0 .. MaxTroubles

StoreInit ==
    /\ signals = [s \in SignalIds |-> NoSignal]
    /\ embeds = [e \in EmbedSlots |-> FreeSlot]
    /\ unattended = {}
    /\ troubles = 0

Trouble == troubles < MaxTroubles /\ troubles' = troubles + 1

-----------------------------------------------------------------------------
Rows == {s \in SignalIds : signals[s].state = "row"}

(* The rows the partial unique index covers, and findByContentHash.        *)
Originals(rows) == {s \in SignalIds : rows[s].state = "row" /\ rows[s].original = None}
FindByContentHash(c) == {s \in Originals(signals) : signals[s].content = c}
HasOriginal(c) == FindByContentHash(c) # {}

(* External: the unique index signals_project_content_hash_idx.            *)
Unique(rows) ==
    \A s, t \in Originals(rows) : rows[s].content = rows[t].content => s = t

WithRow(s, c) == [signals EXCEPT ![s] = [NoSignal EXCEPT !.state = "row", !.content = c]]
FreshId(s) == signals[s].state = "none" /\ \A t \in SignalIds : t < s => signals[t].state # "none"

(* The INSERT of InsertSignal: the index refuses what a concurrent insert  *)
(* has written since the lookup.  A mutant has no such index.              *)
InsertsAnyhow(s, c) == FreshId(s) /\ signals' = WithRow(s, c)
Inserts(s, c) == FreshId(s) /\ Unique(WithRow(s, c)) /\ signals' = WithRow(s, c)
InsertRefused(c) == HasOriginal(c)

(* DELETE of a signal; ON DELETE SET NULL turns its duplicates into        *)
(* originals again, and the index may refuse the whole statement.  In a    *)
(* mutant the foreign key does nothing.                                    *)
WithoutRowOnly(s) == [signals EXCEPT ![s].state = "deleted"]
WithoutRow(s) ==
    [t \in SignalIds |->
        IF t = s THEN [signals[t] EXCEPT !.state = "deleted"]
        ELSE IF signals[t].original = s THEN [signals[t] EXCEPT !.original = None]
        ELSE signals[t]]

DeleteSignal(s) ==
    /\ s \in Rows
    /\ Unique(WithoutRow(s))
    /\ signals' = WithoutRow(s)
    /\ UNCHANGED <<embeds, unattended, troubles>>

-----------------------------------------------------------------------------
(* client.Insert of EmbedJobArgs, with the ids to embed; without any, the  *)
(* job embeds whatever the project has unembedded.                         *)
EnqueueJob(e, job) == embeds[e].pc = "free" /\ embeds' = [embeds EXCEPT ![e] = job]
EnqueueEmbed(e, ids) ==
    EnqueueJob(e, [FreeSlot EXCEPT !.pc = "queued", !.ids = ids])
EnqueueEmbedAll(e) ==
    EnqueueJob(e, [FreeSlot EXCEPT !.pc = "queued", !.all = TRUE])

Unembedded == {s \in Rows : ~signals[s].embedded}
Oldest(n, S) == {s \in S : Cardinality({t \in S : t < s}) < n}

(* EmbedWorker starts: its list is the job's, or a snapshot of the oldest  *)
(* of the table; what the limit cuts off is left to chance.                *)
StartEmbed(e) ==
    /\ embeds[e].pc = "queued"
    /\ LET todo == IF embeds[e].all THEN Oldest(EmbedLimit, Unembedded)
                   ELSE embeds[e].ids
       IN  /\ embeds' = [embeds EXCEPT ![e].pc = "embed", ![e].todo = todo, ![e].cur = None]
           /\ unattended' = unattended \cup (IF embeds[e].all THEN Unembedded \ todo ELSE {})
    /\ UNCHANGED <<signals, troubles>>

(* GetSignalInternal, generateEmbedding and UpdateSignalEmbedding for one  *)
(* signal; a deleted one is skipped, and so is one whose call fails.       *)
EmbedOne(e, s) ==
    /\ embeds[e].pc = "embed"
    /\ s \in embeds[e].todo
    /\ IF s \in Rows
       THEN /\ signals' = [signals EXCEPT ![s].embedded = TRUE]
            /\ embeds' = [embeds EXCEPT ![e].todo = @ \ {s}, ![e].cur = s, ![e].pc = "find"]
       ELSE /\ embeds' = [embeds EXCEPT ![e].todo = @ \ {s}]
            /\ UNCHANGED signals
    /\ UNCHANGED <<unattended, troubles>>

EmbedFails(e, s) ==
    /\ embeds[e].pc = "embed"
    /\ s \in embeds[e].todo
    /\ Trouble
    /\ embeds' = [embeds EXCEPT ![e].todo = @ \ {s}]
    /\ unattended' = unattended \cup {s}
    /\ UNCHANGED signals

(* FindNearDuplicateSignal: any other embedded original close enough.      *)
Similar(c, d) == c = d \/ <<c, d>> \in Near
NearDuplicates(s) ==
    {t \in Originals(signals) \ {s} :
        signals[t].embedded /\ Similar(signals[s].content, signals[t].content)}

FindNear(e) ==
    /\ embeds[e].pc = "find"
    /\ LET near == NearDuplicates(embeds[e].cur)
       IN  \/ /\ near = {}
              /\ embeds' = [embeds EXCEPT ![e].pc = "embed"]
           \/ \E t \in near : embeds' = [embeds EXCEPT ![e].pc = "mark", ![e].found = t]
    /\ UNCHANGED <<signals, unattended, troubles>>

(* MarkAsDuplicate, unconditional but for the foreign key (external).      *)
MarkDuplicate(e) ==
    /\ embeds[e].pc = "mark"
    /\ LET s == embeds[e].cur
           t == embeds[e].found
       IN  signals' = IF s \in Rows /\ t \in Rows
                      THEN [signals EXCEPT ![s].original = t] ELSE signals
    /\ embeds' = [embeds EXCEPT ![e].pc = "embed"]
    /\ UNCHANGED <<unattended, troubles>>

(* The worker returns nil whatever was skipped; then it reports the task.  *)
EmbedEnds(e) ==
    /\ embeds[e].pc = "embed"
    /\ embeds[e].todo = {}
    /\ embeds' = [embeds EXCEPT ![e] = FreeSlot]
    /\ UNCHANGED <<signals, unattended, troubles>>

(* The executor dies: River rescues the job and runs it from the start.    *)
EmbedCrashes(e) ==
    /\ embeds[e].pc \in {"embed", "find", "mark"}
    /\ Trouble
    /\ embeds' = [embeds EXCEPT ![e].pc = "queued", ![e].todo = {}]
    /\ UNCHANGED <<signals, unattended>>

EmbedStep(e) ==
    \/ StartEmbed(e)
    \/ \E s \in SignalIds : EmbedOne(e, s) \/ EmbedFails(e, s)
    \/ FindNear(e)
    \/ MarkDuplicate(e)
    \/ EmbedEnds(e)
    \/ EmbedCrashes(e)

(* A signal some job is going to embed.                                    *)
Awaited(s) ==
    \E e \in EmbedSlots :
        \/ s \in embeds[e].todo
        \/ embeds[e].pc = "queued" /\ (embeds[e].all \/ s \in embeds[e].ids)

(* At any time at most one original per content, whatever two inserts, a   *)
(* near-duplicate mark and a delete that revives duplicates do meanwhile.  *)
OneOriginalPerContent == Unique(signals)

(* A duplicate points to a signal that still exists: a deletion between    *)
(* the search for the original and the mark leaves no dangling pointer.    *)
DuplicatesPointToRows ==
    \A s \in Rows : signals[s].original # None => signals[s].original \in Rows
=============================================================================
