------------------------ MODULE IntegrationSyncProofs -----------------------
(***************************************************************************)
(* However syncs, uploads, webhooks, embed jobs and deletions interleave   *)
(* and fail, for any contents, items, runs, embed jobs and bounds:         *)
(*   - rows keep their types, a content has at most one original, and a    *)
(*     duplicate points to a signal that exists (SyncInv);                 *)
(*   - no unembedded signal is forgotten (FlowInv);                        *)
(*   - nothing is missing behind a cursor (CursorInv).                     *)
(***************************************************************************)
EXTENDS IntegrationSync, TLAPS

(* What a run is about to insert is a content, and a run that came from a  *)
(* webhook carries its text.                                               *)
Held(w) ==
    /\ w.pc = "insert" => w.cur \in Contents
    /\ w.kind \in {"webhook", "ingest", "agent"} /\ w.pc # "idle" => w.payload \in Contents

WorkSound == work \in [Runs -> Work] /\ \A r \in Runs : Held(work[r])
WorldTyped ==
    /\ integration \in Integration /\ updated \in [Items -> 0 .. MaxTime]
    /\ clock \in 1 .. MaxTime /\ exposed \in SUBSET Contents
SignalsSound == signals \in [SignalIds -> Signal] /\ OneOriginalPerContent /\ DuplicatesPointToRows
EmbedsTyped ==
    /\ embeds \in [EmbedSlots -> EmbedJob]
    /\ unattended \in SUBSET SignalIds /\ troubles \in 0 .. MaxTroubles

SyncInv == WorkSound /\ WorldTyped /\ SignalsSound /\ EmbedsTyped

LEMMA SyncNats ==
    /\ MaxTroubles \in Nat /\ MaxTime \in Nat /\ MaxConnects \in Nat
    /\ SignalIds \subseteq Nat /\ None \notin SignalIds
BY SignalAssumption, SyncAssumption DEF None

-----------------------------------------------------------------------------
(* The table.                                                              *)
LEMMA InsertKeepsSignals ==
    ASSUME SignalsSound, NEW s \in SignalIds, NEW c \in Contents, Inserts(s, c)
    PROVE  SignalsSound'
<1>1. signals' = [signals EXCEPT ![s] = [NoSignal EXCEPT !.state = "row", !.content = c]]
      /\ signals[s].state = "none"
  BY DEF Inserts, WithRow, FreshId
<1>2. signals' \in [SignalIds -> Signal]
  BY <1>1 DEF SignalsSound, Signal, NoSignal
<1>3. OneOriginalPerContent'
  BY DEF Inserts, WithRow, OneOriginalPerContent
<1>4. DuplicatesPointToRows'
  BY <1>1, SyncNats DEF SignalsSound, DuplicatesPointToRows, Rows, Signal, NoSignal, None
<1> QED
  BY <1>2, <1>3, <1>4 DEF SignalsSound

LEMMA DeleteKeepsSignals ==
    ASSUME SignalsSound, NEW s \in SignalIds, DeleteSignal(s)
    PROVE  SignalsSound'
<1>1. signals' \in [SignalIds -> Signal]
  BY DEF SignalsSound, DeleteSignal, WithoutRow, Signal
<1>2. OneOriginalPerContent'
  BY DEF DeleteSignal, OneOriginalPerContent
<1>3. \A t \in SignalIds :
         /\ t # s => signals'[t].state = signals[t].state
         /\ t = s => signals'[t].state = "deleted"
         /\ t # s /\ signals'[t].original # None =>
               signals'[t].original = signals[t].original /\ signals[t].original # s
  BY DEF SignalsSound, DeleteSignal, WithoutRow, Signal
<1>4. DuplicatesPointToRows'
  BY <1>3 DEF SignalsSound, DuplicatesPointToRows, Rows, Signal
<1> QED
  BY <1>1, <1>2, <1>4 DEF SignalsSound

(* An embedding changes neither what is original nor what points where.    *)
LEMMA EmbedKeepsSignals ==
    ASSUME SignalsSound, NEW s \in SignalIds, signals' = [signals EXCEPT ![s].embedded = TRUE]
    PROVE  SignalsSound'
<1>1. signals' \in [SignalIds -> Signal]
  BY DEF SignalsSound, Signal
<1>2. \A t \in SignalIds : /\ signals'[t].state = signals[t].state
                           /\ signals'[t].content = signals[t].content
                           /\ signals'[t].original = signals[t].original
  BY DEF SignalsSound, Signal
<1>3. OneOriginalPerContent' /\ DuplicatesPointToRows'
  BY <1>2 DEF SignalsSound, OneOriginalPerContent, Unique, Originals, DuplicatesPointToRows, Rows
<1> QED
  BY <1>1, <1>3 DEF SignalsSound

(* A mark takes an original away, and points to a row.                     *)
LEMMA MarkKeepsSignals ==
    ASSUME SignalsSound, NEW s \in Rows, NEW t \in Rows,
           signals' = [signals EXCEPT ![s].original = t]
    PROVE  SignalsSound'
<1>1. s \in SignalIds /\ t \in SignalIds
  BY DEF Rows
<1>2. signals' \in [SignalIds -> Signal]
  BY <1>1 DEF SignalsSound, Signal
<1>3. \A u \in SignalIds : /\ signals'[u].state = signals[u].state
                           /\ signals'[u].content = signals[u].content
                           /\ signals'[u].original = IF u = s THEN t ELSE signals[u].original
  BY <1>1 DEF SignalsSound, Signal
<1>4. OneOriginalPerContent'
  BY <1>1, <1>3, SyncNats DEF SignalsSound, OneOriginalPerContent, Unique, Originals
<1>5. DuplicatesPointToRows'
  BY <1>1, <1>3 DEF SignalsSound, DuplicatesPointToRows, Rows
<1> QED
  BY <1>2, <1>4, <1>5 DEF SignalsSound

LEMMA SignalsStay == ASSUME SignalsSound, UNCHANGED signals PROVE SignalsSound'
BY DEF SignalsSound, OneOriginalPerContent, Unique, Originals, DuplicatesPointToRows, Rows
-----------------------------------------------------------------------------
(* Embed jobs.                                                             *)
LEMMA TroubleTyped ==
    ASSUME EmbedsTyped, Trouble PROVE troubles' \in 0 .. MaxTroubles
BY SyncNats DEF EmbedsTyped, Trouble

TakesUp(job, pc, todo) == [job EXCEPT !.pc = pc, !.todo = todo, !.cur = None]

LEMMA JobTakesUp ==
    ASSUME NEW job \in EmbedJob, NEW todo \in SUBSET SignalIds
    PROVE  TakesUp(job, "embed", todo) \in EmbedJob
BY DEF TakesUp, EmbedJob

LEMMA EmbedStepSound ==
    ASSUME EmbedsTyped, SignalsSound, NEW e \in EmbedSlots, EmbedStep(e)
    PROVE  EmbedsTyped' /\ SignalsSound'
<1>1. CASE StartEmbed(e)
  <2>1. Oldest(EmbedLimit, Unembedded) \subseteq SignalIds /\ Unembedded \subseteq SignalIds
    BY DEF Oldest, Unembedded, Rows
  <2> DEFINE todo == IF embeds[e].all THEN Oldest(EmbedLimit, Unembedded) ELSE embeds[e].ids
  <2>2. todo \in SUBSET SignalIds
    BY <2>1 DEF EmbedsTyped, EmbedJob
  <2>3. /\ embeds' = [embeds EXCEPT ![e].pc = "embed", ![e].todo = todo, ![e].cur = None]
        /\ unattended' \subseteq unattended \cup Unembedded /\ UNCHANGED <<signals, troubles>>
    BY <1>1 DEF StartEmbed
  <2> HIDE DEF todo
  <2>4. embeds[e] \in EmbedJob /\ embeds' = [embeds EXCEPT ![e] = TakesUp(embeds[e], "embed", todo)]
    BY <2>3 DEF EmbedsTyped, TakesUp
  <2>5. embeds' \in [EmbedSlots -> EmbedJob]
    BY <2>2, <2>4, JobTakesUp DEF EmbedsTyped
  <2> QED
    BY <2>1, <2>3, <2>5, SignalsStay DEF EmbedsTyped
<1>2. ASSUME NEW s \in SignalIds, EmbedOne(e, s) PROVE EmbedsTyped' /\ SignalsSound'
  <2>1. EmbedsTyped'
    BY <1>2 DEF EmbedOne, EmbedsTyped, EmbedJob
  <2> QED
    BY <1>2, <2>1, SignalsStay, EmbedKeepsSignals DEF EmbedOne
<1>3. ASSUME NEW s \in SignalIds, EmbedFails(e, s) PROVE EmbedsTyped' /\ SignalsSound'
  BY <1>3, TroubleTyped, SignalsStay DEF EmbedFails, EmbedsTyped, EmbedJob
<1>4. CASE FindNear(e)
  <2>1. NearDuplicates(embeds[e].cur) \subseteq SignalIds
    BY DEF NearDuplicates, Originals
  <2> QED
    BY <1>4, <2>1, SignalsStay DEF FindNear, EmbedsTyped, EmbedJob
<1>5. CASE MarkDuplicate(e)
  <2>1. EmbedsTyped'
    BY <1>5 DEF MarkDuplicate, EmbedsTyped, EmbedJob
  <2> QED
    BY <1>5, <2>1, SignalsStay, MarkKeepsSignals DEF MarkDuplicate
<1>6. CASE EmbedEnds(e)
  <2>1. FreeSlot \in EmbedJob
    BY DEF FreeSlot, EmbedJob
  <2>2. embeds' \in [EmbedSlots -> EmbedJob] /\ UNCHANGED <<signals, unattended, troubles>>
    BY <1>6, <2>1 DEF EmbedEnds, EmbedsTyped
  <2> QED
    BY <2>2, SignalsStay DEF EmbedsTyped
<1>7. CASE EmbedCrashes(e)
  <2>1. /\ embeds' = [embeds EXCEPT ![e].pc = "queued", ![e].todo = {}]
        /\ Trouble /\ UNCHANGED <<signals, unattended>>
    BY <1>7 DEF EmbedCrashes
  <2>2. embeds[e] \in EmbedJob
        /\ embeds' = [embeds EXCEPT ![e] = [embeds[e] EXCEPT !.pc = "queued", !.todo = {}]]
    BY <2>1 DEF EmbedsTyped
  <2>3. [embeds[e] EXCEPT !.pc = "queued", !.todo = {}] \in EmbedJob
    BY <2>2 DEF EmbedJob
  <2>4. embeds' \in [EmbedSlots -> EmbedJob]
    BY <2>2, <2>3 DEF EmbedsTyped
  <2> QED
    BY <2>1, <2>4, TroubleTyped, SignalsStay DEF EmbedsTyped
<1> QED
  BY <1>1, <1>2, <1>3, <1>4, <1>5, <1>6, <1>7 DEF EmbedStep
-----------------------------------------------------------------------------
(* Runs: a step moves one of them.                                         *)
LEMMA RunMoves ==
    ASSUME WorkSound, NEW r \in Runs, NEW w \in Work, Held(w), work' = [work EXCEPT ![r] = w]
    PROVE  WorkSound'
BY DEF WorkSound, Held

LEMMA RunKeepsPayload ==
    ASSUME WorkSound, NEW r \in Runs, NEW w \in Work, work' = [work EXCEPT ![r] = w],
           w.pc = "insert" => w.cur \in Contents,
           w.kind = work[r].kind, w.payload = work[r].payload, work[r].pc # "idle"
    PROVE  WorkSound'
<1>1. Held(w)
  BY DEF WorkSound, Held
<1> QED
  BY <1>1, RunMoves

(* Many steps change no more than where the run is.                        *)
LEMMA RunGoes ==
    ASSUME WorkSound, NEW r \in Runs,
           NEW pc \in {"idle", "fetch", "queued", "next", "embed", "report"}, Goto(r, pc),
           pc = "idle" \/ work[r].pc # "idle"
    PROVE  WorkSound'
<1> DEFINE w == [work[r] EXCEPT !.pc = pc]
<1>1. work[r] \in Work /\ Held(work[r]) /\ work' = [work EXCEPT ![r] = w]
  BY DEF Goto, WorkSound
<1>2. w \in Work /\ w.pc = pc /\ w.kind = work[r].kind /\ w.payload = work[r].payload
  BY <1>1 DEF Work
<1> HIDE DEF w
<1>3. Held(w)
  BY <1>1, <1>2 DEF Held
<1> QED
  BY <1>1, <1>2, <1>3, RunMoves

LEMMA RunEnds ==
    ASSUME WorkSound, NEW r \in Runs, Ends(r)
    PROVE  WorkSound'
<1>1. work[r] \in Work /\ work' = [work EXCEPT ![r] = [Idle EXCEPT !.kind = work[r].kind]]
  BY DEF Ends, WorkSound
<1>2. [Idle EXCEPT !.kind = work[r].kind] \in Work /\ Held([Idle EXCEPT !.kind = work[r].kind])
  BY <1>1, SyncAssumption DEF Work, Idle, Held
<1> QED
  BY <1>1, <1>2, RunMoves

LEMMA RestStays ==
    ASSUME WorldTyped, SignalsSound, EmbedsTyped, UNCHANGED <<storeVars, worldVars, exposed>>
    PROVE  WorldTyped' /\ SignalsSound' /\ EmbedsTyped'
BY SignalsStay DEF storeVars, worldVars, WorldTyped, EmbedsTyped
-----------------------------------------------------------------------------
(* Insertion, the same for every worker and request.                       *)
LEMMA LookUpSound ==
    ASSUME SyncInv, NEW r \in Runs, NEW c \in Contents, LookUp(r, c)
    PROVE  SyncInv'
<1> DEFINE cur == IF HasOriginal(c) THEN None ELSE c
           pc  == IF HasOriginal(c) THEN "next" ELSE "insert"
           w   == [work[r] EXCEPT !.todo = @ \ {c}, !.cur = cur, !.pc = pc]
<1>1. work[r] \in Work /\ work[r].pc = "next" /\ work' = [work EXCEPT ![r] = w]
  BY DEF LookUp, SyncInv, WorkSound
<1>2. cur \in Contents \cup {None} /\ pc \in {"next", "insert"} /\ (pc = "insert" => cur \in Contents)
  OBVIOUS
<1> HIDE DEF cur, pc
<1>3. /\ w \in Work /\ w.pc = pc /\ w.cur = cur
      /\ w.kind = work[r].kind /\ w.payload = work[r].payload
  BY <1>1, <1>2 DEF Work
<1> HIDE DEF w
<1>4. WorkSound'
  BY <1>1, <1>2, <1>3, RunKeepsPayload DEF SyncInv
<1>5. UNCHANGED <<storeVars, worldVars, exposed>>
  BY DEF LookUp
<1> QED
  BY <1>4, <1>5, RestStays DEF SyncInv

LEMMA InsertSound ==
    ASSUME SyncInv, NEW r \in Runs, NEW s \in SignalIds, Insert(r, s)
    PROVE  SyncInv'
<1> DEFINE w == [work[r] EXCEPT !.pc = "next", !.cur = None, !.new = @ \cup {s}]
<1>1. /\ work[r] \in Work /\ work[r].pc = "insert" /\ work[r].cur \in Contents
      /\ work' = [work EXCEPT ![r] = w]
  BY DEF Insert, SyncInv, WorkSound, Held
<1>2. /\ w \in Work /\ w.pc = "next"
      /\ w.kind = work[r].kind /\ w.payload = work[r].payload
  BY <1>1 DEF Work
<1> HIDE DEF w
<1>3. WorkSound'
  BY <1>1, <1>2, RunKeepsPayload DEF SyncInv
<1>4. SignalsSound'
  BY <1>1, InsertKeepsSignals DEF Insert, SyncInv
<1>5. WorldTyped' /\ EmbedsTyped'
  BY DEF Insert, SyncInv, worldVars, WorldTyped, EmbedsTyped
<1> QED
  BY <1>3, <1>4, <1>5 DEF SyncInv

LEMMA InsertFailsSound ==
    ASSUME SyncInv, NEW r \in Runs, InsertFails(r)
    PROVE  SyncInv'
<1> DEFINE pc == IF work[r].kind = "ingest" THEN "queued" ELSE "next"
           w  == [work[r] EXCEPT !.pc = pc, !.cur = None]
<1>1. /\ work[r] \in Work /\ work[r].pc = "insert" /\ work[r].cur \in Contents
      /\ work' = [work EXCEPT ![r] = w]
  BY DEF InsertFails, SyncInv, WorkSound, Held
<1>2. pc \in {"queued", "next"}
  OBVIOUS
<1> HIDE DEF pc
<1>3. /\ w \in Work /\ w.pc = pc
      /\ w.kind = work[r].kind /\ w.payload = work[r].payload
  BY <1>1, <1>2 DEF Work
<1> HIDE DEF w
<1>4. WorkSound'
  BY <1>1, <1>2, <1>3, RunKeepsPayload DEF SyncInv
<1>5. SignalsSound' /\ EmbedsTyped'
  BY SignalsStay, TroubleTyped DEF InsertFails, SyncInv, EmbedsTyped
<1>6. WorldTyped'
  BY <1>1 DEF InsertFails, SyncInv, worldVars, WorldTyped
<1> QED
  BY <1>4, <1>5, <1>6 DEF SyncInv

LEMMA InsertingSound ==
    ASSUME SyncInv, NEW r \in Runs, Inserting(r) PROVE SyncInv'
BY LookUpSound, InsertSound, InsertFailsSound DEF Inserting

-----------------------------------------------------------------------------
(* Handing over, reporting, crashing.                                      *)
LEMMA EnqueueTyped ==
    ASSUME EmbedsTyped, NEW e \in EmbedSlots, NEW ids \in SUBSET SignalIds,
           EnqueueEmbed(e, ids) \/ EnqueueEmbedAll(e)
    PROVE  embeds' \in [EmbedSlots -> EmbedJob]
<1>1. /\ [FreeSlot EXCEPT !.pc = "queued", !.ids = ids] \in EmbedJob
      /\ [FreeSlot EXCEPT !.pc = "queued", !.all = TRUE] \in EmbedJob
  BY DEF FreeSlot, EmbedJob
<1> QED
  BY <1>1 DEF EmbedsTyped, EnqueueEmbed, EnqueueEmbedAll, EnqueueJob

LEMMA NewAreSignals ==
    ASSUME SyncInv, NEW r \in Runs PROVE work[r].new \in SUBSET SignalIds
BY DEF SyncInv, WorkSound, Work

LEMMA HandOverSound ==
    ASSUME SyncInv, NEW r \in Runs, HandOver(r) PROVE SyncInv'
<1>1. ASSUME NEW e \in EmbedSlots, Embed(r, e) PROVE SyncInv'
  <2>1. work[r].pc # "idle" /\ Goto(r, "report")
    BY <1>1 DEF Embed
  <2>2. embeds' \in [EmbedSlots -> EmbedJob]
    BY <1>1, EnqueueTyped, NewAreSignals DEF Embed, SyncInv
  <2>3. WorkSound'
    BY <2>1, RunGoes DEF SyncInv
  <2> QED
    BY <1>1, <2>2, <2>3, SignalsStay DEF Embed, SyncInv, worldVars, WorldTyped, EmbedsTyped
<1>2. CASE HandoverFails(r)
  <2>1. WorkSound'
    <3>1. PICK pc \in {"report", "idle"} : Goto(r, pc)
      BY <1>2 DEF HandoverFails
    <3>2. work[r].pc # "idle"
      BY <1>2 DEF HandoverFails, Inserted, AllInserted
    <3> QED
      BY <3>1, <3>2, RunGoes DEF SyncInv
  <2>2. EmbedsTyped'
    BY <1>2, TroubleTyped, NewAreSignals DEF HandoverFails, SyncInv, EmbedsTyped
  <2> QED
    BY <1>2, <2>1, <2>2, SignalsStay DEF HandoverFails, SyncInv, worldVars, WorldTyped
<1> QED
  BY <1>1, <1>2 DEF HandOver

LEMMA ReportSound ==
    ASSUME SyncInv, NEW r \in Runs, Report(r) PROVE SyncInv'
BY RunEnds, RestStays DEF Report, SyncInv

LEMMA CrashSound ==
    ASSUME SyncInv, NEW r \in Runs, WorkerCrashes(r) PROVE SyncInv'
<1> DEFINE w == [work[r] EXCEPT !.pc = "queued", !.todo = {}, !.cur = None, !.new = {}, !.since = 0]
<1>1. work[r] \in Work /\ work[r].pc # "idle" /\ work' = [work EXCEPT ![r] = w]
  BY DEF WorkerCrashes, SyncInv, WorkSound
<1>2. w.pc = "queued" /\ w.kind = work[r].kind /\ w.payload = work[r].payload
  BY <1>1 DEF Work
<1>3. 0 \in 0 .. MaxTime /\ {} \in SUBSET Contents /\ {} \in SUBSET SignalIds
  BY SyncNats
<1>4. w \in Work
  BY <1>1, <1>3 DEF Work
<1> HIDE DEF w
<1>5. WorkSound'
  BY <1>1, <1>2, <1>4, RunKeepsPayload DEF SyncInv
<1>6. EmbedsTyped'
  BY TroubleTyped, NewAreSignals DEF WorkerCrashes, SyncInv, EmbedsTyped
<1> QED
  BY <1>5, <1>6, SignalsStay DEF WorkerCrashes, SyncInv, worldVars, WorldTyped

-----------------------------------------------------------------------------
(* The steps of a sync.                                                    *)
LEMMA FetchedAreContents ==
    ASSUME NEW p \in Native \cup Nango, NEW since, NEW got \in Fetches(p, since)
    PROVE  got \in SUBSET Contents
<1>1. /\ \A S \in SUBSET Items : {Full[i] : i \in S} \subseteq Contents
      /\ \A S, told \in SUBSET Items : {CallToSignal(i, told) : i \in S} \subseteq Contents
  BY SyncAssumption DEF CallToSignal
<1>2. \A t : Recent(t) \in SUBSET Items
  BY DEF Recent
<1>3. /\ \A S \in Page : S \in SUBSET Items
      /\ \A t : SUBSET Recent(t) \subseteq SUBSET Items
  BY <1>2 DEF Page, Existing
<1>4. CASE p \in {"slack", "intercom", "linear", "jira"}
  BY <1>1, <1>2, <1>3, <1>4
     DEF Fetches, FetchChannelHistory, ListConversations, ListLinearIssues, ListJiraIssues,
         MessageToSignal, ConversationToSignal, LinearIssueToSignal, JiraIssueToSignal
<1>5. CASE p = "gong"
  BY <1>1, <1>2, <1>3, <1>5 DEF Fetches, SyncGongSince, FetchGongTranscripts
<1>6. CASE p \in {"nango_intercom", "nango_slack", "nango_other"}
  BY <1>1, <1>3, <1>6 DEF Fetches, SyncIntercom, SyncSlack, SyncGeneric
<1> QED
  BY <1>4, <1>5, <1>6 DEF Native, Nango

LEMMA ReadSound ==
    ASSUME SyncInv, NEW r \in Runs, ReadIntegration(r) PROVE SyncInv'
<1>1. UNCHANGED <<storeVars, worldVars, exposed>> /\ work[r].pc # "idle"
  BY DEF ReadIntegration
<1>2. WorkSound'
  <2> DEFINE w == [work[r] EXCEPT !.pc = "fetch", !.since = integration.lastSync]
  <2>1. CASE work' = [work EXCEPT ![r].pc = "fetch", ![r].since = integration.lastSync]
    <3>1. /\ work[r] \in Work /\ work' = [work EXCEPT ![r] = w]
          /\ integration.lastSync \in 0 .. MaxTime
      BY <2>1 DEF SyncInv, WorkSound, WorldTyped, Integration
    <3>2. w \in Work /\ w.pc = "fetch" /\ w.kind = work[r].kind /\ w.payload = work[r].payload
      BY <3>1 DEF Work
    <3> HIDE DEF w
    <3> QED
      BY <1>1, <3>1, <3>2, RunKeepsPayload DEF SyncInv
  <2>2. CASE Goto(r, "fetch")
    BY <1>1, <2>2, RunGoes DEF SyncInv
  <2>3. CASE Ends(r)
    BY <2>3, RunEnds DEF SyncInv
  <2> QED
    BY <2>1, <2>2, <2>3 DEF ReadIntegration
<1> QED
  BY <1>1, <1>2, RestStays DEF SyncInv

LEMMA FetchFailsSound ==
    ASSUME SyncInv, NEW r \in Runs, FetchFails(r) PROVE SyncInv'
<1>1. WorkSound'
  BY RunGoes DEF FetchFails, SyncInv
<1> QED
  BY <1>1, SignalsStay, TroubleTyped DEF FetchFails, SyncInv, worldVars, WorldTyped, EmbedsTyped

LEMMA FetchSound ==
    ASSUME SyncInv, NEW r \in Runs, work[r].provider \in Native \cup Nango, Fetch(r)
    PROVE  SyncInv'
<1>1. PICK got \in Fetches(work[r].provider, work[r].since) :
         /\ work' = [work EXCEPT ![r].pc = "next", ![r].todo = got]
         /\ exposed' = exposed \cup MayMiss(work[r].since, got)
  BY DEF Fetch
<1>2. got \in SUBSET Contents
  BY FetchedAreContents
<1> DEFINE w == [work[r] EXCEPT !.pc = "next", !.todo = got]
<1>3. work[r] \in Work /\ work[r].pc # "idle" /\ work' = [work EXCEPT ![r] = w]
  BY <1>1 DEF Fetch, SyncInv, WorkSound
<1>4. w \in Work /\ w.pc = "next" /\ w.kind = work[r].kind /\ w.payload = work[r].payload
  BY <1>2, <1>3 DEF Work
<1> HIDE DEF w
<1>5. WorkSound'
  BY <1>3, <1>4, RunKeepsPayload DEF SyncInv
<1>6. MayMiss(work[r].since, got) \subseteq Contents
  BY SyncAssumption DEF MayMiss, Recent
<1>7. UNCHANGED <<storeVars, worldVars>>
  BY DEF Fetch
<1>8. WorldTyped'
  BY <1>1, <1>6, <1>7 DEF SyncInv, worldVars, WorldTyped
<1> QED
  BY <1>5, <1>7, <1>8, SignalsStay DEF SyncInv, storeVars, EmbedsTyped

LEMMA StampSound ==
    ASSUME SyncInv, NEW r \in Runs, Stamp(r) PROVE SyncInv'
<1>1. PICK pc \in {"report", "embed"} : Goto(r, pc)
  BY DEF Stamp
<1>2. WorkSound'
  BY <1>1, RunGoes DEF Stamp, AllInserted, SyncInv
<1>3. integration' \in Integration
  BY SyncNats DEF Stamp, UpdateLastSync, StampedAt, SyncInv, WorldTyped, Integration
<1> QED
  BY <1>2, <1>3, SignalsStay, TroubleTyped DEF Stamp, SyncInv, WorldTyped, EmbedsTyped

LEMMA SyncWorkerSound ==
    ASSUME SyncInv, NEW r \in Runs, NEW p \in Native \cup Nango, SyncWorker(p, r) PROVE SyncInv'
BY ReadSound, FetchFailsSound, FetchSound, InsertingSound, StampSound, HandOverSound,
   ReportSound, CrashSound DEF SyncWorker

-----------------------------------------------------------------------------
(* Starting a run, requests and ingest jobs.                               *)
LEMMA StartsSound ==
    ASSUME SyncInv, NEW r \in Runs, NEW w \in Work, Held(w), Starts(r, w),
           UNCHANGED <<storeVars, worldVars, exposed>>
    PROVE  SyncInv'
BY RunMoves, RestStays DEF Starts, SyncInv

LEMMA IdleTyped == Idle \in Work
<1>1. 0 \in 0 .. MaxTime /\ 0 \in 0 .. MaxConnects /\ {} \in SUBSET SignalIds /\ {} \in SUBSET Contents
  BY SyncNats
<1> QED
  BY <1>1 DEF Idle, Work, Kinds

LEMMA TriggerSound ==
    ASSUME SyncInv, NEW r \in Runs, NEW p \in Native \cup Nango, TriggerSync(p, r) PROVE SyncInv'
<1> DEFINE w == [Idle EXCEPT !.kind = "sync", !.pc = "queued", !.provider = p,
                             !.intg = integration.id]
<1>1. p \in Providers \cup {"none"} /\ integration.id \in 0 .. MaxConnects
  BY DEF TriggerSync, SyncInv, WorldTyped, Integration
<1>2. w \in Work /\ w.kind = "sync" /\ w.pc = "queued"
  BY <1>1, IdleTyped DEF Work, Kinds, Jobs
<1>3. Starts(r, w)
  BY DEF TriggerSync
<1> HIDE DEF w
<1>4. Held(w)
  BY <1>2 DEF Held
<1> QED
  BY <1>2, <1>3, <1>4, StartsSound DEF TriggerSync

LEMMA RequestSound ==
    ASSUME SyncInv, NEW r \in Runs, NEW kind \in {"upload", "transcript", "webhook", "event"},
           NEW texts \in SUBSET Contents, texts # {}, Request(r, kind, texts)
    PROVE  SyncInv'
<1> DEFINE payload == IF kind = "webhook" THEN CHOOSE c \in texts : TRUE ELSE None
           w == [Idle EXCEPT !.kind = kind, !.pc = "next", !.todo = texts, !.payload = payload]
<1>1. payload \in Contents \cup {None} /\ (kind = "webhook" => payload \in Contents)
  OBVIOUS
<1> HIDE DEF payload
<1>2. w \in Work /\ w.kind = kind /\ w.pc = "next" /\ w.payload = payload
  BY <1>1, IdleTyped DEF Work, Kinds
<1>3. Starts(r, w)
  BY DEF Request, payload
<1> HIDE DEF w
<1>4. Held(w)
  BY <1>1, <1>2 DEF Held
<1> QED
  BY <1>2, <1>3, <1>4, StartsSound DEF Request

LEMMA StartRunSound ==
    ASSUME SyncInv, NEW r \in Runs, StartRun(r) PROVE SyncInv'
<1>1. ASSUME NEW p \in Native \cup Nango, TriggerSync(p, r) PROVE SyncInv'
  BY <1>1, TriggerSound
<1>2. CASE UploadSignals(r) \/ UploadTranscript(r)
  BY <1>2, RequestSound
     DEF UploadSignals, UploadCSV, UploadPlainText, UploadTranscript, Files, AgentProcess, ToolEmitSignal
<1>3. CASE Webhook(r)
  <2>1. PICK c \in Contents : Request(r, "webhook", {c})
    BY <1>3 DEF Webhook
  <2>2. {c} \in SUBSET Contents /\ {c} # {}
    OBVIOUS
  <2> QED
    BY <2>1, <2>2, RequestSound
<1>4. ASSUME NEW p, NEW texts \in {Full, Title}, Event(p, r, texts) PROVE SyncInv'
  <2>1. PICK i \in Items : Request(r, "event", {texts[i]})
    BY <1>4 DEF Event, Existing, Recent
  <2>2. texts[i] \in Contents
    BY SyncAssumption
  <2>3. {texts[i]} \in SUBSET Contents /\ {texts[i]} # {}
    BY <2>2
  <2> QED
    BY <2>1, <2>3, RequestSound
<1> QED
  BY <1>1, <1>2, <1>3, <1>4
     DEF StartRun, TriggerSlackSync, TriggerIntercomSync, TriggerLinearSync, TriggerJiraSync,
         TriggerNangoSync, SyncAllIntegrations, Native, SlackWebhook, IntercomWebhook,
         LinearWebhook, JiraWebhook

LEMMA RequestStepSound ==
    ASSUME SyncInv, NEW r \in Runs, RequestStep(r) PROVE SyncInv'
<1>1. CASE HandoverFails(r)
  BY <1>1, HandOverSound DEF HandOver
<1>2. CASE RequestEnds(r)
  BY <1>2, RunEnds, RestStays DEF RequestEnds, SyncInv
<1>3. ASSUME NEW e \in EmbedSlots, UploadEmbeds(r, e) PROVE SyncInv'
  <2>1. WorkSound'
    BY <1>3, RunEnds DEF UploadEmbeds, SyncInv
  <2>2. embeds' \in [EmbedSlots -> EmbedJob]
    BY <1>3, EnqueueTyped, NewAreSignals DEF UploadEmbeds, SyncInv
  <2> QED
    BY <1>3, <2>1, <2>2, SignalsStay
       DEF UploadEmbeds, SyncInv, worldVars, WorldTyped, EmbedsTyped
<1>4. CASE WebhookJob(r)
  <2>1. PICK kind \in {"ingest", "agent"} :
           work' = [work EXCEPT ![r].kind = kind, ![r].pc = "queued", ![r].new = {}]
    BY <1>4 DEF WebhookJob
  <2> DEFINE w == [work[r] EXCEPT !.kind = kind, !.pc = "queued", !.new = {}]
  <2>2. /\ work[r] \in Work /\ work[r].payload \in Contents
        /\ work' = [work EXCEPT ![r] = w]
    BY <1>4, <2>1 DEF WebhookJob, Inserted, AllInserted, SyncInv, WorkSound, Held
  <2>3. {} \in SUBSET SignalIds /\ kind \in Kinds
    BY DEF Kinds, Jobs
  <2>4. w \in Work /\ w.pc = "queued" /\ w.payload = work[r].payload
    BY <2>2, <2>3 DEF Work
  <2> HIDE DEF w
  <2>5. Held(w)
    BY <2>2, <2>4 DEF Held
  <2>6. WorkSound'
    BY <2>2, <2>4, <2>5, RunMoves DEF SyncInv
  <2>7. EmbedsTyped'
    BY <1>4, NewAreSignals DEF WebhookJob, SyncInv, EmbedsTyped
  <2> QED
    BY <1>4, <2>6, <2>7, SignalsStay DEF WebhookJob, SyncInv, worldVars, WorldTyped
<1> QED
  BY <1>1, <1>2, <1>3, <1>4, InsertingSound DEF RequestStep

LEMMA IngestWorkerSound ==
    ASSUME SyncInv, NEW r \in Runs, IngestWorker(r) PROVE SyncInv'
<1>1. CASE StartIngest(r)
  <2>1. /\ work[r] \in Work /\ work[r].pc = "queued" /\ work[r].payload \in Contents
        /\ UNCHANGED <<storeVars, worldVars, exposed>>
    BY <1>1 DEF StartIngest, SyncInv, WorkSound, Held
  <2>2. PICK S \in SUBSET Contents :
           work' = [work EXCEPT ![r].todo = S, ![r].pc = IF S = {} THEN "report" ELSE "next"]
    BY <1>1, <2>1 DEF StartIngest, AgentProcess, ToolEmitSignal
  <2> DEFINE pc == IF S = {} THEN "report" ELSE "next"
             w  == [work[r] EXCEPT !.todo = S, !.pc = pc]
  <2>3. pc \in {"report", "next"} /\ work' = [work EXCEPT ![r] = w]
    BY <2>1, <2>2 DEF SyncInv, WorkSound
  <2> HIDE DEF pc
  <2>4. w \in Work /\ w.pc = pc /\ w.kind = work[r].kind /\ w.payload = work[r].payload
    BY <2>1, <2>3 DEF Work
  <2> HIDE DEF w
  <2>5. WorkSound'
    BY <2>1, <2>3, <2>4, RunKeepsPayload DEF SyncInv
  <2> QED
    BY <2>1, <2>5, RestStays DEF SyncInv
<1>2. CASE CompleteIngest(r)
  <2>1. PICK pc \in {"embed", "report"} : Goto(r, pc)
    BY <1>2 DEF CompleteIngest
  <2>2. WorkSound'
    BY <1>2, <2>1, RunGoes DEF CompleteIngest, Inserted, AllInserted, SyncInv
  <2> QED
    BY <1>2, <2>2, RestStays DEF CompleteIngest, SyncInv
<1> QED
  BY <1>1, <1>2, InsertingSound, HandOverSound, ReportSound, CrashSound DEF IngestWorker

LEMMA WorkStepSound ==
    ASSUME SyncInv, NEW r \in Runs, WorkStep(r) PROVE SyncInv'
BY SyncWorkerSound, IngestWorkerSound, RequestStepSound
   DEF WorkStep, SlackSyncWorker, IntercomSyncWorker, LinearSyncWorker, JiraSyncWorker,
       NangoSyncWorker, Native

-----------------------------------------------------------------------------
(* The world around.                                                       *)
LEMMA WorkStays == ASSUME WorkSound, UNCHANGED work PROVE WorkSound'
BY DEF WorkSound

LEMMA WorldMoves ==
    ASSUME SyncInv, \/ Tick \/ (\E i \in Items : Touch(i)) \/ ConnectAny \/ DisconnectAny
    PROVE  SyncInv'
<1>1. CASE Tick
  BY <1>1, WorkStays, SignalsStay, SyncNats
     DEF Tick, SyncInv, storeVars, WorldTyped, EmbedsTyped
<1>2. ASSUME NEW i \in Items, Touch(i) PROVE SyncInv'
  <2>1. Full[i] \in Contents /\ clock \in 0 .. MaxTime
    BY SyncAssumption DEF SyncInv, WorldTyped
  <2>2. exposed' \in SUBSET Contents
    BY <1>2, <2>1 DEF Touch, SyncInv, WorldTyped
  <2>3. WorldTyped'
    BY <1>2, <2>1, <2>2 DEF Touch, SyncInv, WorldTyped
  <2> QED
    BY <1>2, <2>3, WorkStays, SignalsStay DEF Touch, SyncInv, storeVars, EmbedsTyped
<1>3. ASSUME NEW p \in Providers, Connect(p) PROVE SyncInv'
  <2>1. WorldTyped'
    BY <1>3, SyncNats DEF Connect, CreateIntegration, SyncInv, WorldTyped, Integration
  <2> QED
    BY <1>3, <2>1, WorkStays, SignalsStay DEF Connect, SyncInv, storeVars, EmbedsTyped
<1>4. ASSUME NEW p, Disconnect(p) PROVE SyncInv'
  <2> DEFINE row == [integration EXCEPT !.provider = "none", !.lastSync = 0]
  <2>1. 0 \in 0 .. MaxTime /\ integration \in Integration
    BY SyncNats DEF SyncInv, WorldTyped
  <2>2. row \in Integration
    BY <2>1 DEF Integration
  <2>3. WorldTyped'
    BY <1>4, <2>2 DEF Disconnect, DeleteIntegration, SyncInv, WorldTyped
  <2> QED
    BY <1>4, <2>3, WorkStays, SignalsStay DEF Disconnect, SyncInv, storeVars, EmbedsTyped
<1> QED
  BY <1>1, <1>2, <1>3, <1>4
     DEF ConnectAny, SlackCallback, IntercomCallback, LinearCallback, JiraCallback,
         CreateNangoConnection, DisconnectAny, SlackDisconnect, IntercomDisconnect,
         LinearDisconnect, JiraDisconnect, DeleteNangoConnection

LEMMA StoreMoves ==
    ASSUME SyncInv,
           \/ \E e \in EmbedSlots : EmbedWorks(e)
           \/ \E s \in SignalIds : UserDeletes(s)
    PROVE  SyncInv'
<1>1. ASSUME NEW e \in EmbedSlots, EmbedWorks(e) PROVE SyncInv'
  BY <1>1, EmbedStepSound, WorkStays DEF EmbedWorks, SyncInv, worldVars, WorldTyped
<1>2. ASSUME NEW s \in SignalIds, UserDeletes(s) PROVE SyncInv'
  <2>1. SignalsSound'
    BY <1>2, DeleteKeepsSignals DEF UserDeletes, SyncInv
  <2> QED
    BY <1>2, <2>1, WorkStays
       DEF UserDeletes, DeleteSignal, SyncInv, worldVars, WorldTyped, EmbedsTyped
<1> QED
  BY <1>1, <1>2

-----------------------------------------------------------------------------
LEMMA SyncInvInit == SyncInit => SyncInv
<1> SUFFICES ASSUME SyncInit PROVE SyncInv
  OBVIOUS
<1>1. WorkSound
  BY IdleTyped DEF SyncInit, WorkSound, Held, Idle
<1>2. WorldTyped
  <2>1. 0 \in 0 .. MaxTime /\ 0 \in 0 .. MaxConnects /\ 1 \in 1 .. MaxTime
    BY SyncAssumption
  <2>2. [id |-> 0, provider |-> "none", lastSync |-> 0] \in Integration
    BY <2>1 DEF Integration
  <2> QED
    BY <2>1, <2>2 DEF SyncInit, WorldTyped
<1>3. SignalsSound
  BY DEF SyncInit, StoreInit, SignalsSound, Signal, NoSignal, OneOriginalPerContent, Unique,
         Originals, DuplicatesPointToRows, Rows
<1>4. FreeSlot \in EmbedJob
  BY DEF FreeSlot, EmbedJob
<1>5. EmbedsTyped
  BY <1>4, SyncNats DEF SyncInit, StoreInit, EmbedsTyped
<1> QED
  BY <1>1, <1>2, <1>3, <1>5 DEF SyncInv

LEMMA SyncInvStep == SyncInv /\ [SyncNext]_vars => SyncInv'
<1> SUFFICES ASSUME SyncInv, [SyncNext]_vars PROVE SyncInv'
  OBVIOUS
<1>1. CASE UNCHANGED vars
  BY <1>1, WorkStays, RestStays DEF SyncInv, vars, worldVars
<1>2. CASE SyncNext
  BY <1>2, WorldMoves, StartRunSound, WorkStepSound, StoreMoves DEF SyncNext
<1> QED
  BY <1>1, <1>2

LEMMA SyncInvHolds == SyncSpec => []SyncInv
BY SyncInvInit, SyncInvStep, PTL DEF SyncSpec

(* Rows, jobs, runs and the integration are well typed, whatever overlaps  *)
(* and fails.                                                              *)
THEOREM SyncTypesHold == SyncSpec => []SyncTypeOK
<1>1. SyncInit => syncRunsAdmitted \in BOOLEAN
  BY SyncAssumption DEF SyncInit
<1>2. syncRunsAdmitted \in BOOLEAN /\ [SyncNext]_vars => (syncRunsAdmitted \in BOOLEAN)'
  BY DEF SyncNext, vars
<1>3. SyncInv /\ syncRunsAdmitted \in BOOLEAN => SyncTypeOK
  BY DEF SyncInv, WorkSound, WorldTyped, SignalsSound, EmbedsTyped, SyncTypeOK, StoreTypeOK
<1> QED
  BY <1>1, <1>2, <1>3, SyncInvHolds, PTL DEF SyncSpec

(* Two requests or jobs that insert the same text, a near-duplicate mark   *)
(* and a deletion that turns duplicates back into originals never leave    *)
(* two originals of one content.                                           *)
THEOREM OneOriginalAlways == SyncSpec => []OneOriginalPerContent
<1>1. SyncInv => OneOriginalPerContent
  BY DEF SyncInv, SignalsSound
<1> QED
  BY <1>1, SyncInvHolds, PTL

(* Nor is a duplicate left pointing to a deleted signal.                   *)
THEOREM PointersAlwaysHold == SyncSpec => []DuplicatesPointToRows
<1>1. SyncInv => DuplicatesPointToRows
  BY DEF SyncInv, SignalsSound
<1> QED
  BY <1>1, SyncInvHolds, PTL

-----------------------------------------------------------------------------
(* Nobody forgets an unembedded signal.  What a job is about to embed is   *)
(* among what it was inserted for, the one signal of an ingest job is not  *)
(* inserted twice, and event webhooks forget their signals on purpose.     *)
QueueSound ==
    \A e \in EmbedSlots :
        /\ embeds[e].pc \in {"free", "queued"} => embeds[e].todo = {}
        /\ embeds[e].all \/ embeds[e].todo \subseteq embeds[e].ids

Orderly(r) ==
    /\ work[r].kind = "none" => work[r].pc = "idle"
    /\ work[r].kind = "event" => work[r].new \subseteq unattended
    /\ work[r].kind = "ingest" =>
          /\ work[r].todo \subseteq {work[r].payload}
          /\ work[r].pc \in {"queued", "insert"} => work[r].new = {}
          /\ work[r].pc = "insert" => work[r].todo = {}
          /\ work[r].pc = "next" /\ work[r].new # {} => work[r].todo = {}

FlowInv == SyncInv /\ QueueSound /\ (\A r \in Runs : Orderly(r)) /\ UnembeddedHasJob

Flying(r) == work[r].pc \in {"next", "insert", "embed"}
OnlyMoves(r) == \A q \in Runs \ {r} : work'[q] = work[q]

LEMMA RunFlows ==
    ASSUME FlowInv, SyncInv', QueueSound', NEW r \in Runs, OnlyMoves(r), Orderly(r)',
           unattended \subseteq unattended', \A s \in SignalIds : Awaited(s) => Awaited(s)',
           \A s \in Unembedded' : \/ s \in Unembedded \/ s \in unattended'
                                  \/ s \in work'[r].new /\ Flying(r)',
           \A s \in work[r].new : Flying(r) =>
               s \in unattended' \/ Awaited(s)' \/ (s \in work'[r].new /\ Flying(r)')
    PROVE  FlowInv'
<1>1. \A q \in Runs : Orderly(q)'
  BY DEF FlowInv, OnlyMoves, Orderly
<1>2. ASSUME NEW s \in SignalIds, InFlight(s)
      PROVE  s \in unattended' \/ Awaited(s)' \/ InFlight(s)'
  BY <1>2 DEF InFlight, Flying, OnlyMoves
<1>3. Unembedded \subseteq SignalIds /\ Unembedded' \subseteq SignalIds
  BY DEF Unembedded, Rows
<1>4. \A s \in SignalIds : s \in work'[r].new /\ Flying(r)' => InFlight(s)'
  BY DEF InFlight, Flying
<1>5. UnembeddedHasJob'
  BY <1>2, <1>3, <1>4 DEF FlowInv, UnembeddedHasJob
<1> QED
  BY <1>1, <1>5 DEF FlowInv

(* Most steps of a run leave the table and the embed jobs alone.           *)
LEMMA QuietFlows ==
    ASSUME FlowInv, SyncInv', NEW r \in Runs, OnlyMoves(r), Orderly(r)',
           UNCHANGED <<signals, embeds>>, unattended \subseteq unattended',
           Flying(r) => work[r].new \subseteq unattended' \/ (work[r].new \subseteq work'[r].new /\ Flying(r)')
    PROVE  FlowInv'
<1>1. QueueSound'
  BY DEF FlowInv, QueueSound
<1>2. \A s \in SignalIds : Awaited(s) => Awaited(s)'
  BY DEF Awaited
<1>3. Unembedded' = Unembedded
  BY DEF Unembedded, Rows
<1> QED
  BY <1>1, <1>2, <1>3, RunFlows

LEMMA WorkFacts ==
    ASSUME SyncInv PROVE work \in [Runs -> Work] /\ \A r \in Runs : work[r] \in Work
BY DEF SyncInv, WorkSound

LEMMA GotoFacts ==
    ASSUME SyncInv, NEW r \in Runs, NEW pc, Goto(r, pc)
    PROVE  /\ OnlyMoves(r) /\ work'[r].pc = pc
           /\ work'[r].kind = work[r].kind /\ work'[r].new = work[r].new
           /\ work'[r].todo = work[r].todo /\ work'[r].payload = work[r].payload
           /\ work'[r].since = work[r].since /\ work'[r].cur = work[r].cur
BY WorkFacts DEF Goto, OnlyMoves, Work

LEMMA EndsFacts ==
    ASSUME SyncInv, NEW r \in Runs, Ends(r)
    PROVE  /\ OnlyMoves(r) /\ work'[r].pc = "idle" /\ work'[r].since = 0
           /\ work'[r].kind = work[r].kind /\ work'[r].new = {} /\ work'[r].todo = {}
<1>1. work' = [work EXCEPT ![r] = [Idle EXCEPT !.kind = work[r].kind]]
  BY DEF Ends
<1>2. Idle.pc = "idle" /\ Idle.new = {} /\ Idle.todo = {} /\ Idle.since = 0
  BY DEF Idle
<1> QED
  BY <1>1, <1>2, WorkFacts, IdleTyped DEF OnlyMoves, Work

LEMMA InsertingFlows ==
    ASSUME FlowInv, SyncInv', NEW r \in Runs, Inserting(r) PROVE FlowInv'
<1>0. SyncInv /\ work[r] \in Work /\ work \in [Runs -> Work] /\ Orderly(r)
  BY WorkFacts DEF FlowInv
<1>1. ASSUME NEW c \in Contents, LookUp(r, c) PROVE FlowInv'
  <2>1. /\ OnlyMoves(r) /\ work[r].pc = "next" /\ work'[r].pc \in {"next", "insert"}
        /\ work'[r].kind = work[r].kind /\ work'[r].new = work[r].new
        /\ work'[r].todo = work[r].todo \ {c} /\ c \in work[r].todo
        /\ work'[r].payload = work[r].payload
        /\ UNCHANGED <<signals, embeds, unattended>>
    BY <1>1, <1>0 DEF LookUp, OnlyMoves, Work, storeVars
  <2>2. Orderly(r)'
    BY <2>1, <1>0 DEF Orderly
  <2> QED
    BY <2>1, <2>2, QuietFlows DEF Flying
<1>2. CASE InsertFails(r)
  <2>1. /\ OnlyMoves(r) /\ work[r].pc = "insert"
        /\ work'[r].pc = IF work[r].kind = "ingest" THEN "queued" ELSE "next"
        /\ work'[r].kind = work[r].kind /\ work'[r].new = work[r].new
        /\ work'[r].todo = work[r].todo /\ work'[r].payload = work[r].payload
        /\ UNCHANGED <<signals, embeds, unattended>>
    BY <1>2, <1>0 DEF InsertFails, OnlyMoves, Work
  <2>2. Orderly(r)' /\ (work[r].kind = "ingest" => work[r].new = {})
    BY <2>1, <1>0 DEF Orderly
  <2> QED
    BY <2>1, <2>2, QuietFlows DEF Flying
<1>3. ASSUME NEW s \in SignalIds, Insert(r, s) PROVE FlowInv'
  <2>1. /\ OnlyMoves(r) /\ work[r].pc = "insert" /\ work'[r].pc = "next"
        /\ work'[r].kind = work[r].kind /\ work'[r].new = work[r].new \cup {s}
        /\ work'[r].todo = work[r].todo /\ work'[r].payload = work[r].payload
        /\ UNCHANGED embeds
        /\ unattended' = unattended \cup (IF work[r].kind = "event" THEN {s} ELSE {})
    BY <1>3, <1>0 DEF Insert, OnlyMoves, Work
  <2>2. Orderly(r)'
    BY <2>1, <1>0 DEF Orderly
  <2>3. signals' = [signals EXCEPT ![s] = [NoSignal EXCEPT !.state = "row", !.content = work[r].cur]]
    BY <1>3 DEF Insert, Inserts, WithRow
  <2>4. Unembedded' \subseteq Unembedded \cup {s}
    BY <2>3 DEF Unembedded, Rows
  <2>5. QueueSound' /\ \A t \in SignalIds : Awaited(t) => Awaited(t)'
    BY <2>1 DEF FlowInv, QueueSound, Awaited
  <2> QED
    BY <2>1, <2>2, <2>4, <2>5, RunFlows DEF Flying
<1> QED
  BY <1>1, <1>2, <1>3 DEF Inserting

(* A new embed job: what it is inserted for is awaited from then on.       *)
LEMMA EnqueueFlows ==
    ASSUME FlowInv, NEW e \in EmbedSlots, NEW ids \in SUBSET SignalIds,
           EnqueueEmbed(e, ids) \/ EnqueueEmbedAll(e)
    PROVE  /\ QueueSound' /\ \A s \in SignalIds : Awaited(s) => Awaited(s)'
           /\ \A s \in ids : Awaited(s)'
<1>1. /\ embeds \in [EmbedSlots -> EmbedJob] /\ embeds[e].pc = "free" /\ embeds[e].todo = {}
  BY DEF FlowInv, SyncInv, EmbedsTyped, QueueSound, EnqueueEmbed, EnqueueEmbedAll, EnqueueJob
<1>2. /\ \A f \in EmbedSlots \ {e} : embeds'[f] = embeds[f]
      /\ embeds'[e].pc = "queued" /\ embeds'[e].todo = {}
      /\ embeds'[e].all \/ embeds'[e].ids = ids
  BY <1>1 DEF EnqueueEmbed, EnqueueEmbedAll, EnqueueJob, FreeSlot
<1>3. QueueSound'
  BY <1>2 DEF FlowInv, QueueSound
<1>4. \A s \in SignalIds : Awaited(s) => Awaited(s)'
  BY <1>1, <1>2 DEF Awaited
<1>5. \A s \in ids : Awaited(s)'
  BY <1>2 DEF Awaited
<1> QED
  BY <1>3, <1>4, <1>5

LEMMA HandOverFlows ==
    ASSUME FlowInv, SyncInv', NEW r \in Runs, HandOver(r), work[r].kind # "none" PROVE FlowInv'
<1>1. SyncInv /\ Orderly(r) /\ work[r].new \in SUBSET SignalIds
  BY NewAreSignals DEF FlowInv
<1>2. ASSUME NEW e \in EmbedSlots, Embed(r, e) PROVE FlowInv'
  <2>1. Goto(r, "report") /\ UNCHANGED <<signals, unattended>> /\ work[r].pc = "embed"
    BY <1>2 DEF Embed
  <2>2. Orderly(r)'
    BY <1>1, <2>1, GotoFacts, <1>2 DEF Orderly
  <2>3. QueueSound' /\ \A s \in SignalIds : Awaited(s) => Awaited(s)'
    BY <1>1, <1>2, EnqueueFlows DEF Embed
  <2>4. Unembedded' = Unembedded
    BY <2>1 DEF Unembedded, Rows
  <2>5. \A s \in work[r].new : Awaited(s)'
    <3>1. CASE EnqueueEmbed(e, work[r].new)
      BY <1>1, <3>1, EnqueueFlows
    <3>2. CASE EnqueueEmbedAll(e)
      <4>1. embeds'[e].pc = "queued" /\ embeds'[e].all
        BY <3>2, <1>1 DEF EnqueueEmbedAll, EnqueueJob, FreeSlot, SyncInv, EmbedsTyped
      <4> QED
        BY <4>1 DEF Awaited
    <3> QED
      BY <1>2, <3>1, <3>2 DEF Embed
  <2> QED
    BY <1>1, <2>1, <2>2, <2>3, <2>4, <2>5, GotoFacts, RunFlows
<1>3. CASE HandoverFails(r)
  <2>1. PICK pc \in {"report", "idle"} : Goto(r, pc)
    BY <1>3 DEF HandoverFails
  <2>2. UNCHANGED <<signals, embeds>> /\ unattended' = unattended \cup work[r].new
    BY <1>3 DEF HandoverFails
  <2>3. Orderly(r)'
    BY <1>1, <2>1, <2>2, GotoFacts DEF Orderly
  <2> QED
    BY <1>1, <2>1, <2>2, <2>3, GotoFacts, QuietFlows
<1> QED
  BY <1>2, <1>3 DEF HandOver

LEMMA ReportFlows ==
    ASSUME FlowInv, SyncInv', NEW r \in Runs, Report(r) PROVE FlowInv'
<1>1. SyncInv /\ work[r].pc = "report" /\ Ends(r) /\ UNCHANGED <<signals, embeds, unattended>>
  BY DEF FlowInv, Report, storeVars
<1>2. Orderly(r)'
  BY <1>1, EndsFacts DEF Orderly
<1> QED
  BY <1>1, <1>2, EndsFacts, QuietFlows DEF Flying

LEMMA CrashFlows ==
    ASSUME FlowInv, SyncInv', NEW r \in Runs, WorkerCrashes(r) PROVE FlowInv'
<1>1. work[r] \in Work /\ work \in [Runs -> Work]
  BY WorkFacts DEF FlowInv
<1>2. /\ OnlyMoves(r) /\ work'[r].pc = "queued" /\ work'[r].kind = work[r].kind
      /\ work'[r].todo = {} /\ work'[r].new = {} /\ work[r].kind \in Jobs
      /\ UNCHANGED <<signals, embeds>>
      /\ unattended' = unattended \cup (IF work[r].pc = "report" THEN {} ELSE work[r].new)
  BY <1>1 DEF WorkerCrashes, OnlyMoves, Work
<1>3. Orderly(r)'
  BY <1>2 DEF Orderly, Jobs
<1> QED
  BY <1>2, <1>3, QuietFlows DEF Flying

-----------------------------------------------------------------------------
LEMMA SyncWorkerFlows ==
    ASSUME FlowInv, SyncInv', NEW r \in Runs, NEW p \in Native \cup Nango, SyncWorker(p, r)
    PROVE  FlowInv'
<1>1. work[r] \in Work /\ work \in [Runs -> Work] /\ SyncInv /\ work[r].kind = "sync"
  BY WorkFacts DEF FlowInv, SyncWorker
<1>2. ASSUME OnlyMoves(r), UNCHANGED <<signals, embeds, unattended>>, work'[r].kind = "sync",
             Flying(r) => work[r].new \subseteq work'[r].new /\ Flying(r)'
      PROVE  FlowInv'
  BY <1>2, QuietFlows DEF Orderly
<1>3. CASE ReadIntegration(r)
  <2>1. UNCHANGED <<signals, embeds, unattended>> /\ ~Flying(r)
    BY <1>3 DEF ReadIntegration, storeVars, Flying
  <2>2. OnlyMoves(r) /\ work'[r].kind = "sync"
    <3>1. CASE work' = [work EXCEPT ![r].pc = "fetch", ![r].since = integration.lastSync]
      BY <1>1, <3>1 DEF OnlyMoves, Work
    <3>2. CASE Goto(r, "fetch") \/ Ends(r)
      BY <1>1, <3>2, GotoFacts, EndsFacts
    <3> QED
      BY <1>3, <3>1, <3>2 DEF ReadIntegration
  <2> QED
    BY <1>2, <2>1, <2>2
<1>4. CASE FetchFails(r)
  BY <1>1, <1>2, <1>4, GotoFacts DEF FetchFails, Flying
<1>5. CASE Fetch(r)
  <2>1. OnlyMoves(r) /\ work'[r].kind = "sync"
    BY <1>1, <1>5 DEF Fetch, OnlyMoves, Work
  <2> QED
    BY <1>2, <1>5, <2>1 DEF Fetch, Flying, storeVars
<1>6. CASE Stamp(r)
  <2>1. PICK pc \in {"report", "embed"} : Goto(r, pc) /\ (work[r].new # {} => pc = "embed")
    BY <1>6 DEF Stamp
  <2>2. UNCHANGED <<signals, embeds, unattended>>
    BY <1>6 DEF Stamp
  <2>3. Orderly(r)'
    BY <1>1, <2>1, GotoFacts DEF Orderly
  <2> QED
    BY <1>1, <2>1, <2>2, <2>3, GotoFacts, QuietFlows DEF Flying
<1> QED
  BY <1>1, <1>3, <1>4, <1>5, <1>6, InsertingFlows, HandOverFlows, ReportFlows, CrashFlows
     DEF SyncWorker

LEMMA StartRunFlows ==
    ASSUME FlowInv, SyncInv', NEW r \in Runs, StartRun(r) PROVE FlowInv'
<1>1. ASSUME NEW w, Starts(r, w), w.new = {}, w.kind \notin {"none", "ingest"},
             UNCHANGED storeVars
      PROVE  FlowInv'
  <2>1. OnlyMoves(r) /\ work'[r] = w /\ ~Flying(r)
    BY <1>1, WorkFacts DEF FlowInv, Starts, Fresh, Orderly, Flying, OnlyMoves
  <2> QED
    BY <1>1, <2>1, QuietFlows DEF Orderly, storeVars
<1>2. Idle \in Work /\ Idle.new = {}
  BY IdleTyped DEF Idle
<1>3. ASSUME NEW p, TriggerSync(p, r) PROVE FlowInv'
  <2> DEFINE w == [Idle EXCEPT !.kind = "sync", !.pc = "queued", !.provider = p,
                               !.intg = integration.id]
  <2>1. w.new = {} /\ w.kind = "sync"
    BY <1>2 DEF Work
  <2>2. Starts(r, w) /\ UNCHANGED storeVars
    BY <1>3 DEF TriggerSync
  <2> HIDE DEF w
  <2> QED
    BY <1>1, <2>1, <2>2
<1>4. ASSUME NEW kind \in {"upload", "transcript", "webhook", "event"}, NEW texts, Request(r, kind, texts)
      PROVE  FlowInv'
  <2> DEFINE payload == IF kind = "webhook" THEN CHOOSE c \in texts : TRUE ELSE None
             w == [Idle EXCEPT !.kind = kind, !.pc = "next", !.todo = texts, !.payload = payload]
  <2>1. Starts(r, w) /\ UNCHANGED storeVars
    BY <1>4 DEF Request
  <2> HIDE DEF payload
  <2>2. w.new = {} /\ w.kind = kind
    BY <1>2 DEF Work
  <2> HIDE DEF w
  <2> QED
    BY <1>1, <2>1, <2>2
<1> QED
  BY <1>3, <1>4
     DEF StartRun, TriggerSlackSync, TriggerIntercomSync, TriggerLinearSync, TriggerJiraSync,
         TriggerNangoSync, SyncAllIntegrations, UploadSignals, UploadCSV, UploadPlainText,
         UploadTranscript, Webhook, Event, SlackWebhook, IntercomWebhook, LinearWebhook, JiraWebhook

LEMMA RequestStepFlows ==
    ASSUME FlowInv, SyncInv', NEW r \in Runs, RequestStep(r) PROVE FlowInv'
<1>1. work[r] \in Work /\ work \in [Runs -> Work] /\ SyncInv /\ Orderly(r)
      /\ work[r].new \in SUBSET SignalIds
  BY WorkFacts, NewAreSignals DEF FlowInv
<1>2. CASE HandoverFails(r)
  <2>1. work[r].kind # "none"
    BY <1>1, <1>2 DEF HandoverFails, Inserted, AllInserted, Orderly
  <2> QED
    BY <1>2, <2>1, HandOverFlows DEF HandOver
<1>3. CASE RequestEnds(r)
  <2>1. Ends(r) /\ UNCHANGED <<signals, embeds, unattended>> /\ work[r].new \subseteq unattended
        /\ work[r].kind \notin {"none", "ingest"}
    BY <1>1, <1>3 DEF RequestEnds, Inserted, storeVars, Orderly
  <2>2. Orderly(r)'
    BY <1>1, <2>1, EndsFacts DEF Orderly
  <2> QED
    BY <1>1, <2>1, <2>2, EndsFacts, QuietFlows
<1>4. ASSUME NEW e \in EmbedSlots, UploadEmbeds(r, e) PROVE FlowInv'
  <2>1. Ends(r) /\ UNCHANGED <<signals, unattended>> /\ work[r].kind \in {"upload", "transcript"}
        /\ EnqueueEmbed(e, work[r].new)
    BY <1>4 DEF UploadEmbeds, Inserted
  <2>2. Orderly(r)'
    BY <1>1, <2>1, EndsFacts DEF Orderly
  <2>3. Unembedded' = Unembedded
    BY <2>1 DEF Unembedded, Rows
  <2> QED
    BY <1>1, <2>1, <2>2, <2>3, EndsFacts, EnqueueFlows, RunFlows
<1>5. CASE WebhookJob(r)
  <2>1. /\ OnlyMoves(r) /\ work'[r].pc = "queued" /\ work'[r].kind \in {"ingest", "agent"}
        /\ work'[r].todo = {} /\ work'[r].new = {}
        /\ UNCHANGED <<signals, embeds>> /\ unattended' = unattended \cup work[r].new
    BY <1>1, <1>5 DEF WebhookJob, Inserted, AllInserted, OnlyMoves, Work
  <2>2. Orderly(r)'
    BY <2>1 DEF Orderly
  <2> QED
    BY <2>1, <2>2, QuietFlows
<1> QED
  BY <1>2, <1>3, <1>4, <1>5, InsertingFlows DEF RequestStep

LEMMA IngestWorkerFlows ==
    ASSUME FlowInv, SyncInv', NEW r \in Runs, IngestWorker(r) PROVE FlowInv'
<1>1. work[r] \in Work /\ work \in [Runs -> Work] /\ SyncInv /\ Orderly(r)
      /\ work[r].kind \in {"ingest", "agent"}
  BY WorkFacts DEF FlowInv, IngestWorker
<1>2. CASE StartIngest(r)
  <2>1. /\ OnlyMoves(r) /\ work[r].pc = "queued" /\ work'[r].pc \in {"report", "next"}
        /\ work'[r].kind = work[r].kind /\ work'[r].new = work[r].new
        /\ work'[r].payload = work[r].payload
        /\ work[r].kind = "ingest" => work'[r].todo = {work[r].payload}
        /\ UNCHANGED <<signals, embeds, unattended>>
    BY <1>1, <1>2 DEF StartIngest, OnlyMoves, Work, storeVars
  <2>2. Orderly(r)'
    BY <1>1, <2>1 DEF Orderly
  <2> QED
    BY <2>1, <2>2, QuietFlows DEF Flying
<1>3. CASE CompleteIngest(r)
  <2>1. PICK pc \in {"embed", "report"} : Goto(r, pc) /\ (pc = "report" => work[r].new = {})
    BY <1>3 DEF CompleteIngest
  <2>2. UNCHANGED <<signals, embeds, unattended>>
    BY <1>3 DEF CompleteIngest, storeVars
  <2>3. Orderly(r)'
    BY <1>1, <2>1, GotoFacts DEF Orderly
  <2> QED
    BY <1>1, <2>1, <2>2, <2>3, GotoFacts, QuietFlows DEF Flying
<1> QED
  BY <1>1, <1>2, <1>3, InsertingFlows, HandOverFlows, ReportFlows, CrashFlows DEF IngestWorker

-----------------------------------------------------------------------------
(* Embed jobs and deletions: a signal is dropped from a list only when it  *)
(* is embedded, gone, or left unattended.                                  *)
LEMMA StoreFlows ==
    ASSUME FlowInv, SyncInv', QueueSound', UNCHANGED work, unattended \subseteq unattended',
           Unembedded' \subseteq Unembedded,
           \A s \in Unembedded' : Awaited(s) => Awaited(s)' \/ s \in unattended'
    PROVE  FlowInv'
<1>1. \A r \in Runs : Orderly(r)'
  BY DEF FlowInv, Orderly
<1>2. \A s : InFlight(s)' <=> InFlight(s)
  BY DEF InFlight
<1>3. UnembeddedHasJob'
  BY <1>2 DEF FlowInv, UnembeddedHasJob
<1> QED
  BY <1>1, <1>3 DEF FlowInv

LEMMA EmbedStepFlows ==
    ASSUME FlowInv, SyncInv', UNCHANGED work, NEW e \in EmbedSlots, EmbedStep(e) PROVE FlowInv'
<1>1. /\ embeds \in [EmbedSlots -> EmbedJob] /\ signals \in [SignalIds -> Signal]
      /\ \A f \in EmbedSlots : embeds[f] \in EmbedJob
      /\ Unembedded \subseteq SignalIds /\ QueueSound
  BY DEF FlowInv, SyncInv, EmbedsTyped, SignalsSound, Unembedded, Rows
<1>2. ASSUME \A f \in EmbedSlots \ {e} : embeds'[f] = embeds[f],
             embeds'[e].pc \in {"free", "queued"} => embeds'[e].todo = {},
             embeds'[e].all \/ embeds'[e].todo \subseteq embeds'[e].ids
      PROVE  QueueSound'
  BY <1>1, <1>2 DEF QueueSound
<1>3. ASSUME UNCHANGED signals PROVE Unembedded' = Unembedded
  BY <1>3 DEF Unembedded, Rows
<1>4. ASSUME UNCHANGED signals, unattended \subseteq unattended',
             \A f \in EmbedSlots \ {e} : embeds'[f] = embeds[f],
             embeds'[e].pc # "queued", embeds[e].pc # "queued",
             embeds'[e].ids = embeds[e].ids, embeds'[e].all = embeds[e].all,
             embeds'[e].pc = "free" => embeds'[e].todo = {},
             embeds'[e].todo \subseteq embeds[e].todo,
             \A s \in embeds[e].todo : s \in embeds'[e].todo \/ s \in unattended' \/ s \notin Unembedded
      PROVE  FlowInv'
  <2>1. QueueSound'
    BY <1>1, <1>2, <1>4 DEF QueueSound
  <2>2. \A s \in Unembedded : Awaited(s) => Awaited(s)' \/ s \in unattended'
    BY <1>4 DEF Awaited
  <2> QED
    BY <1>3, <1>4, <2>1, <2>2, StoreFlows
<1>5. CASE StartEmbed(e)
  <2> DEFINE todo == IF embeds[e].all THEN Oldest(EmbedLimit, Unembedded) ELSE embeds[e].ids
  <2>1. /\ embeds[e].pc = "queued" /\ embeds[e].todo = {}
        /\ \A f \in EmbedSlots \ {e} : embeds'[f] = embeds[f]
        /\ embeds'[e].pc = "embed" /\ embeds'[e].todo = todo
        /\ embeds'[e].ids = embeds[e].ids /\ embeds'[e].all = embeds[e].all
        /\ unattended' = unattended \cup (IF embeds[e].all THEN Unembedded \ todo ELSE {})
        /\ UNCHANGED signals
    BY <1>1, <1>5 DEF StartEmbed, EmbedJob, QueueSound
  <2>2. ~embeds[e].all => todo = embeds[e].ids
    OBVIOUS
  <2> HIDE DEF todo
  <2>3. QueueSound'
    BY <1>2, <2>1, <2>2
  <2>4. \A s \in Unembedded : Awaited(s) => Awaited(s)' \/ s \in unattended'
    BY <2>1, <2>2 DEF Awaited
  <2> QED
    BY <1>3, <2>1, <2>3, <2>4, StoreFlows
<1>6. ASSUME NEW s \in SignalIds, EmbedOne(e, s) PROVE FlowInv'
  <2>1. CASE s \in Rows
    <3>1. /\ signals' = [signals EXCEPT ![s].embedded = TRUE] /\ UNCHANGED unattended
          /\ \A f \in EmbedSlots \ {e} : embeds'[f] = embeds[f]
          /\ embeds[e].pc = "embed" /\ embeds'[e].pc = "find"
          /\ embeds'[e].todo = embeds[e].todo \ {s}
          /\ embeds'[e].ids = embeds[e].ids /\ embeds'[e].all = embeds[e].all
      BY <1>1, <1>6, <2>1 DEF EmbedOne, EmbedJob
    <3>2. Unembedded' \subseteq Unembedded \ {s}
      BY <1>1, <3>1 DEF Unembedded, Rows, Signal
    <3>3. QueueSound'
      BY <1>1, <1>2, <3>1 DEF QueueSound
    <3>4. \A t \in Unembedded' : Awaited(t) => Awaited(t)'
      BY <3>1, <3>2 DEF Awaited
    <3> QED
      BY <3>1, <3>2, <3>3, <3>4, StoreFlows
  <2>2. CASE s \notin Rows
    BY <1>1, <1>4, <1>6, <2>2 DEF EmbedOne, EmbedJob, Unembedded
  <2> QED
    BY <2>1, <2>2
<1>7. ASSUME NEW s \in SignalIds, EmbedFails(e, s) PROVE FlowInv'
  BY <1>1, <1>4, <1>7 DEF EmbedFails, EmbedJob
<1>8. CASE FindNear(e)
  BY <1>1, <1>4, <1>8 DEF FindNear, EmbedJob
<1>9. CASE MarkDuplicate(e)
  <2>1. /\ UNCHANGED unattended /\ \A f \in EmbedSlots \ {e} : embeds'[f] = embeds[f]
        /\ embeds[e].pc = "mark" /\ embeds'[e].pc = "embed" /\ embeds'[e].todo = embeds[e].todo
        /\ embeds'[e].ids = embeds[e].ids /\ embeds'[e].all = embeds[e].all
    BY <1>1, <1>9 DEF MarkDuplicate, EmbedJob
  <2>2. \A t \in SignalIds : /\ signals'[t].state = signals[t].state
                             /\ signals'[t].embedded = signals[t].embedded
    BY <1>1, <1>9 DEF MarkDuplicate, Signal, Rows
  <2>3. Unembedded' = Unembedded
    BY <2>2 DEF Unembedded, Rows
  <2>4. QueueSound' /\ \A t \in Unembedded : Awaited(t) => Awaited(t)'
    BY <1>1, <1>2, <2>1 DEF QueueSound, Awaited
  <2> QED
    BY <2>1, <2>3, <2>4, StoreFlows
<1>10. CASE EmbedEnds(e)
  <2>1. /\ UNCHANGED <<signals, unattended>> /\ \A f \in EmbedSlots \ {e} : embeds'[f] = embeds[f]
        /\ embeds[e].pc = "embed" /\ embeds[e].todo = {} /\ embeds'[e].pc = "free"
        /\ embeds'[e].todo = {}
    BY <1>1, <1>10 DEF EmbedEnds, FreeSlot
  <2>2. QueueSound' /\ \A t \in Unembedded : Awaited(t) => Awaited(t)'
    BY <1>2, <2>1 DEF Awaited
  <2> QED
    BY <1>3, <2>1, <2>2, StoreFlows
<1>11. CASE EmbedCrashes(e)
  <2>1. /\ UNCHANGED <<signals, unattended>> /\ \A f \in EmbedSlots \ {e} : embeds'[f] = embeds[f]
        /\ embeds'[e].pc = "queued" /\ embeds'[e].todo = {} /\ embeds[e].pc # "queued"
        /\ embeds'[e].ids = embeds[e].ids /\ embeds'[e].all = embeds[e].all
    BY <1>1, <1>11 DEF EmbedCrashes, EmbedJob
  <2>2. QueueSound' /\ \A t \in Unembedded : Awaited(t) => Awaited(t)'
    BY <1>1, <1>2, <2>1 DEF Awaited, QueueSound
  <2> QED
    BY <1>3, <2>1, <2>2, StoreFlows
<1> QED
  BY <1>5, <1>6, <1>7, <1>8, <1>9, <1>10, <1>11 DEF EmbedStep

LEMMA StillFlows ==
    ASSUME FlowInv, SyncInv', UNCHANGED <<storeVars, work>> PROVE FlowInv'
<1>1. QueueSound' /\ Unembedded' = Unembedded /\ \A s : Awaited(s) => Awaited(s)'
  BY DEF FlowInv, storeVars, QueueSound, Unembedded, Rows, Awaited
<1> QED
  BY <1>1, StoreFlows DEF storeVars

LEMMA DeleteFlows ==
    ASSUME FlowInv, SyncInv', UNCHANGED work, NEW s \in SignalIds, DeleteSignal(s) PROVE FlowInv'
<1>1. \A t \in SignalIds : /\ signals'[t].embedded = signals[t].embedded
                           /\ signals'[t].state = "row" => signals[t].state = "row"
  BY DEF DeleteSignal, WithoutRow, FlowInv, SyncInv, SignalsSound, Signal
<1>2. Unembedded' \subseteq Unembedded
  BY <1>1 DEF Unembedded, Rows
<1>3. QueueSound' /\ (\A t : Awaited(t) => Awaited(t)') /\ UNCHANGED unattended
  BY DEF FlowInv, DeleteSignal, QueueSound, Awaited
<1> QED
  BY <1>2, <1>3, StoreFlows

LEMMA FlowInvInit == SyncInit => FlowInv
<1> SUFFICES ASSUME SyncInit PROVE FlowInv
  OBVIOUS
<1>1. QueueSound /\ Unembedded = {}
  BY DEF SyncInit, StoreInit, QueueSound, FreeSlot, Unembedded, Rows, NoSignal
<1>2. \A r \in Runs : Orderly(r)
  BY DEF SyncInit, Orderly, Idle
<1> QED
  BY <1>1, <1>2, SyncInvInit DEF FlowInv, UnembeddedHasJob

LEMMA FlowInvStep == FlowInv /\ [SyncNext]_vars => FlowInv'
<1> SUFFICES ASSUME FlowInv, [SyncNext]_vars PROVE FlowInv'
  OBVIOUS
<1>1. SyncInv'
  BY SyncInvStep DEF FlowInv
<1>2. CASE \/ UNCHANGED vars \/ Tick \/ (\E i \in Items : Touch(i)) \/ ConnectAny \/ DisconnectAny
  <2>1. UNCHANGED <<storeVars, work>>
    BY <1>2 DEF vars, Tick, Touch, ConnectAny, SlackCallback, IntercomCallback, LinearCallback,
        JiraCallback, CreateNangoConnection, Connect, DisconnectAny, SlackDisconnect,
        IntercomDisconnect, LinearDisconnect, JiraDisconnect, DeleteNangoConnection, Disconnect
  <2> QED
    BY <1>1, <2>1, StillFlows
<1>3. ASSUME NEW r \in Runs, StartRun(r) \/ WorkStep(r) PROVE FlowInv'
  BY <1>1, <1>3, StartRunFlows, SyncWorkerFlows, IngestWorkerFlows, RequestStepFlows
     DEF WorkStep, SlackSyncWorker, IntercomSyncWorker, LinearSyncWorker, JiraSyncWorker,
         NangoSyncWorker, Native
<1>4. ASSUME NEW e \in EmbedSlots, EmbedWorks(e) PROVE FlowInv'
  BY <1>1, <1>4, EmbedStepFlows DEF EmbedWorks
<1>5. ASSUME NEW s \in SignalIds, UserDeletes(s) PROVE FlowInv'
  BY <1>1, <1>5, DeleteFlows DEF UserDeletes
<1> QED
  BY <1>2, <1>3, <1>4, <1>5 DEF SyncNext

(* Whatever syncs, uploads, webhooks and embed jobs do at the same time,   *)
(* and wherever they die: a signal without embedding has a job or a run on *)
(* the way to it, or was left behind by a trouble or on purpose.           *)
THEOREM NoSignalIsForgotten == SyncSpec => []UnembeddedHasJob
<1>1. FlowInv => UnembeddedHasJob
  BY DEF FlowInv
<1> QED
  BY <1>1, FlowInvInit, FlowInvStep, PTL DEF SyncSpec

-----------------------------------------------------------------------------
(* Nothing is missing behind the cursor.  Until a sync has fetched, all    *)
(* that is older than the cursor it read is safe; from then on, all that   *)
(* exists is safe or still in its hands, or changed under its eyes.        *)
Safe(i) == Full[i] \in exposed \/ EverStored(i)
Behind(t) == \A i \in Items : 0 < updated[i] /\ updated[i] < t => Safe(i)
InHand(r, c) == c \in work[r].todo \/ (work[r].pc = "insert" /\ work[r].cur = c)

Knows(r) ==
    work[r].kind = "sync" =>
        /\ work[r].pc \in {"queued", "fetch"} => Behind(work[r].since)
        /\ work[r].pc \in {"next", "insert"} =>
              \A i \in Items : 0 < updated[i] => Safe(i) \/ InHand(r, Full[i])

NoRowNoText == \A s \in SignalIds : signals[s].state = "none" => signals[s].content = None

CursorInv ==
    /\ SyncInv /\ NoRowNoText
    /\ integration.lastSync <= clock /\ \A r \in Runs : work[r].since <= clock
    /\ \A r \in Runs : Knows(r)
    /\ Behind(integration.lastSync)

TextsStay == \A s \in SignalIds :
                signals[s].content \in Contents => signals'[s].content = signals[s].content

LEMMA SafeStays ==
    ASSUME TextsStay, exposed \subseteq exposed' PROVE \A i \in Items : Safe(i) => Safe(i)'
BY SyncAssumption DEF TextsStay, Safe, EverStored

LEMMA TimesAreNats ==
    ASSUME SyncInv
    PROVE  /\ clock \in Nat /\ clock > 0 /\ integration.lastSync \in Nat
           /\ \A i \in Items : updated[i] \in Nat
           /\ \A r \in Runs : work[r].since \in Nat
BY SyncNats DEF SyncInv, WorldTyped, Integration, WorkSound, Work

(* A run moves, and nothing it does not touch becomes unsafe.              *)
LEMMA RunKnows ==
    ASSUME CursorInv, SyncInv', NEW r \in Runs, OnlyMoves(r), UNCHANGED <<updated, clock>>,
           \A i \in Items : Safe(i) => Safe(i)', NoRowNoText', Knows(r)',
           work'[r].since <= clock, integration'.lastSync <= clock, Behind(integration.lastSync)'
    PROVE  CursorInv'
<1>1. ASSUME NEW q \in Runs, q # r PROVE Knows(q)' /\ work'[q].since <= clock'
  <2>1. work'[q] = work[q] /\ Knows(q) /\ work[q].since <= clock
    BY <1>1 DEF OnlyMoves, CursorInv
  <2> QED
    BY <2>1 DEF Knows, Behind, InHand
<1> QED
  BY <1>1 DEF CursorInv

LEMMA QuietRunKnows ==
    ASSUME CursorInv, SyncInv', NEW r \in Runs, OnlyMoves(r),
           UNCHANGED <<updated, clock, integration, signals>>, exposed \subseteq exposed',
           Knows(r)', work'[r].since <= clock
    PROVE  CursorInv'
<1>1. \A i \in Items : Safe(i) => Safe(i)'
  BY SafeStays DEF TextsStay
<1>2. NoRowNoText' /\ Behind(integration.lastSync)'
  BY <1>1 DEF CursorInv, NoRowNoText, Behind
<1> QED
  BY <1>1, <1>2, RunKnows DEF CursorInv

LEMMA InsertingKnows ==
    ASSUME CursorInv, SyncInv', NEW r \in Runs, Inserting(r) PROVE CursorInv'
<1>0. /\ SyncInv /\ work[r] \in Work /\ work \in [Runs -> Work] /\ Knows(r)
      /\ work[r].since <= clock
  BY WorkFacts DEF CursorInv
<1>1. ASSUME NEW c \in Contents, LookUp(r, c) PROVE CursorInv'
  <2>1. /\ OnlyMoves(r) /\ work[r].pc = "next"
        /\ work'[r].kind = work[r].kind /\ work'[r].since = work[r].since
        /\ work'[r].todo = work[r].todo \ {c}
        /\ HasOriginal(c) \/ (work'[r].pc = "insert" /\ work'[r].cur = c)
        /\ work'[r].pc \in {"next", "insert"}
        /\ UNCHANGED <<updated, clock, integration, signals, exposed>>
    BY <1>1, <1>0 DEF LookUp, OnlyMoves, Work, storeVars, worldVars
  <2>2. \A i \in Items : Full[i] = c /\ HasOriginal(c) => EverStored(i)
    BY DEF HasOriginal, FindByContentHash, Originals, EverStored
  <2>3. \A i \in Items : Safe(i) => Safe(i)'
    BY <2>1, SafeStays DEF TextsStay
  <2>4. Knows(r)'
    BY <2>1, <2>2, <2>3, <1>0 DEF Knows, InHand, Safe
  <2> QED
    BY <2>1, <2>4, <1>0, QuietRunKnows
<1>2. CASE InsertFails(r)
  <2>1. /\ OnlyMoves(r) /\ work[r].pc = "insert"
        /\ work'[r].pc \in {"queued", "next"} /\ (work'[r].pc = "queued" => work[r].kind = "ingest")
        /\ work'[r].kind = work[r].kind /\ work'[r].since = work[r].since
        /\ work'[r].todo = work[r].todo
        /\ UNCHANGED <<updated, clock, integration, signals>> /\ exposed \subseteq exposed'
        /\ HasOriginal(work[r].cur) \/ work[r].cur \in exposed'
    BY <1>2, <1>0 DEF InsertFails, InsertRefused, OnlyMoves, Work, worldVars
  <2>2. \A i \in Items : Full[i] = work[r].cur /\ HasOriginal(work[r].cur) => EverStored(i)
    BY DEF HasOriginal, FindByContentHash, Originals, EverStored
  <2>3. \A i \in Items : Safe(i) => Safe(i)'
    BY <2>1, SafeStays DEF TextsStay
  <2>4. \A i \in Items : Full[i] = work[r].cur => Safe(i)'
    BY <2>1, <2>2, <2>3 DEF Safe
  <2>5. Knows(r)'
    BY <2>1, <2>3, <2>4, <1>0 DEF Knows, InHand
  <2> QED
    BY <2>1, <2>5, <1>0, QuietRunKnows
<1>3. ASSUME NEW s \in SignalIds, Insert(r, s) PROVE CursorInv'
  <2>1. /\ OnlyMoves(r) /\ work[r].pc = "insert" /\ work'[r].pc = "next"
        /\ work'[r].kind = work[r].kind /\ work'[r].since = work[r].since
        /\ work'[r].todo = work[r].todo
        /\ UNCHANGED <<updated, clock, integration, exposed>>
    BY <1>3, <1>0 DEF Insert, OnlyMoves, Work, worldVars
  <2>2. /\ signals' = [signals EXCEPT ![s] = [NoSignal EXCEPT !.state = "row", !.content = work[r].cur]]
        /\ signals[s].state = "none" /\ signals[s].content \notin Contents
        /\ signals \in [SignalIds -> Signal]
    BY <1>3, SignalAssumption
       DEF Insert, Inserts, WithRow, FreshId, CursorInv, NoRowNoText, SyncInv, SignalsSound
  <2>3. signals'[s].content = work[r].cur /\ signals'[s].state = "row"
        /\ \A t \in SignalIds \ {s} : signals'[t] = signals[t]
    BY <2>2 DEF NoSignal
  <2>4. TextsStay /\ NoRowNoText'
    BY <2>2, <2>3 DEF TextsStay, CursorInv, NoRowNoText
  <2>5. \A i \in Items : Safe(i) => Safe(i)'
    BY <2>1, <2>4, SafeStays
  <2>6. \A i \in Items : Full[i] = work[r].cur => Safe(i)'
    BY <2>3 DEF Safe, EverStored
  <2>7. Knows(r)'
    BY <2>1, <2>5, <2>6, <1>0 DEF Knows, InHand
  <2>8. Behind(integration.lastSync)'
    BY <2>1, <2>5 DEF CursorInv, Behind
  <2> QED
    BY <2>1, <2>4, <2>5, <2>7, <2>8, <1>0, RunKnows DEF CursorInv
<1> QED
  BY <1>1, <1>2, <1>3 DEF Inserting

LEMMA RestOfRunKnows ==
    ASSUME CursorInv, SyncInv', NEW r \in Runs, HandOver(r) \/ Report(r) \/ WorkerCrashes(r)
    PROVE  CursorInv'
<1>1. /\ SyncInv /\ work[r] \in Work /\ work \in [Runs -> Work]
      /\ work[r].since <= clock /\ clock \in Nat /\ clock > 0
      /\ \A i \in Items : updated[i] \in Nat
  BY WorkFacts, TimesAreNats DEF CursorInv
<1>2. ASSUME NEW pc \in {"report", "idle"}, Goto(r, pc),
             UNCHANGED <<updated, clock, integration, signals, exposed>>
      PROVE  CursorInv'
  BY <1>1, <1>2, GotoFacts, QuietRunKnows DEF Knows
<1>3. CASE HandOver(r)
  <2>1. PICK pc \in {"report", "idle"} : Goto(r, pc)
    BY <1>3 DEF HandOver, Embed, HandoverFails
  <2>2. UNCHANGED <<updated, clock, integration, signals, exposed>>
    BY <1>3 DEF HandOver, Embed, HandoverFails, worldVars
  <2> QED
    BY <1>2, <2>1, <2>2
<1>4. CASE Report(r)
  BY <1>1, <1>4, EndsFacts, QuietRunKnows DEF Report, Knows, storeVars, worldVars
<1>5. CASE WorkerCrashes(r)
  <2>1. /\ OnlyMoves(r) /\ work'[r].pc = "queued" /\ work'[r].since = 0
        /\ UNCHANGED <<updated, clock, integration, signals, exposed>>
    BY <1>1, <1>5 DEF WorkerCrashes, OnlyMoves, Work, worldVars
  <2>2. Knows(r)'
    BY <2>1, <1>1 DEF Knows, Behind
  <2> QED
    BY <1>1, <2>1, <2>2, QuietRunKnows
<1> QED
  BY <1>3, <1>4, <1>5

LEMMA SyncWorkerKnows ==
    ASSUME CursorInv, SyncInv', NEW r \in Runs, NEW p \in Native \cup Nango, SyncWorker(p, r)
    PROVE  CursorInv'
<1>1. /\ SyncInv /\ work[r] \in Work /\ work \in [Runs -> Work] /\ Knows(r)
      /\ work[r].since <= clock /\ work[r].since \in Nat /\ work[r].kind = "sync"
      /\ \A i \in Items : updated[i] \in Nat
      /\ clock \in Nat /\ integration.lastSync \in Nat /\ integration.lastSync <= clock
      /\ Behind(integration.lastSync)
  BY WorkFacts, TimesAreNats DEF CursorInv, SyncWorker
<1>2. CASE ReadIntegration(r)
  <2>1. UNCHANGED <<updated, clock, integration, signals, exposed>> /\ work[r].pc = "queued"
    BY <1>2 DEF ReadIntegration, storeVars, worldVars
  <2>2. \A t : Behind(t) => Behind(t)'
    BY <2>1 DEF Behind, Safe, EverStored
  <2>3. CASE work' = [work EXCEPT ![r].pc = "fetch", ![r].since = integration.lastSync]
    <3>1. /\ OnlyMoves(r) /\ work'[r].pc = "fetch" /\ work'[r].since = integration.lastSync
      BY <1>1, <2>3 DEF OnlyMoves, Work
    <3> QED
      BY <1>1, <2>1, <2>2, <3>1, QuietRunKnows DEF Knows
  <2>4. CASE Goto(r, "fetch")
    <3>1. OnlyMoves(r) /\ work'[r].pc = "fetch" /\ work'[r].since = work[r].since
      BY <1>1, <2>4, GotoFacts
    <3> QED
      BY <1>1, <2>1, <2>2, <3>1, QuietRunKnows DEF Knows
  <2>5. CASE Ends(r)
    BY <1>1, <2>1, <2>5, EndsFacts, QuietRunKnows DEF Knows
  <2> QED
    BY <1>2, <2>3, <2>4, <2>5 DEF ReadIntegration
<1>3. CASE FetchFails(r)
  <2>1. /\ UNCHANGED <<updated, clock, integration, signals, exposed>> /\ work[r].pc = "fetch"
        /\ OnlyMoves(r) /\ work'[r].pc = "queued" /\ work'[r].since = work[r].since
    BY <1>1, <1>3, GotoFacts DEF FetchFails, worldVars
  <2>2. Knows(r)'
    BY <1>1, <2>1 DEF Knows, Behind, Safe, EverStored
  <2> QED
    BY <1>1, <2>1, <2>2, QuietRunKnows
<1>4. CASE Fetch(r)
  <2>1. PICK got : /\ work' = [work EXCEPT ![r].pc = "next", ![r].todo = got]
                   /\ exposed' = exposed \cup MayMiss(work[r].since, got)
    BY <1>4 DEF Fetch
  <2>2. /\ OnlyMoves(r) /\ work[r].pc = "fetch" /\ work'[r].pc = "next"
        /\ work'[r].todo = got /\ work'[r].since = work[r].since
        /\ UNCHANGED <<updated, clock, integration, signals>>
    BY <1>1, <1>4, <2>1 DEF Fetch, OnlyMoves, Work, storeVars, worldVars
  <2>3. \A i \in Items : Safe(i) => Safe(i)'
    BY <2>1, <2>2, SafeStays DEF TextsStay
  <2>4. \A i \in Items : 0 < updated[i] /\ work[r].since <= updated[i] =>
            Full[i] \in got \/ Full[i] \in exposed'
    BY <1>1, <2>1 DEF MayMiss, Recent
  <2>5. Knows(r)'
    BY <1>1, <2>2, <2>3, <2>4 DEF Knows, Behind, InHand, Safe
  <2> QED
    BY <1>1, <2>1, <2>2, <2>5, QuietRunKnows
<1>5. CASE Stamp(r)
  <2>1. PICK pc \in {"report", "embed"} : Goto(r, pc)
    BY <1>5 DEF Stamp
  <2>2. /\ UNCHANGED <<updated, clock, signals, exposed>>
        /\ work[r].pc = "next" /\ work[r].todo = {}
    BY <1>5 DEF Stamp, AllInserted
  <2>3. \A i \in Items : 0 < updated[i] => Safe(i)
    BY <1>1, <2>2 DEF Knows, InHand
  <2>4. (\A i \in Items : Safe(i) => Safe(i)') /\ NoRowNoText'
    BY <2>2, SafeStays DEF TextsStay, CursorInv, NoRowNoText
  <2>5. integration'.lastSync <= clock
    BY <1>1, <1>5 DEF Stamp, UpdateLastSync, StampedAt, SyncInv, WorldTyped, Integration
  <2>6. Behind(integration.lastSync)'
    BY <2>2, <2>3, <2>4 DEF Behind
  <2>7. Knows(r)'
    BY <1>1, <2>1, GotoFacts DEF Knows
  <2> QED
    BY <1>1, <2>1, <2>2, <2>4, <2>5, <2>6, <2>7, GotoFacts, RunKnows
<1> QED
  BY <1>2, <1>3, <1>4, <1>5, InsertingKnows, RestOfRunKnows DEF SyncWorker

LEMMA StartRunKnows ==
    ASSUME CursorInv, SyncInv', NEW r \in Runs, StartRun(r) PROVE CursorInv'
<1>1. /\ SyncInv /\ work \in [Runs -> Work] /\ clock \in Nat
      /\ \A i \in Items : updated[i] \in Nat
  BY WorkFacts, TimesAreNats DEF CursorInv
<1>2. ASSUME NEW w, Starts(r, w), w.since = 0, w.kind # "sync" \/ w.pc = "queued",
             UNCHANGED <<storeVars, worldVars, exposed>>
      PROVE  CursorInv'
  <2>1. OnlyMoves(r) /\ work'[r] = w
    BY <1>1, <1>2 DEF Starts, OnlyMoves
  <2>2. Knows(r)'
    BY <1>1, <1>2, <2>1 DEF Knows, Behind, worldVars
  <2> QED
    BY <1>1, <1>2, <2>1, <2>2, QuietRunKnows DEF storeVars, worldVars
<1>3. Idle \in Work /\ Idle.since = 0
  BY IdleTyped DEF Idle
<1>4. ASSUME NEW p, TriggerSync(p, r) PROVE CursorInv'
  <2> DEFINE w == [Idle EXCEPT !.kind = "sync", !.pc = "queued", !.provider = p,
                               !.intg = integration.id]
  <2>1. w.since = 0 /\ w.pc = "queued"
    BY <1>3 DEF Work
  <2>2. Starts(r, w) /\ UNCHANGED <<storeVars, worldVars, exposed>>
    BY <1>4 DEF TriggerSync
  <2> HIDE DEF w
  <2> QED
    BY <1>2, <2>1, <2>2
<1>5. ASSUME NEW kind \in {"upload", "transcript", "webhook", "event"}, NEW texts, Request(r, kind, texts)
      PROVE  CursorInv'
  <2> DEFINE payload == IF kind = "webhook" THEN CHOOSE c \in texts : TRUE ELSE None
             w == [Idle EXCEPT !.kind = kind, !.pc = "next", !.todo = texts, !.payload = payload]
  <2>1. Starts(r, w) /\ UNCHANGED <<storeVars, worldVars, exposed>>
    BY <1>5 DEF Request
  <2> HIDE DEF payload
  <2>2. w.since = 0 /\ w.kind = kind
    BY <1>3 DEF Work
  <2> HIDE DEF w
  <2> QED
    BY <1>2, <2>1, <2>2
<1> QED
  BY <1>4, <1>5
     DEF StartRun, TriggerSlackSync, TriggerIntercomSync, TriggerLinearSync, TriggerJiraSync,
         TriggerNangoSync, SyncAllIntegrations, UploadSignals, UploadCSV, UploadPlainText,
         UploadTranscript, Webhook, Event, SlackWebhook, IntercomWebhook, LinearWebhook, JiraWebhook

(* Requests and ingest jobs have nothing to do with the cursor.            *)
LEMMA OthersKnow ==
    ASSUME CursorInv, SyncInv', NEW r \in Runs, RequestStep(r) \/ IngestWorker(r) PROVE CursorInv'
<1>1. /\ SyncInv /\ work[r] \in Work /\ work \in [Runs -> Work]
      /\ work[r].since <= clock /\ clock \in Nat /\ work[r].kind # "sync"
  BY WorkFacts, TimesAreNats DEF CursorInv, RequestStep, IngestWorker, Jobs
<1>2. ASSUME OnlyMoves(r), UNCHANGED <<updated, clock, integration, signals, exposed>>,
             work'[r].since \in {0, work[r].since}, work'[r].kind # "sync"
      PROVE  CursorInv'
  BY <1>1, <1>2, QuietRunKnows DEF Knows
<1>3. CASE RequestEnds(r) \/ \E e \in EmbedSlots : UploadEmbeds(r, e)
  BY <1>1, <1>2, <1>3, EndsFacts DEF RequestEnds, UploadEmbeds, storeVars, worldVars
<1>4. CASE WebhookJob(r)
  <2>1. OnlyMoves(r) /\ work'[r].since = work[r].since /\ work'[r].kind # "sync"
    BY <1>1, <1>4 DEF WebhookJob, OnlyMoves, Work
  <2> QED
    BY <1>2, <1>4, <2>1 DEF WebhookJob, worldVars
<1>5. CASE StartIngest(r)
  <2>1. OnlyMoves(r) /\ work'[r].since = work[r].since /\ work'[r].kind # "sync"
    BY <1>1, <1>5 DEF StartIngest, OnlyMoves, Work
  <2> QED
    BY <1>2, <1>5, <2>1 DEF StartIngest, storeVars, worldVars
<1>6. CASE CompleteIngest(r)
  <2>1. PICK pc \in {"embed", "report"} : Goto(r, pc)
    BY <1>6 DEF CompleteIngest
  <2> QED
    BY <1>1, <1>2, <1>6, <2>1, GotoFacts DEF CompleteIngest, storeVars, worldVars
<1> QED
  BY <1>3, <1>4, <1>5, <1>6, InsertingKnows, RestOfRunKnows DEF RequestStep, IngestWorker, HandOver

-----------------------------------------------------------------------------
(* The table moves: texts stay, so what was safe is safe.                  *)
LEMMA TableKnows ==
    ASSUME CursorInv, SyncInv', UNCHANGED <<work, worldVars, exposed>>, TextsStay, NoRowNoText'
    PROVE  CursorInv'
<1>1. \A i \in Items : Safe(i) => Safe(i)'
  BY SafeStays
<1> QED
  BY <1>1 DEF CursorInv, Knows, Behind, InHand, worldVars

LEMMA StoreMovesKnow ==
    ASSUME CursorInv, SyncInv',
           \/ \E e \in EmbedSlots : EmbedWorks(e)
           \/ \E s \in SignalIds : UserDeletes(s)
    PROVE  CursorInv'
<1>1. signals \in [SignalIds -> Signal] /\ NoRowNoText
  BY DEF CursorInv, SyncInv, SignalsSound
<1>2. UNCHANGED <<work, worldVars, exposed>>
  BY DEF EmbedWorks, UserDeletes
<1>3. ASSUME \A t \in SignalIds : /\ signals'[t].content = signals[t].content
                                  /\ signals'[t].state = "none" => signals[t].state = "none"
      PROVE  CursorInv'
  <2>1. TextsStay /\ NoRowNoText'
    BY <1>1, <1>3 DEF TextsStay, NoRowNoText
  <2> QED
    BY <1>2, <2>1, TableKnows
<1>4. ASSUME NEW e \in EmbedSlots, EmbedStep(e) PROVE CursorInv'
  <2>1. \/ UNCHANGED signals
        \/ \E s \in SignalIds : signals' = [signals EXCEPT ![s].embedded = TRUE]
        \/ \E s, t \in SignalIds : signals' = [signals EXCEPT ![s].original = t]
    BY <1>4 DEF EmbedStep, StartEmbed, EmbedOne, EmbedFails, FindNear, MarkDuplicate, EmbedEnds,
        EmbedCrashes, Rows
  <2> QED
    BY <1>1, <1>3, <2>1 DEF Signal
<1>5. ASSUME NEW s \in SignalIds, DeleteSignal(s) PROVE CursorInv'
  BY <1>1, <1>3, <1>5 DEF DeleteSignal, WithoutRow, Signal
<1> QED
  BY <1>4, <1>5 DEF EmbedWorks, UserDeletes

LEMMA WorldKnows ==
    ASSUME CursorInv, SyncInv', \/ Tick \/ (\E i \in Items : Touch(i)) \/ ConnectAny \/ DisconnectAny
    PROVE  CursorInv'
<1>1. /\ SyncInv /\ clock \in Nat /\ clock > 0 /\ integration.lastSync \in Nat
      /\ \A i \in Items : updated[i] \in Nat
      /\ \A r \in Runs : work[r].since \in Nat
      /\ integration.lastSync <= clock /\ \A r \in Runs : work[r].since <= clock
  BY TimesAreNats DEF CursorInv
<1>2. CASE Tick
  BY <1>1, <1>2
     DEF Tick, CursorInv, NoRowNoText, Knows, Behind, InHand, Safe, EverStored, storeVars
<1>3. ASSUME NEW i \in Items, Touch(i) PROVE CursorInv'
  <2>1. /\ updated' = [updated EXCEPT ![i] = clock] /\ UNCHANGED <<signals, integration, clock, work>>
        /\ exposed \subseteq exposed' /\ (InWindow => Full[i] \in exposed')
    BY <1>3 DEF Touch, storeVars
  <2>2. updated \in [Items -> 0 .. MaxTime]
    BY <1>1 DEF SyncInv, WorldTyped
  <2>3. (\A j \in Items : Safe(j) => Safe(j)') /\ NoRowNoText'
    BY <2>1, SafeStays DEF TextsStay, CursorInv, NoRowNoText
  <2>4. ASSUME NEW t \in Nat, t <= clock, Behind(t) PROVE Behind(t)'
    BY <1>1, <2>1, <2>2, <2>3, <2>4 DEF Behind
  <2>5. ASSUME NEW r \in Runs PROVE Knows(r)'
    <3>1. Knows(r) /\ work'[r] = work[r]
      BY <2>1 DEF CursorInv
    <3>2. work[r].kind = "sync" /\ work[r].pc \in {"next", "insert"} => Safe(i)'
      BY <2>1 DEF InWindow, Safe
    <3> QED
      BY <1>1, <2>1, <2>2, <2>3, <2>4, <3>1, <3>2 DEF Knows, InHand
  <2> QED
    BY <1>1, <2>1, <2>3, <2>4, <2>5 DEF CursorInv
<1>4. ASSUME UNCHANGED <<signals, updated, clock, work, exposed>>, integration'.lastSync = 0
      PROVE  CursorInv'
  BY <1>1, <1>4 DEF CursorInv, NoRowNoText, Knows, Behind, InHand, Safe, EverStored
<1>5. ASSUME NEW p, Connect(p) PROVE CursorInv'
  BY <1>4, <1>5 DEF Connect, CreateIntegration, storeVars
<1>6. ASSUME NEW p, Disconnect(p) PROVE CursorInv'
  BY <1>1, <1>4, <1>6 DEF Disconnect, DeleteIntegration, SyncInv, WorldTyped, Integration, storeVars
<1> QED
  BY <1>2, <1>3, <1>5, <1>6
     DEF ConnectAny, SlackCallback, IntercomCallback, LinearCallback, JiraCallback,
         CreateNangoConnection, DisconnectAny, SlackDisconnect, IntercomDisconnect,
         LinearDisconnect, JiraDisconnect, DeleteNangoConnection

LEMMA CursorInvInit == SyncInit => CursorInv
<1> SUFFICES ASSUME SyncInit PROVE CursorInv
  OBVIOUS
<1>1. integration.lastSync = 0 /\ clock = 1 /\ (\A i \in Items : updated[i] = 0)
      /\ \A r \in Runs : work[r] = Idle
  BY DEF SyncInit
<1>2. Idle.since = 0 /\ Idle.kind = "none"
  BY DEF Idle
<1>3. NoRowNoText
  BY DEF SyncInit, StoreInit, NoRowNoText, NoSignal
<1> QED
  BY <1>1, <1>2, <1>3, SyncInvInit DEF CursorInv, Knows, Behind

LEMMA CursorInvStep == CursorInv /\ [SyncNext]_vars => CursorInv'
<1> SUFFICES ASSUME CursorInv, [SyncNext]_vars PROVE CursorInv'
  OBVIOUS
<1>1. SyncInv'
  BY SyncInvStep DEF CursorInv
<1>2. CASE UNCHANGED vars
  BY <1>1, <1>2, TableKnows DEF vars, storeVars, worldVars, TextsStay, CursorInv, NoRowNoText
<1>3. ASSUME NEW r \in Runs, StartRun(r) \/ WorkStep(r) PROVE CursorInv'
  BY <1>1, <1>3, StartRunKnows, SyncWorkerKnows, OthersKnow
     DEF WorkStep, SlackSyncWorker, IntercomSyncWorker, LinearSyncWorker, JiraSyncWorker,
         NangoSyncWorker, Native
<1> QED
  BY <1>1, <1>2, <1>3, StoreMovesKnow, WorldKnows DEF SyncNext

(* What an integration's cursor has passed has been stored, unless it      *)
(* changed while a sync was under way or a named trouble kept it out; for  *)
(* any number of syncs side by side, crashing and starting again.          *)
THEOREM CursorPassesNothing == SyncSpec => []SyncedItemsAreStored
<1>1. CursorInv => SyncedItemsAreStored
  BY DEF CursorInv, Behind, Safe, SyncedItemsAreStored
<1> QED
  BY <1>1, CursorInvInit, CursorInvStep, PTL DEF SyncSpec
=============================================================================
