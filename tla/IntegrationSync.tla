-------------------------- MODULE IntegrationSync --------------------------
(***************************************************************************)
(* How signals get into SignalStore: the sync workers of the integrations  *)
(* (Nango and the native Slack, Intercom, Linear, Jira), their OAuth and   *)
(* trigger handlers and event webhooks, the Make.com webhook with its      *)
(* ingest job, and uploads.                                                *)
(*                                                                         *)
(* One project with at most one connected integration at a time; each      *)
(* r \in Runs is one job or request.  The pipeline rows these workers      *)
(* report to are PipelineEngine's subject and left out here. An item is an *)
(* issue, call, message or conversation of the provider; times are those   *)
(* at which items were last updated and last_sync_at was stamped.          *)
(***************************************************************************)
EXTENDS SignalStore

CONSTANTS
    RunTypeSchemas, \* does the CHECK on pipeline_runs.type admit nango_sync,
                  \* intercom_sync, slack_sync, linear_sync and jira_sync?
                  \* (migrations: {FALSE}, it lists six other types)
    Items,        \* what the provider holds
    Full, Title,  \* the text of an item, and what stands in for it
    Providers,    \* the integrations a user may connect
    PageSize,     \* how many items one unpaginated Nango call returns
    MaxTime,      \* bound of the clock
    MaxConnects,  \* bound: integrations ever connected
    Runs          \* bound: jobs and requests

Native == {"slack", "intercom", "linear", "jira"}
Nango  == {"gong", "nango_intercom", "nango_slack", "nango_other"}

ASSUME SyncAssumption ==
    /\ RunTypeSchemas \subseteq BOOLEAN
    /\ Full \in [Items -> Contents] /\ Title \in [Items -> Contents]
    /\ Providers \subseteq Native \cup Nango
    /\ PageSize \in Nat
    /\ MaxTime \in Nat \ {0}
    /\ MaxConnects \in Nat
    /\ Runs \subseteq Nat \ {None}

VARIABLES
    syncRunsAdmitted, \* the schema
    integration,  \* the connected integrations row
    updated,      \* when each item was last updated, 0: it does not exist
    clock,        \* now
    work,         \* the worker or handler of each run
    exposed       \* history: contents a sync may have missed, see MayMiss

vars == <<syncRunsAdmitted, storeVars, integration, updated, clock, work, exposed>>

Integration == [id : 0 .. MaxConnects, provider : Providers \cup {"none"},
                lastSync : 0 .. MaxTime]
(* sync, ingest and agent are River jobs (agent: an ingest job whose long  *)
(* text goes through the TranscriptAgent), the others are HTTP requests.   *)
Jobs == {"sync", "ingest", "agent"}
Kinds == Jobs \cup {"none", "upload", "transcript", "webhook", "event"}
Work == [kind : Kinds, provider : Providers \cup {"none"}, intg : 0 .. MaxConnects,
         pc : {"idle", "queued", "fetch", "next", "insert", "embed", "report"},
         since : 0 .. MaxTime, payload : Contents \cup {None}, todo : SUBSET Contents, cur : Contents \cup {None},
         new : SUBSET SignalIds]
Idle == [kind |-> "none", provider |-> "none", intg |-> 0, pc |-> "idle", since |-> 0,
         payload |-> None, todo |-> {}, cur |-> None, new |-> {}]

SyncTypeOK ==
    /\ StoreTypeOK
    /\ syncRunsAdmitted \in BOOLEAN
    /\ integration \in Integration
    /\ updated \in [Items -> 0 .. MaxTime]
    /\ clock \in 1 .. MaxTime
    /\ work \in [Runs -> Work]
    /\ exposed \in SUBSET Contents

SyncInit ==
    /\ StoreInit
    /\ syncRunsAdmitted \in RunTypeSchemas
    /\ integration = [id |-> 0, provider |-> "none", lastSync |-> 0]
    /\ updated = [i \in Items |-> 0]
    /\ clock = 1
    /\ work = [r \in Runs |-> Idle]
    /\ exposed = {}

worldVars == <<integration, updated, clock>>
Fresh(r) == work[r].kind = "none" /\ \A q \in Runs : q < r => work[q].kind # "none"
Goto(r, pc) == work' = [work EXCEPT ![r].pc = pc]
Ends(r) == work' = [work EXCEPT ![r] = [Idle EXCEPT !.kind = work[r].kind]]

-----------------------------------------------------------------------------
(* The provider and the clock.                                             *)
Tick ==
    /\ clock < MaxTime
    /\ clock' = clock + 1
    /\ UNCHANGED <<storeVars, integration, updated, work, exposed>>

(* An item changes while a sync is between its fetch and its stamp.        *)
InWindow == \E r \in Runs : work[r].kind = "sync" /\ work[r].pc \in {"next", "insert"}

Touch(i) ==
    /\ updated[i] < clock
    /\ updated' = [updated EXCEPT ![i] = clock]
    /\ exposed' = exposed \cup (IF InWindow THEN {Full[i]} ELSE {})
    /\ UNCHANGED <<storeVars, integration, clock, work>>

(* The OAuth callbacks and CreateNangoConnection, all of which end in      *)
(* CreateIntegration: a new row, never synced.                             *)
CreateIntegration(p) ==
    integration' = [id |-> integration.id + 1, provider |-> p, lastSync |-> 0]

Connect(p) ==
    /\ integration.provider = "none"
    /\ integration.id < MaxConnects
    /\ CreateIntegration(p)
    /\ UNCHANGED <<storeVars, updated, clock, work, exposed>>

SlackCallback         == "slack" \in Providers /\ Connect("slack")
IntercomCallback      == "intercom" \in Providers /\ Connect("intercom")
LinearCallback        == "linear" \in Providers /\ Connect("linear")
JiraCallback          == "jira" \in Providers /\ Connect("jira")
CreateNangoConnection == \E p \in Providers \cap Nango : Connect(p)

(* DeleteIntegration: the row goes, what runs for it goes on.              *)
DeleteIntegration == integration' = [integration EXCEPT !.provider = "none", !.lastSync = 0]

Disconnect(p) ==
    /\ integration.provider = p
    /\ DeleteIntegration
    /\ UNCHANGED <<storeVars, updated, clock, work, exposed>>

SlackDisconnect       == Disconnect("slack")
IntercomDisconnect    == Disconnect("intercom")
LinearDisconnect      == Disconnect("linear")
JiraDisconnect        == Disconnect("jira")
DeleteNangoConnection == \E p \in Nango : Disconnect(p)

-----------------------------------------------------------------------------
(* Starting a run.  The trigger handlers check that the integration exists,*)
(* create the run and insert the worker's job; a run that the schema       *)
(* refuses is an error 500 (from SyncAllIntegrations a warning) and no job.*)
Starts(r, w) == Fresh(r) /\ work' = [work EXCEPT ![r] = w]

TriggerSync(p, r) ==
    /\ syncRunsAdmitted
    /\ integration.provider = p
    /\ Starts(r, [Idle EXCEPT !.kind = "sync", !.pc = "queued", !.provider = p,
                              !.intg = integration.id])
    /\ UNCHANGED <<storeVars, worldVars, exposed>>

TriggerSlackSync(r)    == TriggerSync("slack", r)
TriggerIntercomSync(r) == TriggerSync("intercom", r)
TriggerLinearSync(r)   == TriggerSync("linear", r)
TriggerJiraSync(r)     == TriggerSync("jira", r)
TriggerNangoSync(r)    == \E p \in Nango : TriggerSync(p, r)

(* SyncAllIntegrationsWorker, every six hours: an integration without a    *)
(* Nango connection_id is skipped, so a native one is never synced by it.  *)
SyncAllIntegrations(r) == \E p \in Nango : TriggerSync(p, r)

-----------------------------------------------------------------------------
(* What the clients may return for a sync with last_sync_at = since: each  *)
(* definition is the set of possible results, a result a set of contents.  *)
Recent(since) == {i \in Items : updated[i] > 0 /\ updated[i] >= since}
Existing == Recent(0)

(* The converters keep an item's text and drop what the content hash does  *)
(* not cover.                                                              *)
MessageToSignal(i)      == Full[i]
ConversationToSignal(i) == Full[i]
LinearIssueToSignal(i)  == Full[i]
JiraIssueToSignal(i)    == Full[i]
(* Without its transcript a call is known by its title.                    *)
CallToSignal(i, told)   == IF i \in told THEN Full[i] ELSE Title[i]

(* Page after page until the provider says there is no more.               *)
ListConversations(since) == {{ConversationToSignal(i) : i \in Recent(since)}}
ListLinearIssues(since)  == {{LinearIssueToSignal(i) : i \in Recent(since)}}
(* JQL knows minutes only, so the filter may reach back further.           *)
ListJiraIssues(since) ==
    {{JiraIssueToSignal(i) : i \in Recent(t)} : t \in {since, IF since > 0 THEN since - 1 ELSE 0}}
(* A channel whose history cannot be fetched is skipped.                   *)
FetchChannelHistory(since) == {{MessageToSignal(i) : i \in S} : S \in SUBSET Recent(since)}
(* The transcripts FetchGongTranscripts brings, none when it fails.        *)
FetchGongTranscripts(S)  == SUBSET S
SyncGongSince(since) ==
    {{CallToSignal(i, told) : i \in Recent(since)} : told \in FetchGongTranscripts(Recent(since))}
(* One page, whatever last_sync_at says.                                   *)
Page == {S \in SUBSET Existing :
            Cardinality(S) = IF Cardinality(Existing) < PageSize
                             THEN Cardinality(Existing) ELSE PageSize}
SyncIntercom == {{Full[i] : i \in S} : S \in Page}
SyncSlack    == {{Full[i] : i \in S} : S \in Page}
(* The whole answer of the provider as one signal.                         *)
SyncGeneric  == {{c} : c \in Contents}

Fetches(p, since) ==
    CASE p = "slack"          -> FetchChannelHistory(since)
      [] p = "intercom"       -> ListConversations(since)
      [] p = "linear"         -> ListLinearIssues(since)
      [] p = "jira"           -> ListJiraIssues(since)
      [] p = "gong"           -> SyncGongSince(since)
      [] p = "nango_intercom" -> SyncIntercom
      [] p = "nango_slack"    -> SyncSlack
      [] p = "nango_other"    -> SyncGeneric

(* Contents that should have been fetched and were not.                    *)
MayMiss(since, got) == {Full[i] : i \in Recent(since)} \ got

-----------------------------------------------------------------------------
(* A sync worker, from its job to its report.                              *)
(* StartTask and GetIntegrationInternal; a native worker fails when the row*)
(* is gone, a Nango worker only loses its last_sync_at.                    *)
ReadIntegration(r) ==
    /\ work[r].kind = "sync" /\ work[r].pc = "queued"
    /\ IF integration.id = work[r].intg /\ integration.provider # "none"
       THEN work' = [work EXCEPT ![r].pc = "fetch", ![r].since = integration.lastSync]
       ELSE IF work[r].provider \in Nango THEN Goto(r, "fetch") ELSE Ends(r)
    /\ UNCHANGED <<storeVars, worldVars, exposed>>

(* The provider refuses or a page cannot be read: the task fails, River    *)
(* runs the job again from the start.                                      *)
FetchFails(r) ==
    /\ work[r].pc = "fetch"
    /\ Trouble
    /\ Goto(r, "queued")
    /\ UNCHANGED <<signals, embeds, unattended, worldVars, exposed>>

Fetch(r) ==
    /\ work[r].pc = "fetch"
    /\ \E got \in Fetches(work[r].provider, work[r].since) :
          /\ work' = [work EXCEPT ![r].pc = "next", ![r].todo = got]
          /\ exposed' = exposed \cup MayMiss(work[r].since, got)
    /\ UNCHANGED <<storeVars, worldVars>>

(* InsertSignal, first half: a content with an original is a duplicate.    *)
LookUp(r, c) ==
    /\ work[r].pc = "next"
    /\ c \in work[r].todo
    /\ work' = [work EXCEPT ![r].todo = @ \ {c},
                            ![r].cur = IF HasOriginal(c) THEN None ELSE c,
                            ![r].pc = IF HasOriginal(c) THEN "next" ELSE "insert"]
    /\ UNCHANGED <<storeVars, worldVars, exposed>>

(* InsertSignal, second half.                                              *)
Insert(r, s) ==
    LET c == work[r].cur IN
    /\ work[r].pc = "insert"
    /\ Inserts(s, c)
    /\ work' = [work EXCEPT ![r].pc = "next", ![r].cur = None, ![r].new = @ \cup {s}]
    /\ unattended' = unattended \cup (IF work[r].kind = "event" THEN {s} ELSE {})
    /\ UNCHANGED <<embeds, troubles, worldVars, exposed>>

(* An error of the INSERT fails the job of the short path, which River runs *)
(* again; everywhere else it is skipped.                                   *)
InsertFails(r) ==
    /\ work[r].pc = "insert"
    /\ \/ InsertRefused(work[r].cur) /\ UNCHANGED <<troubles, exposed>>
       \/ Trouble /\ exposed' = exposed \cup {work[r].cur}
    /\ work' = [work EXCEPT ![r].pc = IF work[r].kind = "ingest" THEN "queued" ELSE "next",
                            ![r].cur = None]
    /\ UNCHANGED <<signals, embeds, unattended, worldVars>>

(* UpdateIntegrationLastSync, only now and with the present time; no row is *)
(* updated when the integration is gone, and an error is only logged.      *)
(* A mutant rounds the cursor up, another stamps while it inserts.         *)
StampedAt(r, t) ==
    integration' = IF integration.id = work[r].intg /\ integration.provider # "none"
                   THEN [integration EXCEPT !.lastSync = t] ELSE integration
UpdateLastSyncUp(r) == StampedAt(r, clock + 1)
UpdateLastSync(r)   == StampedAt(r, clock)

BetweenInserts(r) == work[r].pc = "next"
AllInserted(r)    == work[r].pc = "next" /\ work[r].todo = {}

Stamp(r) ==
    /\ work[r].kind = "sync" /\ AllInserted(r)
    /\ \/ UpdateLastSync(r) /\ UNCHANGED troubles
       \/ Trouble /\ UNCHANGED integration
    /\ Goto(r, IF work[r].new = {} THEN "report" ELSE "embed")
    /\ UNCHANGED <<signals, embeds, unattended, updated, clock, exposed>>

-----------------------------------------------------------------------------
(* Uploads and webhooks: HTTP requests that insert and then hand over to   *)
(* jobs, by statements without a transaction.                              *)
Request(r, kind, texts) ==
    /\ Starts(r, [Idle EXCEPT !.kind = kind, !.pc = "next", !.todo = texts,
                              !.payload = IF kind = "webhook"
                                          THEN CHOOSE c \in texts : TRUE ELSE None])
    /\ UNCHANGED <<storeVars, worldVars, exposed>>

(* The rows of a CSV with a content and the paragraphs of a text are its   *)
(* signals, a file without any is refused.                                 *)
Files == (SUBSET Contents) \ {{}}
UploadCSV(r)       == \E S \in Files : Request(r, "upload", S)
UploadPlainText(r) == \E S \in Files : Request(r, "upload", S)
UploadSignals(r)   == UploadCSV(r) \/ UploadPlainText(r)

(* What the agent emits from a transcript, each signal inserted at once;   *)
(* the model decides what, so any set is possible.                         *)
ToolEmitSignal == SUBSET Contents
AgentProcess   == ToolEmitSignal
UploadTranscript(r) == \E S \in AgentProcess \ {{}} : Request(r, "transcript", S)

(* A Make.com webhook, authenticated by the secret of another integration. *)
Webhook(r) == \E c \in Contents : Request(r, "webhook", {c})

(* Event webhooks know a new item by less than a sync fetches of it, and   *)
(* insert for every active integration of the provider.                    *)
Event(p, r, texts) ==
    /\ integration.provider = p
    /\ \E i \in Existing : Request(r, "event", {texts[i]})
SlackWebhook(r)    == Event("slack", r, Full)
IntercomWebhook(r) == Event("intercom", r, Title)
LinearWebhook(r)   == Event("linear", r, Title)
JiraWebhook(r)     == Event("jira", r, Title)

Inserted(r, kinds) == work[r].kind \in kinds /\ AllInserted(r)

(* CreateIngestPipeline and an embed job for the inserted signals; the     *)
(* upload answers 201 even when neither was created.  A transcript's embed *)
(* job is inserted though every signal in it was a duplicate.              *)
UploadEmbeds(r, e) ==
    /\ Inserted(r, {"upload", "transcript"})
    /\ work[r].kind = "transcript" \/ work[r].new # {}
    /\ EnqueueEmbed(e, work[r].new)
    /\ Ends(r)
    /\ UNCHANGED <<signals, unattended, troubles, worldVars, exposed>>

(* insertSignalWithJob: the ingest job carries the text, not the signal it *)
(* was inserted as, and will take that signal for a duplicate.             *)
WebhookJob(r) ==
    /\ Inserted(r, {"webhook"})
    /\ work[r].new # {}
    /\ \E kind \in {"ingest", "agent"} :
          work' = [work EXCEPT ![r].kind = kind, ![r].pc = "queued", ![r].new = {}]
    /\ unattended' = unattended \cup work[r].new
    /\ UNCHANGED <<signals, embeds, troubles, worldVars, exposed>>

(* A duplicate or an event leaves nothing to do.                           *)
RequestEnds(r) ==
    /\ Inserted(r, {"upload", "webhook", "event"})
    /\ work[r].kind = "event" \/ work[r].new = {}
    /\ Ends(r)
    /\ UNCHANGED <<storeVars, worldVars, exposed>>

(* The ingest worker inserts the text itself, or what the TranscriptAgent  *)
(* extracts from it.                                                       *)
StartIngest(r) ==
    /\ work[r].kind \in {"ingest", "agent"} /\ work[r].pc = "queued"
    /\ \E S \in IF work[r].kind = "ingest" THEN {{work[r].payload}} ELSE AgentProcess :
          work' = [work EXCEPT ![r].todo = S,
                               ![r].pc = IF S = {} THEN "report" ELSE "next"]
    /\ UNCHANGED <<storeVars, worldVars, exposed>>

(* CompleteTask comes before the embed job, and the short path has none to *)
(* insert for a duplicate.  A mutant has none to insert at all.            *)
CompleteIngestQuietly(r) ==
    /\ Inserted(r, {"ingest", "agent"})
    /\ Goto(r, "report")
    /\ UNCHANGED <<storeVars, worldVars, exposed>>

CompleteIngest(r) ==
    /\ Inserted(r, {"ingest", "agent"})
    /\ IF work[r].kind = "agent" \/ work[r].new # {}
       THEN Goto(r, "embed") ELSE Goto(r, "report")
    /\ UNCHANGED <<storeVars, worldVars, exposed>>

-----------------------------------------------------------------------------
(* Handing over to an embed job: sync workers ask for everything that is   *)
(* unembedded, ingest workers for their own signals, and end there.        *)
Embed(r, e) ==
    /\ work[r].pc = "embed"
    /\ IF work[r].kind = "sync"
       THEN EnqueueEmbedAll(e) ELSE EnqueueEmbed(e, work[r].new)
    /\ Goto(r, "report")
    /\ UNCHANGED <<signals, unattended, troubles, worldVars, exposed>>

(* The insertion of a job fails, which is logged at most, or the request   *)
(* is cancelled, or its process dies.                                      *)
HandoverFails(r) ==
    /\ \/ work[r].pc = "embed"
       \/ Inserted(r, {"upload", "transcript", "webhook"}) /\ work[r].new # {}
    /\ Trouble
    /\ unattended' = unattended \cup work[r].new
    /\ Goto(r, IF work[r].kind \in Jobs THEN "report" ELSE "idle")
    /\ UNCHANGED <<signals, embeds, worldVars, exposed>>

(* CompleteTask and CheckPipelineCompletion; River records the result.     *)
Report(r) ==
    /\ work[r].pc = "report"
    /\ Ends(r)
    /\ UNCHANGED <<storeVars, worldVars, exposed>>

(* The executor dies: River runs the job again, which remembers nothing.   *)
WorkerCrashes(r) ==
    /\ work[r].kind \in Jobs
    /\ work[r].pc \in {"fetch", "next", "insert", "embed", "report"}
    /\ Trouble
    /\ work' = [work EXCEPT ![r].pc = "queued", ![r].todo = {}, ![r].cur = None,
                            ![r].new = {}, ![r].since = 0]
    /\ unattended' = unattended \cup (IF work[r].pc = "report" THEN {} ELSE work[r].new)
    /\ UNCHANGED <<signals, embeds, worldVars, exposed>>

EmbedWorks(e) == EmbedStep(e) /\ UNCHANGED <<worldVars, work, exposed>>
UserDeletes(s) == DeleteSignal(s) /\ UNCHANGED <<worldVars, work, exposed>>

-----------------------------------------------------------------------------
ConnectAny == \/ SlackCallback \/ IntercomCallback \/ LinearCallback \/ JiraCallback
              \/ CreateNangoConnection

DisconnectAny == \/ SlackDisconnect \/ IntercomDisconnect \/ LinearDisconnect
                 \/ JiraDisconnect \/ DeleteNangoConnection

StartRun(r) ==
    \/ TriggerSlackSync(r) \/ TriggerIntercomSync(r) \/ TriggerLinearSync(r)
    \/ TriggerJiraSync(r) \/ TriggerNangoSync(r) \/ SyncAllIntegrations(r)
    \/ UploadSignals(r) \/ UploadTranscript(r) \/ Webhook(r)
    \/ SlackWebhook(r) \/ IntercomWebhook(r) \/ LinearWebhook(r) \/ JiraWebhook(r)

Inserting(r) ==
    \/ \E c \in Contents : LookUp(r, c)
    \/ \E s \in SignalIds : Insert(r, s)
    \/ InsertFails(r)
HandOver(r) == (\E e \in EmbedSlots : Embed(r, e)) \/ HandoverFails(r)

SyncWorker(p, r) ==
    /\ work[r].kind = "sync" /\ work[r].provider = p
    /\ \/ ReadIntegration(r) \/ FetchFails(r) \/ Fetch(r) \/ Inserting(r) \/ Stamp(r)
       \/ HandOver(r) \/ Report(r) \/ WorkerCrashes(r)
SlackSyncWorker(r)    == SyncWorker("slack", r)
IntercomSyncWorker(r) == SyncWorker("intercom", r)
LinearSyncWorker(r)   == SyncWorker("linear", r)
JiraSyncWorker(r)     == SyncWorker("jira", r)
NangoSyncWorker(r)    == \E p \in Nango : SyncWorker(p, r)

IngestWorker(r) ==
    /\ work[r].kind \in {"ingest", "agent"}
    /\ \/ StartIngest(r) \/ Inserting(r) \/ CompleteIngest(r)
       \/ HandOver(r) \/ Report(r) \/ WorkerCrashes(r)

RequestStep(r) ==
    /\ work[r].kind \notin Jobs
    /\ \/ Inserting(r) \/ WebhookJob(r) \/ RequestEnds(r) \/ HandoverFails(r)
       \/ \E e \in EmbedSlots : UploadEmbeds(r, e)

WorkStep(r) ==
    \/ SlackSyncWorker(r) \/ IntercomSyncWorker(r) \/ LinearSyncWorker(r)
    \/ JiraSyncWorker(r) \/ NangoSyncWorker(r)
    \/ IngestWorker(r)
    \/ RequestStep(r)

SyncNext ==
    /\ UNCHANGED syncRunsAdmitted
    /\ \/ Tick
       \/ \E i \in Items : Touch(i)
       \/ ConnectAny
       \/ DisconnectAny
       \/ \E r \in Runs : StartRun(r) \/ WorkStep(r)
       \/ \E e \in EmbedSlots : EmbedWorks(e)
       \/ \E s \in SignalIds : UserDeletes(s)

SyncSpec == SyncInit /\ [][SyncNext]_vars

-----------------------------------------------------------------------------
EverStored(i) == \E s \in SignalIds : signals[s].content \in {Full[i], Title[i]}

(* Behind the cursor of an incremental sync nothing is missing but what    *)
(* changed while a sync was under way and what a named trouble kept out:   *)
(* crashes, retries and syncs of the same integration side by side, a      *)
(* reconnection or a deletion cost no item.                                *)
SyncedItemsAreStored ==
    \A i \in Items : 0 < updated[i] /\ updated[i] < integration.lastSync
                     /\ Full[i] \notin exposed => EverStored(i)

InFlight(s) ==
    \E r \in Runs : /\ s \in work[r].new
                    /\ work[r].pc \in {"next", "insert", "embed"}

(* A signal without an embedding, which synthesis cannot see, always has   *)
(* somebody on the way to embed it, unless an input path or a trouble      *)
(* left it behind: no snapshot an embed job takes loses one.               *)
UnembeddedHasJob ==
    \A s \in Unembedded \ unattended : InFlight(s) \/ Awaited(s)

(* A Make.com webhook that has stored its signal ends with an ingest job   *)
(* inserted, which is what one transaction for both would guarantee.       *)
WebhookCreatesJob ==
    \A r \in Runs : ~(work[r].kind = "webhook" /\ work[r].pc = "idle" /\ work[r].new # {})
=============================================================================
