# Neuco in TLA+

Neuco turns customer signals into feature candidates, specifications and draft
pull requests. Two Go binaries (`cmd/server`, the HTTP API, and `cmd/worker`,
which executes background jobs) share one PostgreSQL database; a SvelteKit
client (`neuco-web`) talks to the API. The interesting behaviour is in the
background pipelines: chains of jobs, each inserted by the one before it, that
River (an external job queue kept in the same database) executes at least once,
while the rows that tell users how a pipeline is doing are written beside it by
separate statements without transactions.

This directory holds the specification of that behaviour, what TLC checks of it
on small instances and what TLAPS proves of it for all instances. Paths are
relative to `src/`.

## Inventory

| Component | State | Operations | What is hard | What makes it correct | Here |
|---|---|---|---|---|---|
| Pipeline rows and helpers: `internal/jobs/pipeline_helpers.go`, `internal/store/pipelines.go` | `pipeline_runs`, `pipeline_tasks`, `notifications` | create run and tasks, `StartTask`, `CompleteTask`, `FailTask`, `CheckPipelineCompletion` | read-then-write without a transaction, several executions per run, errors only logged | a run is called completed or failed only for a reason its tasks gave, and is called something in the end | modelled |
| River (external): `cmd/worker/main.go`, `internal/jobs/registry.go`, `args.go` | `river_job`, executions | insert, fetch, execute, retry, time out, rescue, discard | at-least-once execution, death of a worker, one context for everything | - | partly |
| Retry endpoint: `internal/api/handlers/pipelines.go` | the same rows | `RetryPipeline` | runs beside the jobs, from a snapshot | resets only what failed and has it done again | modelled |
| Codegen pipeline: `internal/jobs/codegen.go`, `handlers/generations.go` | generations, pull requests, emails | six workers, `EnqueueCodegen`, the progress stream | side effects outside the database, retried | one generation and one pull request, both recorded and told | partly |
| Synthesis pipeline: `internal/jobs/synthesis.go`, `ingest.go`, `context.go` | signals' embeddings, candidates | seven workers, embed jobs beside the chain | parallel branches of one run, early ends | candidates once, every run reported | partly |
| Signals and webhooks: `internal/store/signals.go`, `handlers/{signals,webhooks}.go` | `signals` | insert, deduplicate, mark near-duplicates, delete | lookup and insertion are two statements; deletions beside embed jobs | one original per content, no dangling pointer | modelled |
| Ingest pipeline: `internal/jobs/ingest.go` | signals, embeddings | long and short form, embed job | early completion, which signals a job embeds | no signal without somebody to embed it | modelled |
| Integration syncs: `internal/jobs/*_sync.go`, `internal/{nango,slack,intercom,linear,jira}` | `integrations`, signals | connect, trigger, five workers, periodic fan-out | cursor and duplicates under retries | no item lost behind the cursor | modelled |
| Spec generation: `internal/jobs/specgen.go`, `internal/store/specs.go` | `specs` | generate, edit | repeated job, overlapping edits under a row lock | a gapless history | modelled |
| Copilot reviews and emails: `internal/jobs/{copilot,email}.go` | `copilot_notes` | review, send | retried side effects | - | partly |
| Agent codegen: `internal/jobs/agent_codegen.go`, `store/sandbox_session.go`, `handlers/session_stream.go` | sandbox sessions, sandboxes | prepare, provision, run, validate, stop | Stop against a running worker, retry loop, leaks | what is published was validated, the loop ends | modelled |
| Sandbox managers: `internal/codegen/sandbox_{local,docker,e2b}.go` | directories, containers, remote sandboxes | provision, write, execute, stream, collect, destroy | clean-up with a dead context, goroutines on two pipes | a failed `Provision` leaves nothing, a stream ends | partly |
| Sandbox limiter and cleaner: `internal/codegen/sandbox_{limiter,cleanup}.go` | counters, tracked sandboxes | acquire, release, track, sweep | locks released between look-up and action | limit kept, what expired is destroyed | modelled |
| Parallel sandboxes, multi-agent: `internal/codegen/{parallel_sandbox,multi_agent}.go` | goroutines | run | a shared context that ends | each sandbox has somebody to destroy it | partly |
| LLM client and circuit breaker: `internal/ai/` | breaker state | allow, success, failure, retry | late results of old calls | recovers with the provider | partly |
| Rate limiter: `internal/api/middleware/ratelimit.go` | buckets | get, allow, clean up | a bucket dropped between two locks | limits kept | modelled |
| Billing and usage limits: `internal/api/middleware/billing.go`, `handlers/billing.go` | `subscriptions`, projects | checkout, Stripe events, project limit | check-then-act, whole rows written back | last state wins, limits kept | partly |
| Authentication: `handlers/auth.go`, `store/{users,organizations}.go` | users, workspaces, members | GitHub and Google sign-in | several statements, overlapping first logins | nobody without a workspace | partly |
| CRUD endpoints and read models | rows | single statements | - | - | no |
| Web client, agents' prompts, docker, CI | views | - | - | - | no |

Components interact through rows (all state is in PostgreSQL), through jobs
(every worker inserts the next one) and through calls to GitHub, the LLM
providers, Stripe, the email provider, the sandboxes and the integrations, which
may fail at any time. `PROJECT.json` lists the components with what is left out
of each, every hazard with its line, every run, every definition with the lines
it models, and the theorems.

## Modules

| Module | Models |
|---|---|
| `PipelineContract` | the promise of `pipeline_runs.status`, in terms of what tasks have ever been |
| `PipelineEngine` | rows, helpers, River and the retry endpoint for one run of any pipeline |
| `CodegenPipeline` | the codegen workers on the engine: generations, pull requests, emails |
| `SynthesisPipeline` | the synthesis workers on the engine: embeddings, candidates |
| `SignalStore` | the `signals` table and the embed jobs that work on it |
| `IntegrationSync` | everything that brings signals into `SignalStore`: syncs, uploads, webhooks, ingest jobs |
| `SandboxManagers` | the local, docker and e2b implementations of `SandboxManager` |
| `AgentSession` | the agent pipeline over `SandboxManagers`, the session row, Stop |
| `ParallelSandboxes`, `SandboxCleaner` | two more users of `SandboxManagers` |
| `SandboxLimiter`, `SandboxStreams`, `LLMClient`, `RateLimiter`, `Accounts`, `Billing`, `SpecStore` | one small machine each, named for its file |
| `MC...` | constants, bounds and, in `MCGuards`, the small machines side by side |
| `SandboxProofs` | theorems about `SandboxLimiter`, `SandboxStreams` and `ParallelSandboxes` |
| `ServerProofs` | theorems about `Billing`, `Accounts` and `RateLimiter` |
| the other `...Proofs` | theorems about the module of that name |

### PipelineEngine

One run of one pipeline. `runStatus`, `runError`, `taskStatus` are the columns;
`jobs` the `river_job` rows together with their current execution; `creator` and
`api` the two HTTP requests that touch the run; `sent` counts notifications and
copilot reviews; `budget` counts what has gone wrong. `everCompleted` and
`everFailed` are history, read by no guard.

An execution is a program counter `pc`: `body` (the worker's own work), `chain`
(inserting the next job), `check`, `status`, `error`, `notify` (the statements of
`CheckPipelineCompletion`), `review`, `return`. Every statement that writes is
an action of its own, because other executions, users and crashes come between.
A statement has two outcomes: it succeeds while the job's context is live, or it
fails, because the context was cancelled or (against the bound `MaxFaults`) for
any other reason. The code only logs nearly all of these failures, and the model
goes on as the code does.

What the workers do around their work differs in four things: how the task is
marked, what is chained, whether completion is checked, whether a review is
asked for. That is a `Plan`; the constant `Plans[t]` is the set of plans worker
`t` may end with. `Spawns` are jobs inserted in the middle of the work. A plan
that marks the task failed returns an error to River; all others return `nil`.

A `JobIds` bound stands for the sequence `river_job.id`; it is large enough in
every run for all the jobs the run can insert (TLC would report a deadlock
otherwise). Not modelled: priorities, queues' worker limits, back-off times (they
only delay), more than one concurrent retry request.

### CodegenPipeline

Adds `genStatus` and `genPR` (the rows of `generations`), `github` (branches with
an open pull request; two calls for one branch are told apart by GitHub's
answer), `local` (the generation a job carries and how far its side effects
are), `emails`, and `unsaved`, a history of the updates that `create_pr` only logs.
`readable` says whether `GetGeneration` can scan a generation without pull request
and error, with which `create_pr` and `notify` begin; see *Two schemas*. Every action of the engine that belongs to a worker's work
gets the data the worker touches; the others leave the data alone. Branch and
commit are repeatable and are not distinguished; whether the GitHub app is
installed may change between attempts. The first three workers only read.

### SynthesisPipeline

Adds `embedded` (groups of signals with an embedding, one group per embed job),
`batches` (sets of candidates this run has written), `local` (what a job still
has to do). The embed jobs run beside the chain. Clustering takes whatever has an
embedding at that time. k-means, naming and scoring are abstracted: they change
no state that the order of the steps depends on.

### SignalStore and IntegrationSync

`signals` is the table. `InsertSignal` looks up the content and inserts in two
statements; the partial unique index of migration 000012 and its foreign key (both
external) are what the second one meets. An embed job lists unembedded signals (at
most `EmbedLimit`), embeds them batch by batch and marks near-duplicates; uploads,
syncs and other embed jobs run beside it, and deletions take rows away under all of
them. `unattended` names the signals that a trouble or an input path left without a
job.

`work[r]` is one job or request: its kind, program counter, the items it has in
hand, the signals it inserted. An item is what the provider holds, with the time
of its last change; a page is the set of items a client returns, so that the wire
formats are left out and the filter on time, the page limit of the unpaginated
Nango calls and the fall-back from full text to title are kept. The pipeline rows
these workers report to behave as `PipelineEngine` says and are not repeated.
`syncRunsAdmitted` says whether the run of a sync can be inserted at all, which
`TriggerSync` needs; see *Two schemas*.

### SandboxManagers, AgentSession, ParallelSandboxes, SandboxCleaner

A sandbox is a number. `exists` is the truth outside the process (directory,
container, remote sandbox), `known` the map in the manager, which dies with the
worker. Each operation is given whether its context is alive and whether the call
fails; `Destroy` of the local manager works whatever the context, docker's and e2b's
need a live one. A failed `Provision` cleans up with a context of its own and does
not look whether that succeeded. The agent's workers hand on a sandbox without its id, with which docker and e2b can
run nothing.

`AgentSession` has the jobs (`jobs[j].pc` walks through the worker, one action per
statement or sandbox call), the session row per sandbox, the generation row, the work
in a sandbox ("good" if validation would pass it), whether the files of the generation
are the validated ones, and the user who stops the session. The provider of the
agent is one the worker has registered or not (`ProviderUnknown`: the task fails, the
session stays `running`); `readable` is as in `CodegenPipeline`. A job whose last
attempt has failed stays, as "discarded". `repeats`, `miscounts` and
`abandoned` are history: executions begun anew after a crash, retry counts that could
not be written, sandboxes known to have been left behind (by an execution that failed
after `Provision`, by a clean-up inside `Provision` that failed, by a crash). `ParallelSandboxes` is
`ParallelSandboxRunner.Run` with its semaphore and shared context; `SandboxCleaner`
the loop with its snapshot of the expired sandboxes.

### The small machines

- `SandboxLimiter`: a counter per organisation; `holding` (not in the code) says
  who holds a slot.
- `SandboxStreams`: lines are counted, in the command, a pipe and the channel;
  local and docker have two readers and a closer, e2b one reader.
- `LLMClient`: callers of two providers behind one breaker; the back-off of a 429
  and the 30-second limit of a request only delay.
- `RateLimiter`: one key with one bucket; `budget` (not in the code) is what a
  bucket that is never dropped would hold, `spare` how many requests held a
  bucket that was dropped under them.
- `Accounts`: both callbacks, statement by statement.
- `Billing`: `account` is the truth at Stripe, `inbox` the events on their way,
  `row` the subscription; `disorder` counts deliveries that are repeated,
  reordered, overlapping or failing. One customer per organisation. The projects are
  those of the same organisation; `strangers` counts the requests that the middleware
  let through for the token of another one (`AdmittedElsewhere`), whose project may
  still go into this one, as the project of an own request may go elsewhere.
- `SpecStore`: rows, editors that wait for each other's row lock, generation jobs
  with River's attempts, and the review's notes; `hasColumns` says whether the
  columns that its statements name exist.

`MCGuards` puts these and the two sandbox machines into one next-state relation: `scenario`
is chosen in the initial state and only that machine moves, so the number of
states is the sum of theirs. The machines share no state in the code either,
except that several of them act on sandboxes, which `SandboxManagers` models for each.

## Runs

| Run | Question |
|---|---|
| `engine_trouble` | Do the helpers keep the contract whatever crashes, fails or is retried? Does the invariant behind the proof hold? |
| `codegen_live` | When steps fail and are retried, does every run end, say how it ended, and mail its pull request? |
| `codegen_trouble` | The three steps with side effects, one trouble (a crash starts a second chain beside the first): order, no step twice, nothing taken back, at most one more generation and pull request per crash, no pull request unrecorded and no completed run without generation but for a trouble. |
| `synthesis_parallel` | Two embed jobs beside the chain: does the last to finish report the run? |
| `synthesis_trouble` | One statement fails or a user retries: order of the chain, candidates once, no completion without candidates. |
| `ingest_trouble` | Two syncs, uploads or webhooks beside an embed job, deletions, one trouble: one original per content, pointers, the cursor, nobody forgotten. |
| `agent_session` | The agent pipeline on each provider with one fault, failed clean-up, time-out or crash: is what is stored what was validated, are the retries used up and, unless a job is rescued, not passed, are leaks known, does a verdict come? |
| `guards` | The ten small machines: their books under interleaving and faults; the cleaner, the streams and the breaker come to an end. |

The largest are `engine_trouble` (1.6 million distinct states), `ingest_trouble` (1.3
million) and `guards` (350 000 and three liveness properties): two to three minutes each. The four runs that
expect a violation follow below.

Every property of a passing run has a mutant: a plausible bug, defined beside the
definition it replaces and named so (`A mutant: ...`), under which the property
fails. Mutants are in no next-state relation.

### Bounds

*Pipelines.* Two attempts per job (one in `synthesis_parallel`), where River
grants 25: a job that fails, is retried and fails again takes every path, a third
attempt repeats the second. Trouble is bounded in each kind (`MaxCrashes`,
`MaxFaults`, `MaxRetries`) and in total (`MaxTroubles`); the runs allow one trouble
of any kind at any point. More would multiply the states and not the kinds of
interleaving, since jobs that run beside each other already come from one crash
or one embed job. `MaxCount` only bounds the counters of what was sent. A run at
rest takes `Rest`, and deadlock is checked. `codegen_trouble` leaves out the three
steps that write nothing but their tasks; they are in `codegen_live`. A crash in
the whole synthesis pipeline with retried jobs needs a dozen jobs and is out of
TLC's reach; the engine run has a pipeline of the same shape.

*Signals.* Two contents that are near-duplicates of each other, one item whose
text and title they are, two rows, two jobs or requests, one embed job at a time,
which takes one signal (so that one is always left for the next), and one page of one
item. The clock stops at 2 and there is one connection; the proofs have no such
bound. The constraint `Apart` explores uploads and Make.com webhooks without an
integration: they touch only `signals`, which the event webhooks of the
integrations also insert into beside the syncs. Three more leave out the trouble where
another part of the run has it: `RefusedApart` on the schema that refuses syncs (the other
has all its behaviours), `TwinsApart` for Intercom and Linear (Jira may fetch whatever
they fetch, and their workers are alike), `GongApart` for two syncs of Gong side by side
(one of Gong, and two of Slack or Jira, have it).

*Agent.* Two sandboxes and three jobs alive at once (one that reports, its successor
and one begun anew), two attempts, one retry of the agent. `StopApart` explores Stop
without troubles: it writes only the status of a session, which no worker reads before
it acts. `LoopsApart` ends a behaviour in which a job was begun anew at the second execution of the agent: with one retry,
`RetriesExact` holds for good from there.

*Guards.* Three sandboxes for two slots, three sessions for two slots, three lines on a
pipe of one, three callers of two providers with a threshold of 2 (5 in the code)
and one retry (5), three tokens, two overlapping logins with one failing
statement, three Stripe events with one irregular delivery, two creators, one request of
another organisation (`MaxStrangers`) and two changes of the plan, two editors beside one generation with two attempts. Each is the
least at which the limit is reached, passed over and left again.

*Two schemas.* In five places the migrations and the code disagree such that a statement
always fails on a database made by the migrations. A constant set says which schemas
are explored; the migrations' own is in every one, and the one the code was written
for is there so that what comes after the statement is checked too:

| Constant | On the schema of the migrations | So there |
|---|---|---|
| `GenerationSchemas` (`CodegenPipeline`, `AgentSession`) | `CreateGeneration` (`store/generations.go:24`) leaves `pr_url` and `error` NULL and `scanGeneration` (`:138`, `:140`) scans them into plain strings, so `GetGeneration` fails at every use: `codegen.go:623` and `:849`, `agent_codegen.go:572` and `:605`, `handlers/generations.go` | no pull request is ever opened, recorded or mailed, no codegen run completes, no generation is completed, failed or given files, the progress stream answers 404. `PRIsRecorded`, `PRIsAnnounced`, `CompletedRunHasGeneration` and `GenerationHoldsValidatedWork` say something only on the other schema |
| `RunTypeSchemas` (`IntegrationSync`) | the CHECK on `pipeline_runs.type` (`migrations/000001:187`) lists none of the five sync types of `domain/pipeline.go:40`, and every trigger makes the run first | no sync ever runs: a manual trigger answers 500, the periodic one logs and goes on. `SyncedItemsAreStored` says something only on the other; uploads, webhooks and ingest jobs run on both |
| `SessionStatuses` (`AgentSession`) | the CHECK of `migrations/000017:29` refuses `provisioned` | no session row, one sandbox left per attempt: the run `session_refused`. `agent_session` has the status admitted |
| `SpecSchemas` (`SpecStore`) | `specs.generated_by`, which `CreateSpec`, `UpdateSpec` and the columns of `store/specs.go:18` name, and `feature_candidates.created_at`, which `GetCandidateInternal` (`internal_queries.go:67`) names, are in no migration | no spec is generated, shown or edited; `name_themes`, which reads each candidate by the same query, logs the error and names none |
| `LoginNullables` (`Accounts`) | `users.github_login` is NOT NULL and the first sign-in with Google inserts none | that sign-in fails |

A sixth is in the models without a constant: `cluster_themes` reads the column
`embedding vector(1536)` into a `[]float32` (`store/internal_queries.go:211`) over a
connection without a codec for that type, which pgx cannot do; as far as the driver's source tells,
a synthesis with any embedded signal then fails there at each attempt. `SynthesisPipeline` has
this outcome among others; `CompletedRunClustered` and `CandidatesWrittenOnce` say
something where the vectors can be read.

Deadlock is not checked where the system may rest for good: when all inputs of the
bound have been used (`ingest_trouble`), when a pipeline has ended (`agent_session`),
when a small machine is done (`guards`).

### Fairness

`NoRunLost` is checked under weak fairness of the steps of each job's execution
and of River's rescue: the worker binary keeps fetching and executing jobs, and
River's rescuer runs periodically. `AgentWorkIsJudged` assumes the same of the
steps of the agent's jobs. `CleanerEndsExpired` assumes that the ticker ticks and the sweep
goes on. `StreamCloses` assumes that goroutines run, that a context with a
deadline ends and then kills the command, and that a consumer that reads keeps
reading; not that the command ends, nor that the consumer stays. `BreakerRecovers`
assumes that requests end (30 seconds), the cooldown passes and there is always
another call. Nothing is fair about users, providers, faults or crashes. The
progress stream is checked at rest instead.

### Where code and documents disagree

Four runs expect a violation. Each checks one sentence of a document or comment.

| Run | Sentence | What the code does |
|---|---|---|
| `webhook_lost` | `neuco-architecture.md:400` "eliminates the whole class of 'webhook was received but ingest job was never created' bugs" | a failure between the signal and its job leaves the signal; the redelivery is answered as a duplicate |
| `session_refused` | `CODEGEN_PLAN.md:525` "persist `sandbox_id`, `status=provisioning`" | it writes `provisioned`, which the CHECK of migration 000017 refuses; the sandbox stays behind, once per attempt |
| `generation_unlimited` | `ratelimit.go:215` "10 requests/hour per org for generation endpoints" | both tiers use the key `org:<id>` and the default tier always makes the bucket |
| `spec_conflict` | `specs.go:103` "no gaps or conflicts" | a second edit that waited for the lock stores the same version again |

The models show more. Where the sentence is stated as a formula it stays in its module,
checked by no run:

- `RetryReenqueues` (`pipelines.go:87` "Re-enqueue failed tasks"): the retry
  endpoint inserts no job. It also resets tasks from a snapshot and may take back
  one that runs or is done by then (`IMPLEMENTATION_PLAN.md:269`: "failed tasks only").
- `RunEnds` (`neuco-prd.md:236` "no pipeline is silently lost"): a failed
  insertion of the next job is only logged, and the run stays pending; a synthesis
  with nothing to embed, or too few signals to cluster, leaves its later tasks
  pending in the same way. Four synthesis workers (`fetch_signals`,
  `cluster_themes`, `score_candidates`, `update_context`) fail without the
  completion check, so a failed run is not called failed.
- `CreatePRIsIdempotent` (`codegen.go:630` "so retries are idempotent"): when the pull
  request was opened and could not be recorded, GitHub refuses the second call for
  the branch in every later attempt.
- `StreamEnds` (`ARCH.md:168` "final `done`"): the generation that is streamed is
  not the one the workers complete.
- `FailureIsReal` (`ARCH.md:431` "keep task/run state synchronized"): an execution
  that decided "failed" before a retry writes it over "completed". It needs two
  executions of one run at a time: a synthesis has them always, codegen after a crash.
- `StepsAreIdempotent` (`neuco-architecture.md:79` "idempotent unit of work"):
  `cluster_themes` repeated after a crash adds the candidates again. Embedding and
  clustering are also inserted at once though `ARCH.md:409` puts one before the other.

And without a formula of their own:

- *Agent.* The count of retries travels through the session row. A worker that dies
  after it has chained the next job is executed anew beside it; the two loops then set
  each other's count back in that row, and the agent runs more often than two loops by
  themselves would: nine times after one crash with the default of three retries
  (`CODEGEN_PLAN.md:559`: "until max iterations"). The session stays `validating`
  after the last retry, and `running` when the provider its configuration names is not
  registered: the worker knows `claude-code` alone (`agent_codegen.go:311`), the API offers
  seven (`cmd/server/main.go:75`). What ends in every case is the task, whose last
  failed attempt is what `AgentWorkIsJudged` waits for. The stop of a user (`cancelled`) is overwritten by the worker
  that runs (`v1.d.ts:3109`). Sandboxes are never destroyed at the end
  (`CODEGEN_PLAN.md:566`). `UpdateSandboxSessionResult` wipes the files and validation
  results stored before. `BuildCommand` reads `INSTRUCTIONS.md` on the host of the
  worker, where docker and e2b have none. River's default time limit of a minute
  applies to jobs whose agent may take longer. A validation command that cannot be run is
  skipped and counts as passed, so "validated" means that no command that ran failed. The e2b manager takes a reply without
  an exit code for success.
- *Sandboxes.* `Provision` ignores the error of the `Destroy` it cleans up with
  (`sandbox_docker.go:91`, `sandbox_e2b.go:86`, `sandbox_local.go:68`), so a sandbox may stay of
  which nobody has the id. When the shared context has expired, the deferred `Destroy` of the docker
  and e2b managers fails and the sandbox stays; a configuration that never got
  a slot has no result of its own (`parallel_sandbox.go:47`). The cleaner destroys a
  sandbox that is renewed during a sweep, and tries for ever one that is gone.
  The report of an interrupted command is sent with `context.Background()` and may
  block for ever when the consumer has gone. Limiter, cleaner, parallel runner and
  `CreateAgentCodegenPipeline` have no callers outside tests.
- *Accounts.* `store/users.go:41` inserts no `github_login`, which migration 000001
  declares NOT NULL and migration 000010 speaks of as nullable: a first sign-in with
  Google fails on that schema. A first login that fails between the workspace and its
  member leaves the slug taken, and the person out. Two overlapping first logins by
  different providers may make two users with one address.
- *Billing.* `IncrementSignalUsage` and `IncrementPRUsage` have no callers, so the limits
  on signals and pull requests never refuse. A plan changed in the customer portal
  does not reach `plan_tier`. The limits and counts are those of the organisation of
  the token (`middleware/billing.go:84`), the project goes into the organisation of the
  route (`handlers/projects.go:46`), and nothing ties the two: each request of a member
  whose token is another organisation's may add a project beyond the plan, which
  `ProjectsWithinPlan` counts. When the date of the organisation cannot be read, an expired
  trial is let through (`:101`). An error in a handler is answered with 200, so Stripe
  does not deliver again.
- *Specs.* No migration adds the column `generated_by` that the insertion, the edit and
  the reads of `store/specs.go` name (`GetSpecInternal`, which the workers use, does not). A regenerated spec has version 1, so it is not the latest
  after an edit. Overlapping edits lose one of the two.
- *LLM.* A caller who cancels counts as a failure of the provider, and both
  providers share one breaker. (`LLMClient` has the
  failures of a provider that is ill; cancellations and answers that cannot be decoded at
  one that is well are left out, and as long as they go on `BreakerRecovers` claims nothing.) *Rate limits.* Sign-in and webhook tiers share a
  key as well, and a request whose bucket is dropped under it is one more than the limit.

## Proofs

All theorems hold for every value of the constants that the assumptions of the
module allow: any tasks, plans, signals, numbers of jobs, attempts, crashes, faults
and retries. What a module assumes of its constants is its `ASSUME`: the workers'
plans are those of the code, sets that are counted are finite, job ids are numbers
(River's sequence), and bounds are numbers.

### The engine

- `TypeCorrect`: `Spec => []TypeOK`.
- `VerdictsAreCovered`: `Spec => []Consistent`. The heart is `VerdictGiven`:
  an execution may hold a verdict for any time before it writes it, while tasks
  are restarted, retried or reset; that is harmless because a verdict is about
  what tasks have *ever* been, and history only grows. It is inductive only
  together with `HistoryKept` (rows agree with history), `RunCreatedFirst` (when a
  job exists all tasks' rows exist, so "all rows completed" means all tasks) and
  `ExecutionSound` (only running jobs execute), and `TypeOK`.
- `ContractIsKept`: `Spec => KeepsContract`, the refinement: the initial state maps
  to the contract's, and every step to a step of the contract or a stutter.
- `ChainsAreKept`: for any set of tasks that `IsChain` (each worker that chains
  inserts the next of them and nothing else inserts any), `ChainInv` holds. Order
  (`EarlierCompleted`) and uniqueness without a crash (`OneAtATime`) hold each other up:
  a job chains once because it is done before its successor exists, and its successor
  exists once because it chains once. `PlansHeld` says which plan an execution past
  its work still has to carry out.
- `NothingTakenBack`: `NoRegress` for any single chain, from `SettledInv`. A completed
  row goes back only if a second execution of its task, a user or a stale verdict
  writes it. Without a crash the first does not exist (`MarkedForGood`), and no
  verdict of failure outlives the failure (`NothingToTell`).
- `RunTellsItsEnd`: `Synchronised` and `OutcomeIsAnnounced` for any chain that ends as
  `EndsAt` says, with the part about messages where `MaxCount > 0`, that is where they
  are counted at all. `EndInv` says what a job at each statement of
  `CheckPipelineCompletion` has already written (`Told`), and that as long as the last
  job is not over some job still goes on (`WorkGoesOn`).

  The proof changed the model: the two properties used to hold under weaker premises,
  which hid two histories the run did not explore and TLC then found. After a crash the
  verdict "failed" of one execution may be written when another has completed the task, and a
  user's retry may put a failed task back before its check has read it, so that there
  is nothing to tell. Both are premises now; `codegen_live` has no crash, fault or user, so
  it checks what it did before.

### The pipelines

- `CodegenRunsTheEngine`: `CodegenSpec => Spec`, so every theorem about the engine is
  one about the codegen pipeline; `CodegenKeepsContract`, `CodegenInOrder`,
  `CodegenStepsOnce`, `CodegenTellsItsEnd`, `CodegenEndIsAnnounced` and
  `CodegenNeverRegresses` draw the conclusions.
- `CodegenTypeCorrect`: inductive with `GensCarried` (an execution past the choice of its
  generation names one).
- `CompletionHasGeneration`: `SavedFirst`, an execution of `create_pr` beyond its update has
  seen it succeed, or it is in `unsaved`. `PullRequestsRecorded`: `ForgottenPaid`, a branch
  whose pull request no row names has an execution that opened it and may still say so, or
  that execution was lost to a crash, a failed update or an expired context, each of
  which is counted once.
  `PullRequestsAnnounced`: without those, `OpenedOrRecorded` and its continuation through
  `notify` (`Announced`).
- `WorkNotRepeated`: an argument about money. `Generators` and `Openers` are the jobs that may
  still produce a generation or a pull request; what has been produced and what may
  be, together, cost at most `1 + crashes` (`PaidFor`), since only a crash makes two of one.
- `SynthesisRunsTheEngine`, `SynthesisKeepsContract`, `SynthesisTypeCorrect`: the same for
  synthesis, whose embed jobs are inserted in the middle of another worker's step.
  `SynthesisInOrder` is `ChainsAreKept` of the chain without them.
- `CompletionHasCandidates` and `CandidatesOnce`: a job of a step after clustering
  exists only when a batch was written (`ClusteredFirst`), and without a crash one job
  writes (`ClusteredOnce`).
- `SynthesisIsReported`: the two branches end in any order. `EndReported` says that
  when all tasks are completed somebody who saw it, or will look, is still to write it
  or has; this needs what the rows of both branches say of their jobs (`ChainTold`,
  `EmbedTold`) and that the chain does not stop before its end (`ChainGoesOn`).

### Signals

- `SyncTypesHold`: `SyncSpec => []SyncTypeOK`, on which the next four rest. The
  assumptions say that no content is the null value and that time starts.
- `OneOriginalAlways`, `PointersAlwaysHold`: one original per content and no
  dangling duplicate, whatever inserts, marks and deletes. The embed jobs and
  requests carry identifiers for a long time; `SignalsSound` says what they may
  still rely on.
- `NoSignalIsForgotten`: `UnembeddedHasJob` is inductive with `QueueSound` (a job
  that has not started holds no signals, and one for named signals only those)
  and `Orderly` (which signals a request may still announce).
- `CursorPassesNothing`: the cursor of an integration is safe because of what every
  overlapping sync `Knows`: before it asks, that everything changed before its
  cursor is `Safe` (stored once, or changed or kept out under a named trouble);
  after it asked, that every item is `Safe` or still in its hand.

### Agents and sandboxes

- `AgentTypeCorrect`, `StoredWorkIsValidated`, `EveryLeakIsCounted`: one invariant, `AgentInv`.
  Every job `Holds` a sandbox that was made and, past provisioning, its session; while River
  has rescued nothing one job at most is waiting or at work (`OneActive`), so nobody runs
  the agent between validation and collection; and a sandbox without owner was
  left by a step that counted it (`LeaksBounded`, on cardinalities), the ignored failure of
  a clean-up included.
- `RetriesAreExact`: `LoopInv`. The count in a job or the row never runs ahead of the
  executions of the agent (`LoopRan`, whatever happens), and while nothing is
  rescued the executions never run ahead of the one active job (`LoopSpent`, which
  adds the counts that could not be written). The property used to allow a full
  loop more for every rescued job. The proof failed there, because the sum over the
  loops is not kept when one of them lowers the row, and TLC found the run told
  under *Agent* above, on an instance with three retries. No bound per rescue is
  claimed any more.
- `SlotsAlwaysMatchHolders`: inductive as it stands.
- `NeverSendsAfterClose`: inductive with `ReadersDoneFirst` (once the closer has
  gone on, all readers are done).
- `SandboxesAreAccounted` and `RunnerIsAccounted`: `RunnerInv`, with `BoxesApart` (no two
  goroutines have one sandbox) and `FewUnowned` (what has no goroutine was lost in a
  fault, or after the shared context ended by a manager that needs it), and `SlotsKept` (no
  more goroutines hold a slot than the semaphore has).

### The server

- `ProjectsStayWithinPlan`: `RoomLeft` counts admitted requests as projects, and
  each request admitted on another organisation's plan raises the bound by one; the
  bound on projects alone is not inductive, since a request is admitted on a count
  that others are about to raise.
- `SubscriptionKeepsUp`: `FollowInv`. As long as nothing is out of order, the row as
  it will be when the delivery under way is done, the events in the inbox and the
  truth at Stripe form a chain (`Follows`) in which every event `Leads` from the row
  before it to its own.
- `WorkspacesAreAccounted`: `AccountsInv`; the two cases of a taken slug and of a user that
  another login made meanwhile need `JoinsOwn` and `LoginsTyped`.
- `LimitIsKept`: `Covered`, an ideal bucket holds at least what the stored one does,
  and a request that holds a dropped bucket is paid for in `spare`. The hypothesis is
  that one tier uses the key: with two the statement is false, which is what
  `generation_unlimited` shows.
- `SpecHistoryIsSound`: `SpecInv`, which adds to the history the place of each
  generator and editor (`NoGap`) and pays for every missing review or note with a
  recorded trouble (`Lost`, `NotesPaid`).

The proofs are one lemma per group of actions and invariant conjunct, then the
temporal step by `PTL`.

Every invariant and action property that a passing run checks is now also proved. Only
model-checked are the liveness properties `NoRunLost`, `AgentWorkIsJudged`,
`CleanerEndsExpired`, `StreamCloses` and `BreakerRecovers`: fairness, and `ENABLED`
under it, are out of the prover's reach. The four violations are, of course, shown by
TLC alone.

## Not modelled

- Ambiguous commits: a statement or an insertion of a job either takes effect or fails.
  A write that succeeds while its reply is lost would look to the code like a failure;
  only the creation of a sandbox has that outcome here.
- CRUD endpoints and read models: single statements on single rows.
- The views of the web client. Its one piece of concurrent state, the refresh
  promise that the requests of `typed-client.ts` share, lives in one event loop
  and is set before the first suspension.
- `RefreshToken`, `Me`, `Logout`: tokens are signed, not stored, so they change no state.
- Email sending and the weekly digest, a loop over members that logs what fails;
  a repeated job sends its emails twice.
- The usage limits on signals and pull requests (see above: their counters stay 0).
- The parsers of uploads and providers, prompts, the indexer, k-means and scoring: pure
  functions, one outcome each in the models.
- `BestResult`, the multi-agent orchestrator (it wraps `Run`) and the adaptive prompt: pure
  functions over results. Grandchildren of a command that keep its pipes open.
- River's queue limits, priorities and schedules, which only delay jobs, and the inside of
  GitHub, Stripe, the providers and PostgreSQL, which are modelled only by what
  the code relies on.

## Plan

Every component with control of its own is modelled, and every safety property of a
passing run is proved. Left is to prove what the models promise beyond those:

- abstract specifications of the small machines (an ideal rate limiter, a
  semaphore for the limiter and the parallel runner, a table with a unique index
  for the signals) and that the machines implement them;
- that the other machines of `MCGuards` keep their books there too, as
  `RunnerIsAccounted` says of the runner;
- what is true of the retry loop after a rescue: a bound from River's attempts.
