# nanobot-stack in TLA+

Models of the nanobot bridge (`src/src/bridge`), checked with TLC on small
instances and proved about with TLAPS.  Every definition is translated from the
Python source; the documents of the repository are used only for what a property
states.  `PROJECT.json` names the lines each definition stands for.

## 1. The system

The bridge is one FastAPI process (`app.py`).  Endpoints declared with `def` run
on a thread pool, endpoints declared with `async def`, background coroutines and
the scheduler's jobs run on the one event loop.  State is kept in SQLite files
(one per subsystem, most of them behind one module-level `threading.Lock`), in
the Qdrant vector store, in files, and in objects of the process.  systemd
restarts the process when it dies (`Restart=on-failure`).

What makes it hard is nearly always one of three shapes:

* a **check and an act under two holds of a lock** (trust engine, elevated
  shell, config writer), so that another request comes between;
* **two stores written one after the other** (scheduler table and APScheduler,
  action row and audit row, file and status row), so that a crash or an
  exception leaves them apart;
* **state that outlives what it describes** (a `running` status, an open
  breaker, an expiry that only a sweep looks at).

### Inventory

| component | state | operations | hard behaviour | correct means |
|---|---|---|---|---|
| Trust engine `trust_engine.py` | `trust_policies`, `trust_audit` | gate, record outcome, promote automatically, set level, promote, cancel | lock released between level, audit row, counter and promotion; SQLite raising in the recorder | every run audited once; streak backed by the audit; only the admin unblocks |
| Elevated shell `elevated_shell.py` | `pending_actions` | propose, automatic bypass, approve, reject, execute, sweep | check and write apart, command runs outside the lock, crash between run and write | no run without consent; an approval is acted on; bypass audited |
| Circuit breakers `circuit_breaker.py`, fallback chains in `app.py` | breaker per profile, in memory | availability, success, failure; a call walks its route | answers of overlapping calls in any order; chain reordered by quality | state agrees with the count; whole route tried; open cools down |
| Scheduler `scheduler*.py` | `scheduled_jobs`, `job_runs`, APScheduler's store | create, update, toggle, delete, run now, fire, run, start, seed | row and entry in two stores; runs against deletions and restarts | one run per job; `running` is alive; entries follow rows; runs settle |
| DM pairing, channel gate `dm_pairing.py`, `channels/` | pairing codes, approved users, Telegram's offset | request code, approve, reject, revoke, sweep, gate, poll | expiry only swept; decisions against messages in flight; updates lost or repeated by failures and restarts | only approved users are served; a decision stands; one live code; updates are handled |
| Config writer `config_writer.py`, settings `settings_registry.py` | `config_changes`, `.env` and two more files, backups named by the second | propose a text or a setting, apply, reject, roll back, expire | status and file in separate steps, outside the lock; a file cut off while it is written; roll back of an older change | only what was applied is live; what is marked is written; roll back restores |
| Planner `planner.py`, orchestrator `agents/` | a plan's steps, results, threads | order by dependency, execute in parallel or in order | cycles, dependencies on steps that are not there | a step runs after those it depends on, as far as there is an order; plans end |
| Delegation `agents/orchestrator.py`, `custom_agents.py` | subtasks, custom agents | delegate, toggle, delete | ids that the model leaves out or repeats; switches while it runs | each subtask once, told the results of its own dependencies |
| Token budget `token_budget.py` | usage by day | check, record (by nothing) | - | - |
| Token statistics `token_optimizer.py` | counters, a file of lines | record, reset, flush at the end | one lock that is taken twice | the hook that stops the bridge runs |
| Caches `embedding_cache.py`, `semantic_cache.py` | entries with age, in the order of use | get, put, evict | lookups, computations and stores of several threads; eviction; expiry | vectors are those of the texts, none older than the TTL, the latest used stay |
| Adaptive router `adaptive_router.py`, feedback `feedback.py`, `feedback_learner.py` | quality scores, thumbs, boosts, weights and their cache | thumb, vote, learn, reset, read a weight | votes and resets between the read of a weight and its caching; a migration that changes the table | weights are earned; the cache follows; rows and boosts agree |
| Rate limiter `rate_limiter.py` | token buckets | consume, evict, status | two locks, eviction of a bucket in use | no more than the bucket; no new one too soon |
| Notifications `broadcast_notifier.py`, `push_*.py` | last broadcast, key pairs, subscriptions | broadcast, subscribe, test | rate limit, dead subscriptions, two managers with keys of their own | subscribers stay, pushes are accepted, reports say what the notifier knows |
| Backup `backup_manager.py` | archives, `backup_log` | backup, retention, delete, restore | failure at any step, archives named by the second, crash | what is listed as a success is on disk; no plain archive with a key |
| Ingestion and search `app.py`, `memory_api.py` | Qdrant points, `ingested_files`, ingest flag | ingest, drop orphans, search | overlapping ingestions, exceptions in the middle | tracked files are found, files that are gone are not |
| File watcher, local documents, Obsidian | timers, `docs_ingestion_log`, chunks | debounce, ingest, delete | edits between hash, text and timer; two threads at one file | what is found is the file |
| Cutting of texts `app.py`, `local_doc_ingestor.py`, `semantic_chunker.py` | - | cut by paragraphs, sentences, meaning | overlaps, separators, long sentences, small pieces | no text is lost, no chunk is too long or only repeats |
| Search `app.py`, `reranker.py` | the cross-encoder and its flags | load, score, unload when idle | threads that load and unload meanwhile | one model; the best rows, by one scorer |
| Web search `agents/web_search_agent.py`, `web_search_api.py` | log of searches, results | search, digest | the limit is read before an await and written after | the limit holds; each is told its own; digests are whole |
| RSS `rss_ingestor.py` | `rss_feeds`, `rss_entries`, points | add, sync, delete | a feed deleted or synced twice while its sync awaits | entries embedded once, found if marked, of a feed that is there |
| Briefings `scheduler_executor.py` | window from the last run | collect, ask, deliver | the next window after a failure or the end of the process | windows leave no gap |
| GitHub `dev_integrations.py` | points, `github_sync_log` | sync | syncs that overlap or end early | the latest is stored; rows are true |
| E-mail and calendar `email_calendar.py` | IMAP's \Seen, points, `email_sync_log` | sync, digest | readers that take mails from each other; failures after a mail was marked read | every mail taken is stored or told, to one reader |
| Memories `memory_decay.py` | score and last access of points, `memory_decay_log` | scan, confirm, forget | scans against searches; partial scans and deletions | what is gone is logged; only what has faded goes; a confirmation counts |
| Working memory `working_memory.py`, summaries `context_compression.py`, smart chat `extensions.py`, `streaming.py` and its page | sessions with the chunks they have seen, summaries | chat, expire, evict | two chats of a session; a summary that is never made anew; events cut into reads | a chunk is shown once; phases end; the page shows the answer; every message reaches the model, or is in the summary |
| Encryption `encryption*.py` | keys, encrypted values, migration job | enable, rotate, read, write | the bridge writes while values are converted; crash, lock, restart with the new key | what is completed is complete; nothing is lost but by a race |
| WhatsApp `channels/whatsapp_adapter.py` | the number of the phone, the keepalive loop | webhook, send in parts, refresh | own replies come back; retries of parts | no answer to answers; a part once |
| Other adapters and agents, tools, plugins, voice, vision, browser, the other retrieval helpers, administration, MCP server | little or none | calls to services | - | - |
| Migrations `migrations/`, `update.sh`, `deploy.sh` | version file, tables | run pending, write the version, roll back | a migration that fails or is killed halfway; a bridge that makes tables meanwhile | what the version says is there |

Interactions: the elevated shell reads levels from the trust engine and records
the outcomes of its bypass there; tools call the gate; chat, embeddings and the
scheduler's briefing call providers through routes, of which the first two are
guarded by breakers and ordered by the adaptive router; the scheduler delivers
through the notifier, which uses the channel adapters; a channel message passes
the pairing gate and becomes a chat request.  Components call each other
directly; what they share is their databases and the process.

## 2. Modules

| module | stands for | composed with |
|---|---|---|
| `TrustEngine` | `trust_engine.py` | |
| `ActionLifecycle` | what the shell promises of one action, abstractly | |
| `ElevatedShell` | `elevated_shell.py` | EXTENDS `TrustEngine`; INSTANCEs `ActionLifecycle` as its contract |
| `CircuitBreaker` | `circuit_breaker.py` and the loops of `app.py` that use it | |
| `Scheduler` | `scheduler.py`, `scheduler_api.py`, `scheduler_executor.py`, `scheduler_registry.py` | |
| `ConfigWriter` | `config_writer.py` and the proposal of settings in `settings_registry.py` | |
| `ChannelGate` | `dm_pairing.py`, the gate of `channels/__init__.py`, `telegram_adapter.py` | |
| `Plans` | `planner.py`, `agents/orchestrator.py` | |
| `KeyRotation` | `encryption_api.py`, `encryption_migrations.py`, their use in `app.py` | |
| `LocalDocs` | `local_doc_ingestor.py`, `local_docs_api.py` | |
| `Ingest` | `_run_ingest_sync` and its callers in `app.py`, `file_watcher.py` | |
| `Feeds` | `rss_ingestor.py`, `rss_api.py` | |
| `Backups` | `backup_manager.py`, `backup_api.py` | |
| `Memories` | `memory_decay.py`, its callers in `memory_api.py` and `app.py` | |
| `Mailbox` | `email_calendar.py`, the digest of `scheduler_executor.py` | |
| `SmartChat` | the pipeline of `extensions.py`, `working_memory.py`, the summaries of `context_compression.py` | |
| `RateLimiter` | `rate_limiter.py` | |
| `EmbeddingCache` | `embedding_cache.py`, `embed_texts` of `app.py` | |
| `Notifications` | `broadcast_notifier.py`, `push_notifications.py`, `push_api.py`, the page that subscribes | |
| `Chunking` | the three ways of cutting a text: `app.py`, `local_doc_ingestor.py`, `semantic_chunker.py` | |
| `Delegation` | the delegation of `agents/orchestrator.py`, `custom_agents.py` | |
| `WebSearch` | `agents/web_search_agent.py`, `web_search_api.py`, the digest's searches | |
| `Briefing` | the windows and runs of `scheduler_executor.py` | |
| `GithubSync` | the syncs of `dev_integrations.py` | |
| `Vault` | `obsidian_ingestor.py` | |
| `WhatsApp` | `channels/whatsapp_adapter.py` | |
| `Migrations` | `migrations/`, `run_migrations.py`, `update.sh`, `deploy.sh` | |
| `Feedback` | `feedback.py`, `feedback_learner.py`, the weights of `adaptive_router.py` | |
| `Retrieval` | the search of `app.py`, `reranker.py`, the boosts of `feedback.py`, the ages of `memory_decay.py` | |
| `Streaming` | `streaming.py` and the page's chat in `admin_ui.py` | |
| `MCServices` | the twenty-four services from `ChannelGate` on, one at a time | EXTENDS them |
| `TokenStats` | the tracker of `token_optimizer.py`, the shutdown hook of `app.py` | |
| `MC*` | instances for TLC | |
| `StoreProofs` | the invariants of the services that keep data | EXTENDS nine of them |
| `ChannelProofs` | the invariants of the services that face people, of searches and their cache, and of agents and chats | EXTENDS twelve of them |
| `ServicesProofs` | the invariants of `Backups` and `Migrations`, and the theorems of the services together | EXTENDS `MCServices` and both |
| the other `*Proofs` | theorems of one component | EXTENDS it |

**TrustEngine.**  One step per `with _lock:` block.  `policy` and `audit` are the
two tables (the audit as the number of rows of each type and outcome), `tpc` and
`frame` where a thread is in a call and what it has read.  `check_and_execute` is
`CheckLevel` followed by `Refuse` or `RunAction`; `record_outcome` is
`OutcomeAudit`, `OutcomeCount` (which decides on a promotion with the row it
read) and `AutoPromote` (which writes it later).  `OutcomeRaises` is SQLite
raising in the recorder: a gated success is then recorded as a failure by the
handler of `check_and_execute`.  `SetTrustLevel`, `PromoteRead`/`PromoteWrite`
and `CancelPending` are the admin's.

**ElevatedShell.**  One step per lock block or command.  `status` is the table,
`job` and `spc` the call each thread is in.  `ProposeBlocked/Auto/Queued` and
`InsertPending` are `propose_action`; `AutoRun`, the engine's own steps, and
`AutoInsert` are `_auto_execute`; `ApproveCheck`/`ApproveWrite` and the
execution that the endpoint chains to them; `RejectCheck`/`RejectWrite`;
`ExecuteCall`, `ExecuteCheck`, `RunApproved`, `ExecuteWrite`; `ExpireStale` is
the sweep that the list request does.  `Crash` loses the calls and keeps the
tables.  Histories (`approved`, `autoRuns`, `runs`, `past`, `raised`) are read
by properties only.

**CircuitBreaker.**  A breaker has `state`, `failures` and `cooldown`, the time
left until it may be half open; reading the state is what moves it from open to
half open, so `Available` and `ReadStatus` change it.  A call copies its route
(`Chains`: for chat any reordering the quality ranking can give), then skips,
calls, and records per profile.

**Scheduler.**  `row` is `scheduled_jobs`, `runRow` is `job_runs`, `entry`
APScheduler's store.  A request thread commits, reads again and talks to
APScheduler in separate steps.  A run (`tpc`, `task`) is a coroutine: `LoopFree`
lets it move only when no other is between two awaits, while request threads
interleave anywhere.  `Start`, `StartFails` and `SeedJob` are the startup,
`Crash` its end.  A cron is one that `CronTrigger` takes (`Triggerable`), one
that only `_parse_cron` takes (`*/1440`, day of week 7: refused in `add_job`, and
the refusal is only logged) or one that only croniter takes.  `Store` is a call
of APScheduler: it changes the entry or raises, which the code swallows;
`RequestRaises` is SQLite raising between the row and the entry.  `missed` keeps
the jobs whose last change an error has kept from the job store.  `last_status` is kept as running or settled (never run, ok,
error and timeout are treated alike by every branch of the code).

**ConfigWriter.**  `.env` is a partial function from keys to values, or `Garbled`
(a text in which the validator finds errors), or absent.  `row` is
`config_changes`, `backups` the files of `BACKUP_DIR` by the second in their name.
A request of apply or rollback is a thread (`pc`, `job`, `name`), and each of its
steps that another request can see is an action: the checks, the backup, the
opening of the file (which cuts it off), its content, the row.  Two writers may
have opened the file at once; then it is any overlay of the two (`Overlaid`).
`Abandon` ends a request between two steps, as an exception or the end of the
process does.  Histories: `landed`, the changes whose content has been written,
`clashed`, whether an overlay has been left, and `prior`, the file that a change
replaced, forgotten when something else was under way meanwhile or its backup
has been overwritten.

**ChannelGate.**  A pairing has its code (a number, given in order), user and
expiry; `allowed` are the approved users.  The adapter's loop is `Poll`, which
moves the offset before anything is handled, `NextUpdate`, `PassGate`, then
`ServeChat` or `GiveCode`, and `Reply`; `GateRaises` loses the rest of a batch,
`Restart` loses the offset and has the unconfirmed updates delivered again.  The
admin's requests and the sweep come at any point of it.

**Plans.**  `MakePlan` takes any dependency graph of a few steps, cycles and
steps that do not exist included.  `RunReady` and `RunStuck` are one round of
`execute_plan_parallel`, whose steps are threads (`StartStep`, `StepReturns`) and
whose collector is `CollectStep`; `TopoSort` is the orchestrator's depth-first
sort as a fold over the subtasks, compared with a closure of the graph.

**KeyRotation.**  A value, of a row or of a field of a point, is its text and the
key it is under.  A migration makes a pass for each table (`ReadRows`, then
`UpdateRows` without a look at what the rows have become) and one for each
encrypted field of the points: `ReadPage` reads whole payloads, and
`UpdatePoint` writes the whole payload back, the other fields as they were read.
What is swallowed is an action that passes over values and lets the job go on
(`ReadRowsFails`, `UpdateRowsFails`, `ReadPageFails`, `UpdatePointFails`), what
is not ends it with an error (`TableRaises`, `DecryptRaises`).  The process
writes rows, upserts points and sets their other fields (the decay) with the
keys it was started with.  The job is in memory and lost by a crash; the key of
the environment is set by hand and taken up by `RestartProcess`.  Of the three
collections, which share nothing, one stands for all.

**LocalDocs.**  One file, its edits, the debounced timer of the watcher, and
threads that ingest: hash, lookup, old chunks, text, chunks, row.  Chunks carry
the id of their document and their number, so that those left over are seen.

**Ingest.**  Files with digests in a folder; a run walks them, writes points and
then the row, and at the end drops the rows and points of what it did not see.
The watcher and a request run with a flag that the wrong one may clear,
`/ingest-sync` without.

**Feeds.**  Coroutines of the event loop: what comes between two awaits is one
step (`Loop`), which is what keeps an entry from being embedded twice.

**Backups.**  The directory is a sequence of archives by the time of their last
change, named by the second a run began in; runs, deletions, failures at every
step, and crashes.

**Memories.**  A score is kept as the days it has faded by, so that the
exponential is an addition.  Each call of Qdrant and of the log is a step of its
thread.

**Mailbox.**  The folder with its unseen and flagged mails, a calendar of events
with versions; a sync or a digest takes the unseen ones, which a FETCH marks.

**SmartChat.**  A conversation is the number of its messages; a chat keeps the
recent ones and has the others summarised, or takes the summary there is.
Sessions are objects, because a chat goes on with its own after the store has
dropped it.

**RateLimiter, EmbeddingCache.**  Objects and the order of a dictionary; one step
per lock.  **Notifications.**  Browsers with the key pair they subscribed under,
the two managers with theirs, broadcasts that go out one message at a time, each
of which arrives, raises, or is lost by an adapter that does not say so.

**Chunking.**  An algorithm, not a process: a text is the lengths of its
sentences by paragraph, a chunk the places of its characters; `CutText` cuts every
short text in each of the ways, and the properties are what any way of cutting
owes the text.

**Delegation.**  The model's subtasks (ids, dependencies, agents) are arbitrary;
`Toggle` reads and writes the switch under two holds of the lock; the plan is the
orchestrator's order, and what a subtask is told is kept with what it did.

**WebSearch, Briefing, GithubSync.**  Coroutines of the loop: a step goes from one
await to the next.  Searches share the count of what was stored; a briefing's
window is computed as the code does it, in ticks, and one article is followed,
which any digest may leave out for its limits or for an error of the search; an item of GitHub has the number
of its edits.

**Vault.**  A note's text goes the way of a local document, of which the row and
its hash are all that the links depend on.

**WhatsApp.**  The phone, its messages and the adapter's own replies among them;
webhooks, parts of an answer and their attempts, and the number that is learned
when WAHA is up.

**Migrations.**  Each migration is the sequence of tables, indexes and columns its
statements make, and what its check asks for; `StartRunner`, `TakeUp`,
`MakeObject`, `FinishMigration` and `WriteVersion` are the runner, `EndUpdate` and
`Rollback` the scripts.

**Feedback.**  Thumbs, votes and the learner's steps of each request, and the
look-up that caches a weight; `Upgrade` is migration 018.

**Retrieval.**  One step per statement that looks at or changes the encoder, its
flag or its lock; a reply is one that the operators `Score`, `Final` and `Ranked`
allow, which leave the order of equal rows open.

**Streaming.**  A generator goes from event to event, its lines wait in `wire`,
and a read of the page takes any first part of them; of the steps on the page it
is kept whether one is active.

**TokenStats.**  The lock with its holder, the flag `_dirty`, the counters and the
last line of the file; the hook is the main thread's flush and what follows it.

Threads, codes, ids and endpoints that are alike are numbers and the first that
is free is taken: each behaviour with another choice is one of these with the
names exchanged, so this is the reduction of symmetry without the loss of
liveness checking.

## 3. Runs

| run | instance | shows |
|---|---|---|
| `trust` | 2 threads, one action type, threshold 1, two rows of an outcome, SQLite may raise, fair | `TrustTypeOK`, `EveryRunAudited`, `PromotesOnlyEnabled`, `StreakIsAudited`, `SeededLevelIsAdmins`, `CallsReturn` |
| `shell_serial` | one admin, one agent, two commands, no crash, fair | the shell implements `ActionLifecycle` (`LifecycleImplemented`); `AutoRunsAudited` |
| `shell` | two admins, one command, crash, SQLite may raise, fair | `ShellTypeOK`, `NoRunWithoutConsent`, `ApprovedIsHandled` |
| `shell_race` | two admins | violation of `RunsOnlyApproved` |
| `breaker` | two calls, a paid profile, a backup without a key, a local one; threshold 2, recovery 2, fair | `BreakerTypeOK`, `BreakerCounts`, `UnconfiguredStaysClosed`, `EveryProfileTried`, `CoolsDown` |
| `breaker_shared` | two profiles with one model | violation of `EveryProfileTried` |
| `scheduler` | a system job and a user's job, one request at a time, crashes, SQLite may raise in a run; by `scope` either two runs, or one run, expressions that CronTrigger or only `_parse_cron` refuses, and a job store and SQLite that may raise in a request and at the start; fair | `SchedulerTypeOK`, `OneRunAtATime`, `RunningIsAlive`, `ScheduleFollowsRows`, `RunsSettle` |
| `scheduler_start` | as `scheduler` | violation of `Restarts` |
| `config` | two requests at once, two changes, one key of two values, two seconds, failures anywhere | `ConfigTypeOK`, `OnlyApprovedGoesLive`, `MarkedWasWritten`, `RollbackRestores` |
| `config_settings` | one request at a time, two keys | violation of `SettingChangesItsKey` |
| `tokens` | two requests and the hook, fair | violation of `ShutdownHookRuns` |
| `services` | each of the twenty-four services by itself, with the instance named below; fair for those that are to settle | `ChannelsSafe`, `AgentsSafe`, `KeysSafe`, `DocumentsSafe`, `SourcesSafe`, `DigestsSafe`, `BackupsSafe`, `MemoriesSafe`, `ChatsSafe`, `LimitSafe`, `NotificationsSafe`, `SearchesSafe`, `AlgorithmsSafe`, `StepsKeep`, `ServicesSettle` |

`services` chooses in its first state the service that runs (`focus`) and leaves
the others as they began.  They share no state in the code, so this loses no
interaction, and the state spaces add up instead of multiplying.  Each module ends
with a property that is the conjunction of its named safety properties (and the
type invariant, where it has one), or with two, if some of them follow from a
recursive sort or a fold over data and are only model-checked (section 4); the
run's properties put together those of the services that make up one part of the
system:

| in | of | properties |
|---|---|---|
| `ChannelsSafe` | `GateSafe` | `ServedWasAdmitted`: who is served was approved at some time after sending; `OneLiveCode`: of the codes that are not overdue a user has one; `ForgottenIsHandled`: an update that Telegram forgets has been answered or was cut off by an exception, and only a crash has one answered twice |
| `ChannelsSafe` | `PhoneSafe` | `NoAnswerToAnswers`: the adapter answers its own answers only in a chat with oneself or while it does not know the number; `DeliveredOnce` |
| `AgentsSafe` | `ParallelSafe` | `ParallelRespectsOrder`, `ParallelAreIndependent`: order by dependency, as far as the graph has one |
| `AgentsSafe` | | `SwitchFollowsToggles`: an agent is on or off by its toggles |
| `KeysSafe` | `KeySafe` | `OnlyRacesLoseText`: no text is lost but what was written after the page was read, in a converted row or any field of a converted point; `ReadableAfterRotation`: after a completed rotation and a restart all is readable that was not written meanwhile, passed over by an error, or left by a rotation that did not complete |
| `DocumentsSafe` | `DocsSafe` | `FoundIsTheFile`: all of one text, that of the file unless it is too large or gone, nothing if it is broken; `NoOrphanChunk` |
| `DocumentsSafe` | `IngestSafe` | `TrackedIsFound` |
| `DocumentsSafe` | `VaultSafe` | `LinksAreFound`, `NoOtherLinks` |
| `SourcesSafe` | `FeedsSafe` | `EmbeddedIsFound`, `UnmarkedIsInHand`, `EmbeddedOnce`, `RowsHaveFeeds` |
| `SourcesSafe` | `GithubSafe` | `LatestIsStored`, `SyncRowsAreTrue` |
| `DigestsSafe` | `MailSafe` | `TakenIsAccounted`, `OneReaderTakes`, `CalendarGoesOn` |
| `DigestsSafe` | `BriefingSafe` | `WindowsLeaveNoGap`: until a mail is synced, an article published before the last run was given to the model or is excused (in a run that failed, left out by a limit, an error, a late sync, or a first or daily window); `RetoldWithinTheHour` |
| `BackupsSafe` | `BackupSafe` | `SuccessIsOnDisk`, `PlainIsUnfinished`, `RowsAreTrue` |
| `BackupsSafe` | `MigrationSafe` | `VersionsAreTrue`, `MadeInOrder`, `PartsAreExplained`, `RunsComplete` |
| `MemoriesSafe` | `MemorySafe` | `DeletedIsLogged`, `OnlyFadedIsDeleted`, `ConfirmCounts` |
| `MemoriesSafe` | `FeedbackSafe` | `ThumbsAreCounted`, `WeightsAreEarned`, `CacheFollowsWeights`: but for a weight that changed while it was read, and the neutral one that a failed read leaves; `OnlyOldThumbsTeach` |
| `ChatsSafe` | `ChatSafe` | `StoreKeepsLatest`, `ShownOnce`, `MessagesReach` |
| `ChatsSafe` | `StreamSafe` | `EveryPhaseEnds`; `StreamsShareOut`: no chunk to two streams of a session, one summary |
| `LimitSafe` | `LimitSafe` | `BucketGivesNoMore`, `BeginsAnewLate`, `OneBucketEach` |
| `SearchesSafe` | `CacheSafe` | `VectorsMatchTexts`, `VectorsGrowOld`, `CacheKeepsLatest` |
| `NotificationsSafe` | `NotifySafe` | `SubscribersStay`, `KeptKeysPush`, `ReportsAreTrue`: success on the platform means that the adapter took the message for all who were approved when it began, and raised for none; that it arrived nobody knows |
| `SearchesSafe` | `WebSearchSafe` | `LimitHolds`, `RefusedForSearches`, `OwnCountTold`, `DigestTellsAll`, `LatestStays` |
| `SearchesSafe` | `RetrievalSafe` | `OneEncoder`, `LegacyIsExcused`, `ReplyIsBest` |
| `AlgorithmsSafe` | `PlanSorted` | `TopoRespectsOrder`: the same of the orchestrator's sort |
| `AlgorithmsSafe` | `DelegationSorted` | `EachSubtaskOnce`, `ToldTheRightResult`, `ToldAllThereIs` |
| `AlgorithmsSafe` | `ChunkSafe` | `TextKept`, `EachAdds`, `ChunksFit`, `SmallStandsAlone` |
| `AlgorithmsSafe` | | `PageShowsAnswer`: the page shows the answer, but for one that a read cuts in two |
| `StepsKeep` | | `DecisionStands` (gate), `CompletedIsComplete` (keys), `GoneIsGone` (ingest): what no step may do |
| `ServicesSettle` | | updates are handled, plans end, migrations end, documents, files and feeds are followed |

Some say "unless": two threads at one new document, two chats of one session
that retrieve at once, a scan that had read a memory before it was confirmed,
two backups of one second, two syncs that overlap, a migration that was cut off,
a weight that changed while it was read, a search whose encoder went. There the
code has no remedy, the exception is exactly that race, and the property shows
that nothing else leads there.

Bounds.  The interactions are between two calls, so two threads show them; a
third adds a repetition.  `MaxRows` bounds the audit (a call starts only when
its rows fit, so no call is cut off by the bound); two rows are enough to reach
the threshold, promote, and fail afterwards.  `ActionIds`, `Jobs` and `Runs` are
identities the code generates and never reuses; two of them meet in every way
two can.  Time is not counted: an action's expiry passes at any moment
(`TimePasses`), a breaker's recovery is a small number of ticks, an APScheduler
trigger is due at any moment its entry exists.  In the scheduler's run a state
has either two runs or errors of the entries (`scope`, a variable of the instance
that no step changes): runs look only at rows, and entries only submit runs.
`MaxMisses` lets an error keep one job from APScheduler at a time.  Requests
do not overlap, for with two threads the property about entries is about the
order of their calls; overlapping requests are covered by the theorems on runs.
In `config`, two changes are what it takes for one to be applied over the other
and rolled back out of order, and two seconds for their backups to have different
names or the same; the second that a change expires in is any (`ExpireStale`
takes any of the open ones).  The reading of `.env` and the insertion of the
proposal are one step, because nobody knows the proposal before; the copy to the
backup is one step, and so is each write to an open file (texts of a few
kilobytes): what a failure cuts off is empty, not a first part.

In `services` every instance has the two threads, files, mails, sessions or runs
that can meet (three steps in a plan, for a cycle with a step outside, one of
which may depend on itself or on what is no step; three
runs of the backup, so that retention drops one of two namesakes), and each
bound is one beyond what the case needs: two inputs after the first for a
document, so that an edit falls between hash and text and another follows; one
failure, deletion or crash at a time, as a second one meets a state that the first has
made and that is already among those reached; caches and stores of one or two
entries, so that eviction is reached; texts of at most three sentences in up to
three paragraphs, of lengths below, at and above what a chunk holds; three hits,
of which two are kept, ranked differently by the encoder, by feedback and by
age; a table, and a point of an encrypted field and an open one, so that a pass
writes back with the value it converts one that the process has changed; two streams of one session, of which the page reads one, and one chunk to
find; clocks of two or three ticks, so that a TTL or an expiry passes and what
was done before it can be seen after it. What is bounded by a counter of inputs
(`MaxInputs`, `MaxChanges`, `MaxNews`, `MaxMishaps`, `MaxBreaks`, `MaxTroubles`,
`MaxHitches`, `MaxReads`, `MaxCalls`, `MaxChats`, `MaxRequests`, `MaxWrites`,
`MaxJobs`, `MaxMade`, `MaxSearches`, `MaxEdits`, `MaxSyncs`, `MaxNoteEdits`,
`MaxIngestions`, `MaxTexts`, `MaxFlaps`, `MaxInstalls`, `MaxSetbacks`,
`MaxThumbs`, `MaxVotes`, `MaxRequested`, `MaxLoads`, `MaxOutages`,
`MaxOperations`) stops inputs from coming, never a call that is under way.

Deadlock checking is off where a run has bounded identities and the system
comes to rest when they are used up.

Fairness.  `FairTrustSpec`, `FairShellSpec`: a request that has entered a call
goes on, because nothing in it waits for more than the lock, and commands are
killed after `ELEVATED_TIMEOUT`.  `FairBreakerSpec`: provider calls have
timeouts, and time passes.  `FairSchedulerSpec`: the event loop serves every
task (sections and model are under `asyncio.wait_for`, deliveries under the
timeouts of their HTTP clients), and systemd starts the process again.  `services` is fair to the
loop of the adapter (its requests have timeouts), to the threads of a plan (the
model's calls time out), to a migration, to the observer, timers and threads of
local documents, to the watcher and ingestions, and to the syncs of feeds, each
as one step of the service that runs: weak fairness of their disjunction is
enough, as every one of these services does a bounded amount of work for an
input; the others promise nothing in the end.  `FairTrackerSpec`: a thread goes on
unless it waits for the lock.  No run
assumes that a request, a message or a schedule arrives.

### What the violations say

* `shell_race` - `execute_approved` runs the command after it has released the
  lock (`elevated_shell.py:342`): it runs although it has been rejected since.
* `breaker_shared` - the chain is rebuilt from a dictionary keyed by the model
  (`app.py:549`): of two profiles with the same model, as shipped, one is tried
  twice and the other never.
* `scheduler_start` - a cron expression that croniter accepts and `_parse_cron`
  does not is committed before it is refused (`scheduler.py:140`); from then on
  every start raises in `_reschedule_all`.
* `config_settings` - the change of one setting is the text of the whole file at
  the time of the proposal (`settings_registry.py:314`): applied after another
  change, it silently reverts that one.
* `tokens` - `flush` takes the lock of the counters and then asks `stats`, which
  takes it again (`token_optimizer.py:250`; a `threading.Lock`): with anything
  counted since the last write, the shutdown hook never comes back, nothing is
  persisted, the watchers are not stopped, and systemd kills the process; so does
  a reset (`app.py:1279`) with the thread that serves it, and every count after it
  waits too.

Seen while modelling, without a run of their own because they are plain from
the code: a `notify_then_execute` call is written as `pending_notify` and nothing
executes it (`trust_engine.py:158`), and for the shell that level queues like
approval (`elevated_shell.py:196`); the automatic promotion writes the level
above the one read, not above the one stored (`trust_engine.py:271`), so that a
`blocked` set between the two is overwritten, although the design calls it
irreversible (`OnlyAdminUnblocks` of `TrustEngine` states it, and no run checks it: it fails); approval
does not look at the expiry, and the sweep may come between its check and its
write (`elevated_shell.py:298`, `:304`); an approved command leaves no row in the
trust audit (`:381`); a half-open breaker admits every caller and a late success
closes an open one (`circuit_breaker.py:51`, `:57`); two overlapping toggles can
leave the entry of the loser (`scheduler.py:163`); a deletion that meets the
start of a run leaves a row of `job_runs` without a job; a seed cut short by a
crash is not completed later, because a system job exists
(`scheduler_registry.py:88`); an applied change can be rejected, stays live, and
cannot be rolled back any more (`config_writer.py:293`); of two changes applied
within one second the first is rolled back to its own content, as they share a
backup (`:259`); a request that is applied twice at once, or two requests, write
over each other (`:266`), and a rollback of a change applied when there was no
file is refused (`:311`).

In the services, likewise:

* *Documents and ingestion.*  A deleted local document keeps its hash, so
  ingested again it is 'skipped' and never found (`local_doc_ingestor.py:431`);
  one that grows beyond 50 MB keeps its old chunks, beside a row that says error
  (`:421`), and one that is removed keeps its row and its chunks, as the observer
  is told of creations and changes only: `FoundIsTheFile` allows both;
  the points of a file's old digest stay until the file is deleted
  (`app.py:877`); the watcher clears the flag of a request's ingestion
  (`app.py:990`) and `_ingest_lock` is used by nobody; one exception of the
  embedding ends the whole ingestion (`app.py:872`); a change within the
  watcher's debounce is lost if its interval is shorter than the debounce
  (`file_watcher.py:96`).  A chunk by paragraphs may exceed `MAX_CHUNK_CHARS` by
  the overlap and its space; `LOCAL_DOCS_CHUNK_OVERLAP=0` makes `chunk_text[-0:]`
  the whole chunk (`local_doc_ingestor.py:273`), and an overlap as large as a
  chunk never ends (`app.py:331`).  An Obsidian vault outside
  `LOCAL_DOCS_WATCH_PATH` is always refused; inside it, a note that the watcher
  ingests first has its wikilinks never indexed, and stale ones are never removed.
* *Feeds.*  Any exception of `get_collection` makes the collection anew
  (`rss_ingestor.py:338`); entries are never tried again; an entry of two feeds
  is new to the second at every sync (`:274`); the points of a deleted feed stay.
* *GitHub.*  Requests and issues that are closed stay stored as open, a sync that
  finds nothing leaves no row, and `sync_github` returns "ok" after an error.
* *Web search.*  The limit is read before an await and the row written after it;
  an error other than those expected leaves no row and loses a whole digest.
* *Briefings.*  A failed one still moves `last_run`, so its window is never told;
  `rss_digest` uses the window of the mail sync, and takes at most three times
  the articles of a digest in no order before it sorts and cuts each category
  (`rss_ingestor.py:513-530`), so the newest may be among those left out; notes
  and reminders look for a key `content` where memories have `text`, in a
  collection that nothing in the code writes; "Briefing indisponible" is
  delivered as a success.
* *Keys.*  A rotation writes over what the bridge wrote after the row was read
  (`encryption_migrations.py:244`), and, as the payload of a point is written
  back whole, over what it wrote into any of its fields (`:284`), which
  `README.md:234` calls "zero-downtime key rotation".  A table or a page that
  cannot be read is passed over and the job is `completed` (`:44`, `:117`,
  `:247`, `:265`): after the restart with the new key those values cannot be read
  and nothing says so; of a rotation that was cut off nobody keeps the key.
* *Backups.*  Databases are copied without their write-ahead log (`:187`); with a
  retention of 0 a backup deletes itself; a crash leaves 'running' for ever; the
  verification looks for a column that the list has not and always answers 404
  (`backup_api.py:100`).
* *Memories.*  A scan takes off the whole age again, as it writes back the
  `last_accessed` it read, so daily scans halve a score in about 28 days and not
  in 70 (`memory_decay.py:147`); a scroll that fails leaves a partial scan whose
  guard counts only what was read (`:129`); nothing collects the weekly section
  `memory_decay_scan`.
* *Feedback.*  When migration 018 extends a table of thumbs that exists, every
  later thumb raises (five values for nine columns, `feedback.py:47`), though
  `feedback_learner.py:3` says "Feedback is always recorded"; when the table is
  made later, the columns never come.  A repeated thumb leaves no row but boosts
  again; each vote penalises the same rows again; scores do not decay
  (`adaptive_router.py:87`), negative ones grow by decay, and the scheduler's own
  router writes the file over what the other learned meanwhile.
* *Mail.*  FETCH without PEEK marks also unimportant mail as read
  (`email_calendar.py:202`); a digest leaves nothing for a sync and the other way
  round; no sender is ever known, as the rows of dm_pairing have no addresses; the
  `expires_at` of mails and events is never applied; recurring events share a UID,
  so the last occurrence stays.
* *Chat.*  The summary of a session is made once (`extensions.py:475`); an empty
  summary drops the old messages; chats without a session id share `_default`.
* *Streams.*  `generate` has a start and no end of its own; a message of a user
  without a content raises before the first event; the model's calls block the
  loop; a client that leaves after the retrieval leaves chunks marked as seen that
  were never shown.  The page forgets the name of an event at every read
  (`admin_ui.py:2283`), so an answer cut between its name and its data is lost,
  and has no branch for "error".
* *WhatsApp.*  With WAHA down at the start there is no keepalive and the number is
  never learned, so every own message is a command; a part that fails three times
  is skipped and the send reported as ok; the webhook blocks the loop.
* *Agents.*  Subtasks without an id share the number 0 and of two with one id one
  is lost; a plan is "completed" even if all of it failed; the browser agent calls
  the model with arguments it does not take (`browser_agent.py:422`), so its plan
  is always empty; `extract_and_store` of the knowledge graph always raises.
* *Reranking.*  Asking for the status loads the model and counts as use; the
  results are cut before feedback and age are applied.
* *Updates.*  `deploy.sh` writes version 8 and runs no migration, `update.sh`
  writes 8 again after each update, so every migration runs again; 010 has no
  check; a rollback restores the version and not the databases; what a migration
  killed halfway has left out is never made.
* *Notifications.*  `app.py:1438` gives the notifier no push manager, so without
  `PUSH_VAPID_*` in the environment it signs with another key pair than the one
  browsers subscribed with, and `/channels/test` makes one more; keys that are
  generated anew at a restart leave subscriptions that fail with 403 and are
  never cleaned; of two jobs of one minute the second may be dropped.  A message
  that no attempt of the adapter could send is reported as delivered: those of
  Telegram and WhatsApp swallow the failure (`channels/telegram_adapter.py:60-75`,
  `channels/whatsapp_adapter.py:123-137`, `182-184`), and the "ok" false of Discord's
  (`channels/discord_adapter.py:98-102`) is not looked at (`broadcast_notifier.py:98`).
* *Rate limits and cache.*  An evicted user has a full bucket again
  (`rate_limiter.py:90`); vectors of a fallback model are served for the TTL
  beside those of the first (`embedding_cache.py:37`).
* *Unused.*  Nothing calls the knowledge graph's `merge_entity`, the detection
  and execution of procedures, `record_usage`, the semantic cache, `reload_plugin`,
  `run_hooks`, or the clean-up of working memory; the browser agent runs without
  the trust engine (`app.py:1706`).

## 4. Proofs

For every value of the constants that meets the assumptions of the modules
(which say no more than that the sentinels differ from the data, that thresholds
are naturals, that what is counted is finite and that subsets are subsets):

| theorem | states |
|---|---|
| `TrustEngineProofs!TrustTypeCorrect` | type correctness |
| `TrustEngineProofs!PromotionsAreEnabled` | `PromotesOnlyEnabled` |
| `TrustEngineProofs!SeededLevels` | `SeededLevelIsAdmins`, an action property |
| `TrustEngineProofs!RunsAreAudited` | `EveryRunAudited` |
| `TrustEngineProofs!StreaksAreAudited` | `StreakIsAudited` |
| `ElevatedShellProofs!ShellTypeCorrect` | type correctness |
| `ElevatedShellProofs!ConsentBeforeRun` | `NoRunWithoutConsent` |
| `ElevatedShellProofs!AutoRunsRecorded` | `AutoRunsAudited` |
| `CircuitBreakerProofs!BreakerTypeCorrect` | type correctness |
| `CircuitBreakerProofs!StateMatchesCount` | `BreakerCounts` |
| `CircuitBreakerProofs!UnconfiguredNeverTrips` | `UnconfiguredStaysClosed` |
| `CircuitBreakerProofs!NoFallbackLost` | `EveryProfileTried`, if profiles have models of their own (`OwnModel`) |
| `SchedulerProofs!SchedulerTypeCorrect` | type correctness |
| `SchedulerProofs!OneRun` | `OneRunAtATime` |
| `SchedulerProofs!RunningAlive` | `RunningIsAlive` |
| `ConfigWriterProofs!ConfigTypeCorrect` | type correctness |
| `ConfigWriterProofs!WrittenBeforeMarked` | `MarkedWasWritten` |
| `ConfigWriterProofs!ApprovedOnly` | `OnlyApprovedGoesLive` |
| `ConfigWriterProofs!RollbacksRestore` | `RollbackRestores`, an action property |
| `ElevatedShellProofs!SerialContract` | the safety part of `LifecycleImplemented`: every step of the shell is one of `ActionLifecycle` or none of it, with one admin and no crash (`OneAdminOnly`) |
| `SchedulerProofs!EntriesFollowRows` | `ScheduleFollowsRows`, with one request at a time (`OneRequest`) |
| `ChannelProofs!LimitsHold` | `LimitSafe` |
| `ServicesProofs!ChannelsAreSafe` | `ChannelsSafe` |
| `ServicesProofs!KeysAreSafe` | `KeysSafe` |
| `ServicesProofs!AgentsAreSafe` | `AgentsSafe` |
| `ServicesProofs!DocumentsAreSafe` | `DocumentsSafe` |
| `ServicesProofs!SourcesAreSafe` | `SourcesSafe` |
| `ServicesProofs!DigestsAreSafe` | `DigestsSafe` |
| `ServicesProofs!BackupsAreSafe` | `BackupsSafe` |
| `ServicesProofs!MemoriesAreSafe` | `MemoriesSafe` |
| `ServicesProofs!ChatsAreSafe` | `ChatsSafe` |
| `ServicesProofs!NotificationsAreSafe` | `NotificationsSafe` |
| `ServicesProofs!SearchesAreSafe` | `SearchesSafe` |
| `ServicesProofs!StepsAreKept` | `StepsKeep`, action properties of the gate, the keys and the ingestion |

The three hypotheses in parentheses are what the properties are true under, and
the runs are made under: with two admins an action that one has rejected may run
(`RunsOnlyApproved`, run `shell_race`), a toggle between the two steps of a
deletion adds back the entry of a job that goes (`scheduler.py:175`), and of
profiles that share a model one is not tried (run `breaker_shared`).

Along which argument:

* *Trust engine.*  `EveryRunAudited` counts the threads whose row is still to be
  written; the proof carries the cardinality of that set over each step, with
  the fact that a thread enters and leaves it alone.  Promotions need that the
  frame holds what the policy row held when it was read, and that a row's
  `after` is never changed by the recorder.  `StreakIsAudited` is strengthened
  twice: to types that have no row yet, and to the threads that are about to
  count, whose rows are already there and whose increment is not.
* *Elevated shell.*  `ConsentInv`: an approved status, or a thread on its way to
  run, implies that an approve call took the action; a thread on its way through
  the bypass implies that the level has been `auto`.  The conclusion alone is
  not inductive: it says nothing of actions that have not run.  `AutoRunsAudited`
  (`AuditInv`) is the engine's invariant, kept by each step of the composition
  because the shell's own actions leave the audit trail alone, with the fact
  that nobody stands at the engine's gate but the bypass.
* *Circuit breakers.*  `NoFallbackLost` needs that a reordered chain holds every
  profile of its route, which is where the models must differ (the existence of
  a best ranked profile is by well-foundedness), and that what has been
  attempted is the part of the chain before the call's position.
* *Scheduler.*  `RunInv`: at most one coroutine is between two awaits; a run past
  its check is of a job that had a row, so that its id is never given again;
  and the row, if it is still there, says running while a run is at its work.
  From these a second run of the job finds `running`, or no row, or does not get
  the loop.  They also hold over deletions, because a deleted row stays deleted,
  and over restarts, because a process that is down has no runs.
* *Config writer.*  `ApprovedOnly` carries the same disjunction for every backup
  as for the file, since a rollback makes a backup live.  `RollbacksRestore`
  needs `PriorInv`: a change whose `prior` is remembered has it in the backup
  that its row names, or, while it is applied, in the backup that its request
  holds, or in the file itself when it has not been opened yet; two requests at
  work have both forgotten theirs.
* *Rate limiter.*  The registry holds the buckets that were made last, in the
  order in which they were made, so that the one that goes is of a user after
  whom `MaxBuckets` others came; and what a bucket has spent, with the tokens in
  it and those that time will add at the next call, is no more than its capacity
  and what has been filled.
* *Elevated shell, serially.*  The refinement mapping is the identity on the
  statuses and the runs.  A step of a thread that acts on an earlier check needs
  `SerialInv`: what the admin has checked stays as it was, since nobody else
  decides, and a command of the bypass has no row until it is inserted.
* *Scheduler and its entries.*  `FollowInv`: of a job that no request is at,
  APScheduler has what the row says; of one that a request is at, the request
  has the row's cron and switch, and the entry is out before it is added or the
  row erased, but for the jobs of `missed`.  Without `OneRequest` the second half
  fails.
* *Services together.*  Each step of `ServicesNext` is one of the service in
  focus and leaves the variables of the others alone (`StoreSteps`,
  `ChannelSteps`), so the invariants of the services hold together, each by the
  lemmas `..Init_Inv`, `..Next_Inv` and `..Inv_Safe` of its own.
* *Gate and WhatsApp.*  `GateInv`: below the offset all is answered, cut off or
  in hand, and what is in hand has been answered in earlier lives only; who is
  approved has had all of his updates admitted.  `PhoneInv`: a message is with
  one webhook, and what a webhook has yet to send was delivered in doubt if at
  all.
* *Keys.*  `ItemHolds` says of each value, not of the job, where it is: on the
  page as it was read, no longer under the source when the passes are through
  with it (`Through`), and under a key that the rotation reaches or leaves unless
  it is stranded.  A page has whole payloads, so what goes back of an untouched
  field is what is there.
* *Feeds and GitHub.*  What a coroutine has in hand between saving, embedding
  and marking is with it alone (`SyncHolds`, `EmbedsOnce`); what a GitHub sync
  has in hand was the newest when it was fetched, as long as syncs do not
  overlap (`NewestIsStored`), and is stored or in hand whether they do or not.
* *Ingestion.*  While ingestions do not overlap, a row has its points, and
  points have a row or a run that is about to write it or to purge them.
  `GoneIsGone` is then what the end of a run's walk leaves.
* *Mail and briefing.*  A mail that two readers did not both want is with one
  of them (`TakenOnce`), and the events in hand are no older than what is known.
  The windows leave no gap because a window in whole hours reaches back past the
  last run (`WindowIsRoundedUp`), and an article is in the run under way, told, or
  excused.
* *Memories and feedback.*  What a scan will delete is faded and logged before
  the first goes, and few for what it has read (`HandsHold`); it may have been
  raised since, which the model records as `late`.  What a voter has counted
  are no more votes than there ever were, so what it writes is earned although
  the rows may have changed.
* *Notifications.*  With the keys in the environment there is one pair, and
  every browser that lives subscribed with it; of a broadcast, who was sent to and
  who is yet to be are those who were listed, as long as nothing was raised.
* *Web searches.*  `LimitInTime`: the searches that count now and those under
  way together are no more than the limit and the most that ever overlapped but
  one.  Each way a search ends is a lemma on these two cardinalities: a row
  moves it from the one set to the other, a failure drops it, a check adds one
  only below the limit, and time takes rows away.
* *Cache.*  `Ordered`: the vectors are those of the texts used last, in their
  order, each once; taking an element out of both sequences (`PopIs`) and
  appending to both keep it.  `AnsweredFor` gives the place of each text among
  those computed, by the number of misses up to it.
* *Retrieval.*  `LockInv`: the thread at work with the encoder has the lock, and
  the flag is true of the encoder but between the two assignments, where the
  lock is held.  That a reply is the best needs that what is cut off is behind
  what is kept in the scorer's order.

* *Local documents.*  `DocsInv`: as long as no failure, lost event or second
  thread has come in between, one thread is at work, and `Knows` says at each of
  its places what it has of the row, of the chunks and of the file; when none is,
  `AtRest` is what `FoundIsTheFile` says without waiting for the timer.
* *Vault.*  A row has its links, or a thread that brings them (`Brings`), unless
  another thread has written between the two.
* *Backups.*  The weight is in where an archive lies: fewer files follow it than
  were written since (`Lies`), and retention takes it only when as many as are
  kept were.  While a run encrypts, the directory has a plain file more than it
  will have, so that `newer` is one too high and the count must be strict unless
  the plain file itself is behind the archive.  It holds because at most one run
  is past its archive (`OneInTheLoop`).
* *Migrations.*  `RunIsTrue`: all that is neither pending nor in hand has its
  tables, and what a migration has yet to make is in `work`.  The recorded
  version, the saved one and each that the run has passed stand for all below
  (`TabledUpTo`).  That no migration asks for what another makes is computed from
  the thirteen tables of the module (`NamesApart`).
* *Plans.*  There are two phases.  In the first (`ReadyPhase`) what is complete is
  closed under dependencies, and no step in it needs itself; from a deadlock on
  (`StuckPhase`) the steps go one by one, and every step that has an order is
  complete, because the steps without one together with those that need them
  would otherwise hold a first one that is ready.
* *Custom agents.*  Of a name whose toggles met nothing there is one toggle at
  most, which will write the opposite of what the row says.
* *Smart chat.*  `RanksAs`: the objects of the store are of the sessions asked for
  last, in their order, and taking a session out of both and appending it keeps
  this.  A chunk that a chat holds and that the session was shown, or that two
  chats hold, is one that two chats looked for unseen (`ChunksAre`).
* *Streams.*  Of what was told, every phase but the one that is open has its end
  (`EndedBut`), and what is told after the answer or the error is that all is
  done; what a stream has found is among what the session has seen, so that the
  next finds something else.

A proof that failed has changed the model six times.  In `EmbeddingCache` the
cases of a look-up overlapped, and in `Retrieval` equal rows had one order, which
the stable sort of the code gives them by an order of arrival that the model does
not have.  In `Backups` the plain file could be gone under the encryption, because
a request deletes it by the name that a namesake has in the log, and the code
raises there (`PlainIsGone`); a run could begin between two statements of another
that keeps the loop; and a deletion excused other rows than those whose archive
it took.  In `SmartChat` a session was taken out of the store and of the history
by a filter, which is more than the dictionary does.  All are now as the code has
them; in `Streaming` and `Migrations` the phases and the versions to come are sets
instead of sequences, which changed no behaviour.

Model-checked only:

* the liveness properties (`CallsReturn`, `ApprovedIsHandled`, `CoolsDown`,
  `RunsSettle`, `ServicesSettle`, and the fairness of `LifecycleImplemented`),
  which are out of the prover's reach;
* `AlgorithmsSafe`, which is what functions that recur or fold over data compute:
  what a plan is sorted to recurs over its graph, and that dependencies come first
  would be an induction over that recursion, which the prover cannot make (so are
  the type of the sorted plan and what a subtask is told, which rest on it); the
  chunks of a text are folds over its sentences; a read of the page is a fold over
  its lines, while the events it is sent are those of `EveryPhaseEnds`, which is
  proved.

## 5. Assumptions and what is left out

* SQLite statements are atomic and durable once committed.  In the trust engine
  and the scheduler they may raise (but not while the registry seeds its jobs); in the other calls an exception
  simply ends the request, as if it had stopped there.
* APScheduler is external: `Fire` submits an entry at any time, at most one
  scheduled run of a job at once.  Its calls do what they are asked or raise and
  change nothing; the code swallows the exception (`scheduler.py:176`, `227`,
  `235`), so `ScheduleFollowsRows` excepts the job until its next change or the
  next start (`missed`), and an enabled job whose trigger is refused has no entry.
* A PUT that changes cron and switch at once is not modelled apart from the two
  alone; both lead to the same reschedule.
* The trust engine with `TRUST_ENGINE_ENABLED` off runs actions directly and
  touches no state.
* What a command, a provider, a section or a channel does is an outcome.

### Not modelled

* *The admin page and reports* (`admin_ui.py` is HTML and JavaScript in one
  string of 3,150 lines; of it the chat and the subscription to pushes are in
  `Streaming` and `Notifications`), `dashboard.py`, `export.py`, `audit.py`,
  `system_metrics.py`.
* *Text*: classification, rewriting, prompts, citations, redaction, formatting of
  briefings and digests, extraction from PDF or DOCX.  What they return is an
  outcome where a module needs it.
* *Calls to programs and services without state between them*: voice, vision, the
  browser, the ops agent, ntfy, the MCP proxy, Discord's side of a message (which
  it hands to the gate of `ChannelGate`).
* *The other sections of a briefing*: notes and reminders read a collection that
  nothing writes, and the rest are reports or the syncs of other modules.
* *Switching a feed off*: a disabled feed is only left out of the syncs of all
  feeds; `Feeds` syncs any feed at any time, and the choice is its scheduler's.
* *Code that nothing calls*: see "Unused" above.  A model of it would be of no
  behaviour of the program.
* *Restore and verification of a backup*: they read an archive; what a restore
  does to a running bridge is the store's.
* *The token budget*: its use is recorded by nothing.

The map covers the code that keeps state and decides, three tenths of all lines;
most of the others are text, pages, wrappers of services, and configuration.

### Hazards

`PROJECT.json` lists the forty hazards the properties were chosen for first.
The code has more; these are the others, with the properties that are about them
or why none is (locations are under `src/src/bridge/`).

* `trust_engine.py:158` (liveness) - A notify_then_execute call is written as
  pending_notify and left for a background scheduler that does not exist.  The
  state is in the model (no action ever leaves pending_notify but
  cancel_pending); that nothing executes it is plain from the code and recorded
  in the README.
* `trust_engine.py:317` (atomicity) - promote reads the level under one hold of
  the lock and writes the next one under another; two promotions at once count
  as one.  The interleaving is in the model; which of the two counts is not
  stated anywhere, so no property is.
* `elevated_shell.py:304` (atomicity) - approve_action checks the status and
  writes it under two holds of the lock.  `LifecycleImplemented`.
* `elevated_shell.py:374` (crash_recovery) - A crash between the command and the
  write of 'executed' leaves the action approved, and it runs again when asked.
  `NoRunWithoutConsent`, `LifecycleImplemented`.
* `elevated_shell.py:298` (timeout_retry) - The expiry of an action is only
  looked at by the sweep of a list request, so a late approval succeeds.  Both
  steps are in the model; the code promises no limit on the approval but the
  settings text, so it is recorded in the README.
* `elevated_shell.py:190` (interleaving) - The level is read, then the command
  is run: an admin may have changed the level, and another agent may run the
  same kind of action.  `NoRunWithoutConsent`, `AutoRunsAudited`.
* `elevated_shell.py:228` (partial_failure) - The bypass runs the command,
  writes its audit row and then the action row; it may stop between any two.
  `NoRunWithoutConsent`, `AutoRunsAudited`.
* `elevated_shell.py:381` (protocol_sequence) - The approved path never reports
  to the trust engine, the bypass does.  It holds or fails by the shape of the
  code (no call), so it is recorded in the README and no property is about it.
* `circuit_breaker.py:51` (interleaving) - Between the first call let through
  half-open and its answer every other caller is let through as well.  In the
  model, which lets every caller through; the module docstring says one.
  EveryProfileTried and CoolsDown hold under it; recorded in the README.
* `app.py:562` (partial_failure) - A profile without a key is skipped inside the
  loop that counts failures; skipping must not count.
  `UnconfiguredStaysClosed`, `EveryProfileTried`.
* `app.py:872` (partial_failure) - An exception of the embedding ends the whole
  ingestion: the files behind it and the collection of orphans wait for the next
  one.  `ServicesSettle`, `StepsKeep`.
* `app.py:877` (stale_state) - The id of a point contains the digest: a file
  that changes keeps the points of its old text, until it is deleted.  Plain
  from the code; the search returns both texts. Recorded in the README.
* `app.py:689` (ordering) - Cached and new vectors are merged by position, with
  repeated texts and misses in any pattern.  `SearchesSafe`.
* `scheduler.py:175` (interleaving) - The entry is removed before the row is
  deleted; a toggle in between adds the entry back, of a job that no longer
  exists.  In the model with two request threads; the entry that is left is
  skipped by every run (BeginRun finds no row), and nothing in the repository
  says it may not be there.
* `scheduler.py:182` (interleaving) - A deletion removes the job's runs between
  a run's steps: the row is inserted after the deletion, or finalised when it is
  gone.  `RunningIsAlive`, `RunsSettle`, `SchedulerTypeOK`.
* `scheduler_executor.py:491` (crash_recovery) - 'running' is written before the
  run row; a crash or a cancellation in between leaves the job running until the
  next start.  `RunningIsAlive`, `RunsSettle`.
* `scheduler_executor.py:495` (partial_failure) - The INSERT of the run row
  fails when the job is marked running already.  `RunningIsAlive`.
* `config_writer.py:259` (stale_state) - A backup is named by the second: a
  second application within it overwrites the backup that an earlier change
  names.  `RollbackRestores`.
* `config_writer.py:257` (partial_failure) - There may be no file yet, or one
  that a crash has cut off; a backup must be of what was there.  `ConfigTypeOK`,
  `RollbackRestores`.
* `config_writer.py:293` (protocol_sequence) - reject looks at no status: an
  applied change that is rejected stays live and can no longer be rolled back.
  Plain from the code; Reject is modelled as it is, and the README says so.
* `dm_pairing.py:141` (stale_state) - approve does not look at the expiry of the
  code, only the sweep does; whether it comes before or after the sweep, a
  decision must stand.  `StepsKeep`.
* `dm_pairing.py:97` (numeric_edge) - A code is reused while its expiry is later
  than now, and swept when it is earlier: at the moment of its expiry the user
  gets a second code while the first can still be approved.  `ChannelsSafe`.
* `channels/telegram_adapter.py:85` (partial_failure) - The offset is advanced
  before the updates are processed: an exception out of the gate loses the rest
  of the batch, nothing else may.  `ChannelsSafe`, `ServicesSettle`.
* `channels/whatsapp_adapter.py:301` (unreliable_delivery) - A webhook is
  answered after the chat; a platform that retries meanwhile has its message
  answered twice, nothing remembers message ids.  Plain from the code; the
  webhook adapters keep no state that a property could relate.
* `channels/whatsapp_adapter.py:123` (timeout_retry) - A part of an answer that
  was sent and answered by an error is sent again: only such a part may arrive
  twice.  `ChannelsSafe`.
* `agents/orchestrator.py:331` (ordering) - A subtask is marked visited before
  its dependencies are; in a cycle one of them is executed without the other's
  result, and no subtask outside may be.  `AlgorithmsSafe`, `ServicesSettle`.
* `encryption_api.py:302` (stale_state) - The encryptors of the process stay
  those of the old key after a rotation; what is written until the restart, and
  what is read, is with the old key.  `KeysSafe`.
* `encryption_migrations.py:247` (partial_failure) - A locked database, a page
  that cannot be read or a failed set_payload leaves values as they were, and the
  job is completed all the same.  `StepsKeep`, `ServicesSettle`.
* `local_doc_ingestor.py:441` (stale_state) - The hash is taken before the text
  is read: an edit in between is logged under the hash of what was there before.
  `DocumentsSafe`.
* `local_doc_ingestor.py:438` (partial_failure) - The chunks are deleted before
  the text is extracted and embedded; a failure must leave a row that is tried
  again, and no chunks nobody deletes.  `DocumentsSafe`.
* `local_doc_ingestor.py:451` (interleaving) - Two threads ingest a new file at
  the same time: each gives it an id, the second row replaces the first, whose
  chunks nothing deletes any more.  DocsSafe excepts it: with two threads at one
  new file the chunks stay, and nothing in the code prevents it. Recorded in the
  README.
* `local_doc_ingestor.py:431` (protocol_sequence) - A deleted document keeps its
  hash: ingested again it is reported as skipped and is not found.  Recorded in
  the README; DocsSafe leaves out histories with a deletion.
* `file_watcher.py:96` (ordering) - Changes that a scan finds within the
  debounce are not told and not found again.  Only with an interval shorter than
  the debounce; the defaults are ten and five seconds.
* `rss_ingestor.py:402` (partial_failure) - An entry is saved before it is
  embedded and is never tried again: it must be embedded, in the hands of a
  sync, or one that failed.  `SourcesSafe`.
* `rss_ingestor.py:338` (stale_state) - Any exception of get_collection makes
  the collection anew: the rows of what was in it stay marked.  `SourcesSafe`.
* `rss_ingestor.py:126` (interleaving) - A feed is deleted while its sync
  awaits: the entries are saved for a feed that is gone.  `SourcesSafe`.
* `rss_ingestor.py:274` (other) - The id of an entry is unique over all feeds
  but looked up by feed: an entry of two feeds is new to the second one at every
  sync.  Plain from the code, and harmless: the entry is embedded again under
  the same id. Fetched in Feeds models it; recorded in the README.
* `backup_manager.py:434` (partial_failure) - A run fails after its archive is
  written, in part or in plain: the file stays, counts for the retention, and
  only its own row tells.  `BackupsSafe`.
* `backup_manager.py:232` (atomicity) - The encrypted file is written and the
  plain one removed in two steps; a plain archive may stay only of a run that
  did not end.  `BackupsSafe`.
* `backup_manager.py:375` (crash_recovery) - A crash leaves the row 'running'
  for ever, nothing ends it at the next start.  CrashBackups models it; nothing
  reads the status but the list of backups. Recorded in the README.
* `backup_manager.py:187` (interleaving) - The databases are copied file by file
  while the bridge writes them, without their write-ahead log.  What a copy of a
  database that is being written holds is SQLite's and the file system's;
  recorded in the README.
* `memory_decay.py:202` (partial_failure) - The rows are written, then the
  points are deleted one by one and each may fail, or the process ends: a point
  that is gone must have a row, whatever comes between.  `MemoriesSafe`.
* `memory_decay.py:129` (partial_failure) - scroll fails in the middle: the scan
  goes on with what it has read, and the guard against too many deletions counts
  only that.  `MemoriesSafe`.
* `memory_decay.py:147` (numeric_edge) - A scan takes the whole age off a score
  that was already lowered by it, as last_accessed is written back as it was.
  Faded models it. The half-life is that of
  docs/superpowers/specs/2026-03-24-sub-project-h-memory-decay.md only with one
  scan; recorded in the README.
* `email_calendar.py:514` (partial_failure) - A mail whose upsert fails, or that
  a crash catches in hand, is read and never searched for again; every other one
  that was taken must be in the store or told.  `DigestsSafe`.
* `email_calendar.py:149` (ordering) - Two syncs overlap: events that one read
  earlier are written over those the other read later. A sync that nothing
  overlaps must leave no older event.  `DigestsSafe`.
* `extensions.py:505` (interleaving) - Two chats of one session look for seen
  chunks before either tracks its own: only then may a chunk be shown twice.
  `ChatsSafe`.
* `extensions.py:475` (stale_state) - The summary of a session is made once and
  never again: what is older than the recent messages and newer than the summary
  reaches the model in no form, and nothing else may be lost.  `ChatsSafe`.
* `working_memory.py:124` (protocol_sequence) - Chats without a session id share
  one session, so what one has seen is held back from another.  ShownOnce is
  about sessions as the code has them; that '_default' is one for everybody is
  recorded in the README.
* `rate_limiter.py:90` (resource_bound) - With too many buckets the oldest goes,
  and its user begins with a full one; that may not be before as many others
  have come.  `LimitSafe`.
* `embedding_cache.py:37` (stale_state) - When the first model fails the vectors
  of another one are cached under the text alone; they must not outlive the TTL
  by being used.  `SearchesSafe`.
* `embedding_cache.py:50` (resource_bound) - The cache is full and an entry is
  read, expires or is stored again: what goes must be what was used longest ago.
  `SearchesSafe`.
* `push_notifications.py:178` (partial_failure) - A push fails for many reasons
  and only 410 may cost a browser its subscription; what is reported must say
  so.  `NotificationsSafe`.
* `broadcast_notifier.py:96` (interleaving) - Users are approved and revoked,
  and browsers leave, while the messages go out one by one; the report is about
  those of the beginning.  `NotificationsSafe`.
* `feedback.py:47` (protocol_sequence) - The learner's migration adds columns to
  the table of thumbs, whose INSERT names none: from then on every thumb raises.
  `MemoriesSafe`.

## 6. Plan

All of it is done.

1. `TrustEngine`, its safety, liveness and proofs.
2. `ActionLifecycle` and `ElevatedShell`, the refinement, consent proved.
3. `CircuitBreaker` with the fallback chain.
4. `Scheduler`.
5. `ConfigWriter`.
6. `ChannelGate`, `Plans`, `KeyRotation`.
7. `LocalDocs`, `Ingest`, `Feeds`.
8. `Backups`, `Memories`, `Mailbox`, `SmartChat`.
9. `RateLimiter`, `EmbeddingCache`, `Notifications`.
10. `Chunking`, `Delegation`, `WebSearch`, `Briefing`, `GithubSync`, `Vault`,
    `WhatsApp`.
11. `TokenStats`, `Migrations`, `Feedback`.
12. `Retrieval`, `Streaming`.
13. The serial refinement of `ActionLifecycle` by steps, and
    `ScheduleFollowsRows` with one request thread.
14. `StoreProofs`, `ChannelProofs` and `ServicesProofs`: an inductive invariant
    for fifteen of the services and the nine theorems about all of them.
15. The invariants of `LocalDocs` and `Vault`, `Backups`, `Migrations`, `Plans`,
    `Delegation`, `SmartChat` and `Streaming`, and the four theorems on them:
    every safety property that is no induction over data is proved.
