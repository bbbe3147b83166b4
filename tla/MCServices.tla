------------------------------ MODULE MCServices ------------------------------
(***************************************************************************)
(* The services of the bridge that share no state, model-checked in one    *)
(* run: the first state chooses one of them, which runs alone.  The others *)
(* stay as they were at the start, so what holds of each here holds of it  *)
(* by itself, and the states add up instead of multiplying.                *)
(***************************************************************************)
EXTENDS ChannelGate, Plans, KeyRotation, LocalDocs, Ingest, Feeds, Backups,
        Memories, Mailbox, SmartChat, RateLimiter, EmbeddingCache, Notifications,
        Chunking, Delegation, WebSearch, Briefing, GithubSync, Vault, WhatsApp,
        Migrations, Feedback, Retrieval, Streaming

VARIABLE focus

DocPieces == [c \in Contents |-> IF c = "a" THEN 2 ELSE 1]

\* Every text of at most three sentences in its paragraphs.
ShortTexts ==
  LET lengths == {1, 3, 6}
      paragraphs == {<<a>>: a \in lengths} \cup {<<a, b>>: a, b \in lengths}
  IN {t \in UNION {[1..n -> paragraphs]: n \in 1..3}: Len(FlattenSeq(t)) <= 3}

Findings == {{1, 2, 3}, {2, 3}}
Nearness == [h \in Hits |-> 4 - h]
CrossScores == [h \in Hits |-> <<1, 3, 2>>[h]]
Boosts == [h \in Hits |-> <<0, 0, 5>>[h]]
Ages == [h \in Hits |-> <<1, 1, 2>>[h]]

StreamRequests ==
  {{"sentiment", "classify", "compress", "retrieve", "generate"}}

NoteLinks == [e \in 1..2 |-> IF e = 1 THEN {"a"} ELSE {"b"}]

Services ==
  {"gate", "plans", "keys", "docs", "ingest", "feeds", "backups", "memories", "mail", "chat",
   "limits", "cache", "notify", "chunks", "delegation", "web", "briefing", "github", "vault",
   "phone", "updates", "feedback", "retrieval", "stream"}

Alone ==
  /\ UNCHANGED focus
  /\ focus # "gate" => UNCHANGED gateVars
  /\ focus # "plans" => UNCHANGED planVars
  /\ focus # "keys" => UNCHANGED keyVars
  /\ focus # "docs" => UNCHANGED docsVars
  /\ focus # "ingest" => UNCHANGED ingestVars
  /\ focus # "feeds" => UNCHANGED feedsVars
  /\ focus # "backups" => UNCHANGED backupVars
  /\ focus # "memories" => UNCHANGED memoryVars
  /\ focus # "mail" => UNCHANGED mailVars
  /\ focus # "chat" => UNCHANGED chatVars
  /\ focus # "limits" => UNCHANGED limitVars
  /\ focus # "cache" => UNCHANGED cacheVars
  /\ focus # "notify" => UNCHANGED notifyVars
  /\ focus # "chunks" => UNCHANGED chunkVars
  /\ focus # "delegation" => UNCHANGED delegationVars
  /\ focus # "web" => UNCHANGED webVars
  /\ focus # "briefing" => UNCHANGED briefingVars
  /\ focus # "github" => UNCHANGED githubVars
  /\ focus # "vault" => UNCHANGED vaultVars
  /\ focus # "phone" => UNCHANGED phoneVars
  /\ focus # "updates" => UNCHANGED migrationVars
  /\ focus # "feedback" => UNCHANGED feedbackVars
  /\ focus # "retrieval" => UNCHANGED retrievalVars
  /\ focus # "stream" => UNCHANGED streamVars

serviceVars ==
  <<focus, gateVars, planVars, keyVars, docsVars, ingestVars, feedsVars, backupVars,
    memoryVars, mailVars, chatVars, limitVars, cacheVars, notifyVars, chunkVars,
    delegationVars, webVars, briefingVars, githubVars, vaultVars, phoneVars,
    migrationVars, feedbackVars, retrievalVars, streamVars>>

\* Where nobody encrypts the store is empty, where nobody is notified nobody is
\* approved: one first state for every service but these.
ServicesInit ==
  /\ focus \in Services
  /\ GateInit /\ PlanInit /\ KeyInit /\ DocsInit /\ IngestInit /\ FeedsInit /\ BackupInit
  /\ MemoriesInit /\ MailboxInit /\ ChatInit /\ LimitInit /\ CacheInit /\ NotifyInit
  /\ ChunkInit /\ DelegationInit /\ WebInit /\ BriefingInit /\ GithubInit /\ VaultInit /\ PhoneInit
  /\ MigrationsInit /\ FeedbackInit /\ RetrievalInit /\ StreamInit
  /\ focus # "keys" => stored = [i \in Items |-> [text |-> 0, key |-> Plain]]
  /\ focus # "notify" => members = {} /\ persisted
  /\ focus # "briefing" => cadence = "often" /\ article.at = 1
  /\ focus # "phone" => waha = "up"
  /\ release = 8

\* One step of a plan may depend on itself or on what is no step of it.
Stray(s) == deps'[s] \cap (Absent \cup {s}) # {}
OneStray == \A s, t \in Steps: Stray(s) /\ Stray(t) => s = t

ServicesNext ==
  \/ focus = "gate" /\ GateNext /\ Alone
  \/ focus = "plans" /\ PlanNext /\ OneStray /\ Alone
  \/ focus = "keys" /\ KeyNext /\ Alone
  \/ focus = "docs" /\ DocsNext /\ Alone
  \/ focus = "ingest" /\ IngestNext /\ Alone
  \/ focus = "feeds" /\ FeedsNext /\ Alone
  \/ focus = "backups" /\ BackupNext /\ Alone
  \/ focus = "memories" /\ MemoriesNext /\ Alone
  \/ focus = "mail" /\ MailboxNext /\ Alone
  \/ focus = "chat" /\ ChatNext /\ Alone
  \/ focus = "limits" /\ LimitNext /\ Alone
  \/ focus = "cache" /\ CacheNext /\ Alone
  \/ focus = "notify" /\ NotifyNext /\ Alone
  \/ focus = "chunks" /\ ChunkNext /\ Alone
  \/ focus = "delegation" /\ DelegationNext /\ Alone
  \/ focus = "web" /\ WebNext /\ Alone
  \/ focus = "briefing" /\ BriefingNext /\ Alone
  \/ focus = "github" /\ GithubNext /\ Alone
  \/ focus = "vault" /\ VaultNext /\ Alone
  \/ focus = "phone" /\ PhoneNext /\ Alone
  \/ focus = "updates" /\ MigrationsNext /\ Alone
  \/ focus = "feedback" /\ FeedbackNext /\ Alone
  \/ focus = "retrieval" /\ RetrievalNext /\ Alone
  \/ focus = "stream" /\ StreamNext /\ Alone

\* Fair is, of the service that runs, the step that is fair in its module; the
\* services that are left out promise nothing in time.
ServicesSpec ==
  /\ ServicesInit /\ [][ServicesNext]_serviceVars
  /\ WF_gateVars(focus = "gate" /\ (GateLoop \/ GateRaises))
  /\ WF_planVars(focus = "plans" /\ PlanNext /\ OneStray)
  /\ WF_keyVars(focus = "keys" /\ MigrationStep)
  /\ WF_docsVars(focus = "docs" /\ DocsStep)
  /\ WF_ingestVars(focus = "ingest" /\ IngestProgress)
  /\ WF_feedsVars(focus = "feeds" /\ SyncStep)

\* Again and again, and so for good once the inputs stop, whose number is
\* bounded here: what a service has taken on has ended, updates, plans and
\* migrations, and what is stored has followed its source, the watched file,
\* the folder and the feeds.
ServicesSettle ==
  []<>(/\ focus = "gate" => AllHandled
       /\ focus = "plans" => PlanEnded
       /\ focus = "keys" => ~ Running
       /\ focus = "docs" => Settled
       /\ focus = "ingest" => AllTracked
       /\ focus = "feeds" => AllSaved)

\* What is safe about a service, where it runs; those that are parts of one
\* component in one property.
In(service, safe) == focus = service => safe

ChannelsSafe == In("gate", GateSafe) /\ In("phone", PhoneSafe)
AgentsSafe == In("plans", ParallelSafe) /\ In("delegation", SwitchFollowsToggles)
KeysSafe == In("keys", KeySafe)
DocumentsSafe == In("docs", DocsSafe) /\ In("ingest", IngestSafe) /\ In("vault", VaultSafe)
SourcesSafe == In("feeds", FeedsSafe) /\ In("github", GithubSafe)
DigestsSafe == In("mail", MailSafe) /\ In("briefing", BriefingSafe)
BackupsSafe == In("backups", BackupSafe) /\ In("updates", MigrationSafe)
MemoriesSafe == In("memories", MemorySafe) /\ In("feedback", FeedbackSafe)
ChatsSafe == In("chat", ChatSafe) /\ In("stream", StreamSafe)
NotificationsSafe == In("notify", NotifySafe)
SearchesSafe ==
  In("cache", CacheSafe) /\ In("web", WebSearchSafe) /\ In("retrieval", RetrievalSafe)

\* What the algorithms over sequences and graphs give: the sort of a plan and of
\* its subtasks (planner.py, orchestrator.py), the cutting of a text (app.py,
\* local_doc_ingestor.py, semantic_chunker.py) and the page's reading of events
\* (admin_ui.py).
AlgorithmsSafe ==
  /\ In("plans", PlanSorted) /\ In("delegation", DelegationSorted)
  /\ In("chunks", ChunkSafe) /\ In("stream", PageShowsAnswer)

\* What no step may do: change a decision, complete a migration with values
\* left, end an ingestion with files that are gone still tracked or found.
StepsKeep == DecisionStands /\ CompletedIsComplete /\ GoneIsGone
=============================================================================
