----------------------------- MODULE Migrations -----------------------------
(***************************************************************************)
(* The databases of an installation over its updates: deploy.sh and        *)
(* update.sh, the runner of migrations (migrations/run_migrations.py) with *)
(* its version file, and the migrations themselves.  SQLite commits each   *)
(* statement that makes a table, an index or a column by itself, so a      *)
(* migration that fails or is killed leaves a part of its work, and the    *)
(* next run asks its check, which looks at the tables alone.               *)
(***************************************************************************)
EXTENDS Naturals, Sequences, SequencesExt

CONSTANTS
  MaxInstalls, \* updates and rollbacks
  MaxSetbacks  \* statements that fail, runners that are killed, updates cut short

VARIABLES
  objects,      \* the tables, indexes and columns there are
  release,      \* .version
  savedRelease, \* .version in the newest backup
  stage,        \* what update.sh is at
  pending,      \* the versions the runner has yet to look at
  atVersion,    \* the version it is at
  work,         \* what is left of the migration under way
  ranVersions,  \* the versions of this run that are ok or already applied
  installs, setbacks,
  cutOff,       \* history: the versions that were left half done once
  blind         \* history: the columns whose statement failed, which nobody noticed

runVars == <<pending, atVersion, work, ranVersions>>
migrationVars ==
  <<objects, release, savedRelease, stage, runVars, installs, setbacks, cutOff, blind>>

\* A migration: the tables its check asks for, none when it has no check, and its statements.
Migration(asked, statements) == [asked |-> asked, statements |-> statements]

FeedbackColumns == {"query_type", "model_used", "was_helpful", "correction_text"}

Initial8 == Migration({}, <<>>)
Evolution10 == Migration({},
  <<"trust_policies", "trust_audit", "action_sequences", "action_log", "idx_log_session",
    "idx_log_timestamp", "token_budgets", "token_usage_log", "idx_usage_time", "idx_usage_model">>)
Scheduler11 == Migration({"scheduled_jobs", "job_runs"}, <<"scheduled_jobs", "job_runs">>)
Mail12 == Migration({"email_sync_log"}, <<"email_sync_log">>)
Rss13 == Migration({"rss_feeds", "rss_entries"}, <<"rss_feeds", "rss_entries">>)
WebSearch14 == Migration({"web_search_log"},
  <<"web_search_log", "idx_web_created", "idx_web_status">>)
Backup15 == Migration({"backup_log"}, <<"backup_log", "idx_backup_started">>)
LocalDocs16 == Migration({"docs_ingestion_log"},
  <<"docs_ingestion_log", "idx_docs_status", "idx_docs_file_type", "idx_docs_last_indexed">>)
Voice17 == Migration({"voice_sessions"}, <<"voice_sessions", "idx_voice_started">>)
Feedback18 == Migration({"memory_decay_log", "routing_adjustments"},
  <<"query_type", "model_used", "was_helpful", "correction_text",
    "memory_decay_log", "idx_decay_collection", "idx_decay_created", "routing_adjustments">>)
Push19 == Migration({"push_subscriptions"},
  <<"push_subscriptions", "idx_push_endpoint", "idx_push_created">>)
GithubObsidian20 == Migration({"github_sync_log", "obsidian_index"},
  <<"github_sync_log", "idx_github_synced", "idx_github_status",
    "obsidian_index", "idx_obsidian_source", "idx_obsidian_target">>)
Browser21 == Migration({"browser_action_log"},
  <<"browser_action_log", "idx_browser_session", "idx_browser_started", "idx_browser_status">>)

Versions == {8, 10, 11, 12, 13, 14, 15, 16, 17, 18, 19, 20, 21}

Migrations ==
  [v \in Versions |->
     CASE v = 8 -> Initial8 [] v = 10 -> Evolution10 [] v = 11 -> Scheduler11 [] v = 12 -> Mail12
       [] v = 13 -> Rss13 [] v = 14 -> WebSearch14 [] v = 15 -> Backup15 [] v = 16 -> LocalDocs16
       [] v = 17 -> Voice17 [] v = 18 -> Feedback18 [] v = 19 -> Push19
       [] v = 20 -> GithubObsidian20 [] v = 21 -> Browser21]

NoVersion == 0

\* deploy.sh writes 8 and runs no migration; an installation of before it has 7 or no file.
MigrationsInit ==
  /\ release \in {NoVersion, 7, 8}
  /\ objects = {} /\ savedRelease = 0 /\ stage = "none"
  /\ pending = {} /\ atVersion = NoVersion /\ work = <<>> /\ ranVersions = {}
  /\ installs = 0 /\ setbacks = 0 /\ cutOff = {} /\ blind = {}

\* The bridge makes some tables itself where it first needs them.
BridgeMakes ==
  \E tables \in {{"feedback"}, {"trust_policies", "trust_audit"}}:
    /\ ~ tables \subseteq objects
    /\ objects' = objects \cup tables
    /\ UNCHANGED <<release, savedRelease, stage, runVars, installs, setbacks, cutOff, blind>>

\* Mutant of Applied: one of the tables will do.
AppliedByAny(v) == Migrations[v].asked \cap objects # {}

Applied(v) == Migrations[v].asked # {} /\ Migrations[v].asked \subseteq objects

Newer(v) == {w \in Versions: w > v}

\* update.sh, after its backup, starts the runner.
StartRunner ==
  /\ stage = "none" /\ installs < MaxInstalls
  /\ installs' = installs + 1 /\ savedRelease' = release
  /\ stage' = "running" /\ pending' = Newer(release) /\ ranVersions' = {}
  /\ UNCHANGED <<objects, release, atVersion, work, setbacks, cutOff, blind>>

\* In the order of their numbers.
TakeUp ==
  /\ stage = "running" /\ atVersion = NoVersion /\ pending # {}
  /\ LET v == Min(pending)
     IN /\ pending' = pending \ {v}
        /\ \/ /\ Applied(v) /\ ranVersions' = ranVersions \cup {v} /\ UNCHANGED <<atVersion, work>>
           \/ /\ ~ Applied(v) /\ atVersion' = v /\ work' = Migrations[v].statements
              /\ UNCHANGED ranVersions
  /\ UNCHANGED <<objects, release, savedRelease, stage, installs, setbacks, cutOff, blind>>

\* A column is added to a table that is there, and its failure is taken for a column that is.
MakeObject ==
  /\ stage = "running" /\ work # <<>>
  /\ work' = Tail(work)
  /\ LET o == Head(work)
     IN \/ /\ o \in FeedbackColumns => "feedback" \in objects
           /\ objects' = objects \cup {o} /\ UNCHANGED <<blind, setbacks>>
        \/ /\ o \in FeedbackColumns \ objects
           /\ blind' = blind \cup {o} /\ UNCHANGED objects
           /\ \/ "feedback" \notin objects /\ UNCHANGED setbacks
              \/ /\ "feedback" \in objects /\ setbacks < MaxSetbacks
                 /\ setbacks' = setbacks + 1
  /\ UNCHANGED <<release, savedRelease, stage, pending, atVersion, ranVersions, installs, cutOff>>

FinishMigration ==
  /\ stage = "running" /\ atVersion # NoVersion /\ work = <<>>
  /\ ranVersions' = ranVersions \cup {atVersion} /\ atVersion' = NoVersion
  /\ UNCHANGED <<objects, release, savedRelease, stage, pending, work, installs, setbacks, cutOff,
                 blind>>

StopAt(to) ==
  /\ stage' = to /\ pending' = {} /\ atVersion' = NoVersion /\ work' = <<>>
  /\ cutOff' = IF atVersion # NoVersion THEN cutOff \cup {atVersion} ELSE cutOff
  /\ setbacks < MaxSetbacks /\ setbacks' = setbacks + 1

\* A statement or a check raises: the run stops there, and its version is written.
MigrationFails ==
  /\ stage = "running" /\ (atVersion # NoVersion \/ pending # {})
  /\ work # <<>> => Head(work) \notin FeedbackColumns
  /\ StopAt("ran") /\ UNCHANGED <<objects, release, savedRelease, ranVersions, installs, blind>>

\* The runner is killed, and with it the update: nothing is written.
RunnerKilled ==
  /\ stage = "running" /\ StopAt("none") /\ ranVersions' = {}
  /\ UNCHANGED <<objects, release, savedRelease, installs, blind>>

RunnerEnds ==
  /\ stage = "running" /\ pending = {} /\ atVersion = NoVersion
  /\ stage' = "ran"
  /\ UNCHANGED <<objects, release, savedRelease, runVars, installs, setbacks, cutOff, blind>>

\* The last of them, whose number is the highest.
WriteVersion ==
  /\ stage = "ran" /\ stage' = "restarting"
  /\ release' = IF ranVersions = {} THEN release ELSE Max(ranVersions)
  /\ UNCHANGED <<objects, savedRelease, runVars, installs, setbacks, cutOff, blind>>

\* The services restart, or do not get healthy and the script stops; at its end it writes 8.
EndUpdate ==
  /\ stage = "restarting" /\ stage' = "none" /\ ranVersions' = {}
  /\ \/ release' = 8 /\ UNCHANGED setbacks
     \/ setbacks < MaxSetbacks /\ setbacks' = setbacks + 1 /\ UNCHANGED release
  /\ UNCHANGED <<objects, savedRelease, pending, atVersion, work, installs, cutOff, blind>>

\* The code goes back and the version with it; what migrations made stays.
Rollback ==
  /\ stage = "none" /\ installs > 0 /\ installs < MaxInstalls
  /\ installs' = installs + 1 /\ release' = savedRelease
  /\ UNCHANGED <<objects, savedRelease, stage, runVars, setbacks, cutOff, blind>>

MigrationsNext ==
  \/ BridgeMakes \/ StartRunner \/ TakeUp \/ MakeObject \/ FinishMigration \/ MigrationFails
  \/ RunnerKilled \/ RunnerEnds \/ WriteVersion \/ EndUpdate \/ Rollback

-----------------------------------------------------------------------------

Lasting(v) == Range(Migrations[v].statements) \ FeedbackColumns
Tabled(v) == Migrations[v].asked \subseteq objects /\ (v = 10 => Lasting(10) \subseteq objects)

\* What the version file or the run at hand takes for applied has its tables.
VersionsAreTrue == \A v \in Versions: (v <= release \/ v \in ranVersions) => Tabled(v)

\* What a migration made is there only once every one before it has its tables.
MadeInOrder ==
  \A v \in Versions \ {8, 10}: Lasting(v) \cap objects # {} => \A w \in Versions: w < v => Tabled(w)

\* Only a migration that was left half done once can lack an index, and
\* feedback lacks a column only when its statement failed silently.
PartsAreExplained ==
  \A v \in Versions \ {10}: v # atVersion /\ Migrations[v].asked # {} /\ Applied(v) =>
    /\ v \in cutOff \/ Lasting(v) \subseteq objects
    /\ v = 18 => 18 \in cutOff \/ FeedbackColumns \subseteq objects \cup blind

\* A run that ends without an error has made every table.
RunsComplete ==
  stage = "restarting" /\ 21 \in ranVersions => \A v \in Versions: Tabled(v)

\* The property of the databases over updates (run_migrations.py, update.sh).
MigrationSafe == VersionsAreTrue /\ MadeInOrder /\ PartsAreExplained /\ RunsComplete
=============================================================================
