------------------------------ MODULE GithubSync ------------------------------
(***************************************************************************)
(* Pull requests, issues and commits of GitHub in the vector store         *)
(* (dev_integrations.py), written by syncs of the scheduler and of         *)
(* requests, coroutines of the event loop.                                 *)
(***************************************************************************)
EXTENDS Naturals, Sequences, SequencesExt

CONSTANTS
  Prs, Issues, Commits, \* of the user, each of a repository of its own
  Syncers,   \* coroutines
  MaxEdits, MaxSyncs \* bounds

GitItems == Prs \cup Issues \cup Commits

ASSUME GithubAssumption == IsFiniteSet(GitItems) /\ MaxEdits \in Nat \ {0} /\ MaxSyncs \in Nat

VARIABLES
  github,    \* by item: how often it was edited, and whether it is open
  projects,  \* memory_projects, by item: what is stored of it, or NoItem
  githubSync, \* what each coroutine is at, with the items it has fetched
  syncLog,   \* github_sync_log, and the sync that wrote the row
  syncs,     \* history and bound: those that have begun
  syncsOverlapped, \* history: two syncs were under way at once
  newestRead \* history: by item, the latest state that was stored
githubVars == <<github, projects, githubSync, syncLog, syncs, syncsOverlapped, newestRead>>

NoItem == [edits |-> 0, open |-> FALSE]
NoSync == [number |-> 0, items |-> <<>>, all |-> {}]
SyncersAtWork == {s \in Syncers: githubSync[s] # NoSync}

GithubInit ==
  /\ github = [i \in GitItems |-> [edits |-> 1, open |-> TRUE]]
  /\ projects = [i \in GitItems |-> NoItem] /\ githubSync = [s \in Syncers |-> NoSync]
  /\ syncLog = {} /\ syncs = 0 /\ syncsOverlapped = FALSE
  /\ newestRead = [i \in GitItems |-> 0]

EditItem(i) ==
  /\ github[i].edits < MaxEdits /\ i \notin Commits
  /\ \E open \in BOOLEAN: github' = [github EXCEPT ![i] = [edits |-> @.edits + 1, open |-> open]]
  /\ UNCHANGED <<projects, githubSync, syncLog, syncs, syncsOverlapped, newestRead>>

-------------------------------------------------------------------------------
\* What is closed or merged is not fetched any more; a pull request is also an
\* issue, but is left out there.
FetchPrs(repos) == {i \in Prs \cap repos: github[i].open}
FetchIssues(repos) == {i \in (Issues \cup Prs) \cap repos: github[i].open} \ Prs
FetchCommits(repos) == Commits \cap repos

\* All repositories are fetched before the first await; what cannot be fetched is
\* empty.  Without an item there is nothing to store, and no row.
StartSync(s) ==
  /\ githubSync[s] = NoSync /\ syncs < MaxSyncs /\ syncs' = syncs + 1
  /\ \E repos \in SUBSET GitItems:
       LET all == FetchPrs(repos) \cup FetchIssues(repos) \cup FetchCommits(repos)
           order == SetToSeq(all)
       IN githubSync' = [githubSync EXCEPT ![s] =
                    IF all = {} THEN NoSync
                    ELSE [number |-> syncs', all |-> all,
                          items |-> [k \in DOMAIN order |-> [item |-> order[k], is |-> github[order[k]]]]]]
  /\ syncsOverlapped' = (syncsOverlapped \/ (SyncersAtWork # {} /\ githubSync'[s] # NoSync))
  /\ UNCHANGED <<github, projects, syncLog, newestRead>>

\* Mutant of Upserted: what is stored already is not stored again.
UpsertedOnce(stored, is) == IF stored = NoItem THEN is ELSE stored

\* The id of a point is made of the repository and the number: it stays that of the item.
Upserted(stored, is) == is

\* A batch, here of one item, is embedded and stored.
UpsertItem(s) ==
  /\ githubSync[s].items # <<>>
  /\ LET next == Head(githubSync[s].items)
     IN /\ projects' = [projects EXCEPT ![next.item] = Upserted(@, next.is)]
        /\ newestRead' = [newestRead EXCEPT ![next.item] = IF next.is.edits > @ THEN next.is.edits ELSE @]
  /\ githubSync' = [githubSync EXCEPT ![s].items = Tail(@)]
  /\ UNCHANGED <<github, syncLog, syncs, syncsOverlapped>>

\* The batches are stored, or one has failed and the ones behind it are not.
\* The row may fail as well.
LogGithubSync(s) ==
  /\ githubSync[s] # NoSync
  /\ \/ UNCHANGED syncLog
     \/ syncLog' = syncLog \cup
          {[number |-> githubSync[s].number, all |-> githubSync[s].all,
            left |-> {githubSync[s].items[k].item: k \in DOMAIN githubSync[s].items},
            status |-> IF githubSync[s].items = <<>> THEN "ok" ELSE "error"]}
  /\ githubSync' = [githubSync EXCEPT ![s] = NoSync]
  /\ UNCHANGED <<github, projects, syncs, syncsOverlapped, newestRead>>

GithubNext ==
  \/ \E i \in GitItems: EditItem(i)
  \/ \E s \in Syncers: StartSync(s) \/ UpsertItem(s) \/ LogGithubSync(s)

GithubSpec == GithubInit /\ [][GithubNext]_githubVars

-------------------------------------------------------------------------------
(* Properties. *)

GithubTypeOK ==
  /\ github \in [GitItems -> [edits : 1..MaxEdits, open : BOOLEAN]]
  /\ projects \in [GitItems -> [edits : 0..MaxEdits, open : BOOLEAN]]
  /\ \A s \in Syncers: githubSync[s].number \in 0..syncs
  /\ \A r \in syncLog: r.status \in {"ok", "error"} /\ r.number \in 1..syncs

\* What is stored of an item is the latest that any sync has stored, unless two
\* syncs were under way at once (dev_integrations.py:363).
LatestIsStored == \A i \in GitItems: projects[i].edits = newestRead[i] \/ syncsOverlapped

\* A sync that is logged as ok has stored all it had fetched, and one that is
\* logged as an error all but what its row does not count (dev_integrations.py:232).
SyncRowsAreTrue ==
  \A r \in syncLog:
    /\ r.status = "ok" <=> r.left = {}
    /\ \A i \in r.all \ r.left: projects[i] # NoItem

GithubSafe == GithubTypeOK /\ LatestIsStored /\ SyncRowsAreTrue
===============================================================================
