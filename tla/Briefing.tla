------------------------------- MODULE Briefing -------------------------------
(***************************************************************************)
(* What a scheduled briefing tells (scheduler_executor.py): the articles   *)
(* of a window that is computed from the last run, or from the last sync   *)
(* of the mail, as many of them as the digest takes (rss_ingestor.py),     *)
(* through the language model and the notifier.  One article is followed,  *)
(* whichever it is: its place among the others is a choice of each digest. *)
(***************************************************************************)
EXTENDS Naturals

CONSTANTS
  PerHour,    \* ticks
  Day,        \* hours of the window of a daily job
  MaxTick,    \* bound
  MaxOutages  \* bound: ends of the process in the middle of a run

ASSUME BriefingAssumption ==
  PerHour \in Nat \ {0} /\ Day \in Nat /\ MaxTick \in Nat /\ MaxOutages \in Nat

VARIABLES
  cadence,   \* "daily" or slower, "often"
  tick,
  lastRun,   \* scheduled_jobs.last_run; 0: NULL
  mailSync,  \* email_sync_log, of imap; 0: no row
  article,   \* when it was published, and whether it is in Qdrant
  briefing,  \* the run under way, and whether its digest has the article
  lastTold,  \* history: when the run that told it last began; 0: none has
  toldBefore, \* history: the same of the run before that
  excused,   \* history: it need not be told: it was in a digest that nobody was
             \* told, or left out of one by a limit or an error, or by the first
             \* window of a job or a daily one, or not in Qdrant yet
  outages
briefingVars == <<cadence, tick, lastRun, mailSync, article, briefing, lastTold, toldBefore, excused, outages>>

NoBriefing == [at |-> "none", began |-> 0, has |-> FALSE]
Ticks == 1..MaxTick

BriefingInit ==
  /\ cadence \in {"daily", "often"} /\ tick = 1 /\ lastRun = 0 /\ mailSync = 0
  /\ article \in [at : Ticks, found : {FALSE}]
  /\ briefing = NoBriefing /\ lastTold = 0 /\ toldBefore = 0 /\ excused = FALSE /\ outages = 0

TickPasses ==
  /\ tick < MaxTick /\ tick' = tick + 1
  /\ UNCHANGED <<cadence, lastRun, mailSync, article, briefing, lastTold, toldBefore, excused, outages>>

MailSyncs ==
  /\ mailSync < tick /\ mailSync' = tick
  /\ UNCHANGED <<cadence, tick, lastRun, article, briefing, lastTold, toldBefore, excused, outages>>

\* A sync of the feeds finds it, some time after it was published.
ArticleComes ==
  /\ ~ article.found /\ article.at <= tick /\ article' = [article EXCEPT !.found = TRUE]
  /\ UNCHANGED <<cadence, tick, lastRun, mailSync, briefing, lastTold, toldBefore, excused, outages>>

-------------------------------------------------------------------------------
HoursSince(t) == (tick - t) \div PerHour + 1

\* The digest of the feeds goes by the window of the mail.
DigestWindow ==
  CASE cadence = "daily" -> Day
    [] cadence # "daily" /\ mailSync # 0 -> HoursSince(mailSync)
    [] cadence # "daily" /\ mailSync = 0 /\ lastRun # 0 -> HoursSince(lastRun)
    [] OTHER -> Day

InDigestWindow == article.found /\ article.at + PerHour * DigestWindow >= tick

\* The articles of the window, but for those beyond the limit of the search, which
\* takes them in no order, or of their category; none if the search raises, whose
\* error is then what the section says.
Collected == {InDigestWindow, FALSE}

\* The sections are collected at once.  One run in each tick, a bound.
StartBriefing ==
  /\ briefing = NoBriefing /\ lastRun < tick
  /\ \E has \in Collected:
       /\ briefing' = [at |-> "asked", began |-> tick, has |-> has]
       /\ excused' = \/ excused
                     \/ ~ article.found /\ article.at <= tick
                     \/ article.found /\ ~ InDigestWindow /\ (cadence = "daily" \/ lastRun = 0)
                     \/ InDigestWindow /\ ~ has
  /\ UNCHANGED <<cadence, tick, lastRun, mailSync, article, lastTold, toldBefore, outages>>

\* A section that a job may not use so often, a timeout, an exception, or no
\* model that answers: then what is delivered is that there is no briefing.
BriefingFails ==
  /\ briefing.at = "asked" /\ briefing' = [briefing EXCEPT !.at = "failed"]
  /\ UNCHANGED <<cadence, tick, lastRun, mailSync, article, lastTold, toldBefore, excused, outages>>

\* The notifier reaches the user or not; nobody looks at which.
BroadcastBriefing ==
  /\ briefing.at = "asked"
  /\ \/ /\ briefing' = [briefing EXCEPT !.at = "told"]
        /\ lastTold' = IF briefing.has THEN briefing.began ELSE lastTold
        /\ toldBefore' = IF briefing.has THEN lastTold ELSE toldBefore
     \/ briefing' = [briefing EXCEPT !.at = "failed"] /\ UNCHANGED <<lastTold, toldBefore>>
  /\ UNCHANGED <<cadence, tick, lastRun, mailSync, article, excused, outages>>

\* Mutant of LastRunIs: the row has the end of the run.
LastRunIsEnd(began) == tick

LastRunIs(began) == began

FinishBriefing ==
  /\ briefing.at \in {"told", "failed"}
  /\ lastRun' = LastRunIs(briefing.began) /\ briefing' = NoBriefing
  /\ excused' = (excused \/ (briefing.at = "failed" /\ briefing.has))
  /\ UNCHANGED <<cadence, tick, mailSync, article, lastTold, toldBefore, outages>>

\* The start of the scheduler sets the status of the job, not its last run.
Outage ==
  /\ briefing # NoBriefing /\ outages < MaxOutages /\ outages' = outages + 1
  /\ briefing' = NoBriefing
  /\ UNCHANGED <<cadence, tick, lastRun, mailSync, article, lastTold, toldBefore, excused>>

BriefingNext ==
  \/ TickPasses \/ MailSyncs \/ ArticleComes \/ Outage
  \/ StartBriefing \/ BriefingFails \/ BroadcastBriefing \/ FinishBriefing

BriefingSpec == BriefingInit /\ [][BriefingNext]_briefingVars

-------------------------------------------------------------------------------
(* Properties. *)

BriefingTypeOK ==
  /\ tick \in Ticks /\ lastRun \in 0..tick /\ mailSync \in 0..tick /\ article.at \in Ticks
  /\ briefing.at \in {"none", "asked", "told", "failed"} /\ briefing.began \in 0..tick
  /\ lastTold \in 0..tick /\ toldBefore \in 0..lastTold

\* The windows of a job's runs leave no gap, whatever time they take and whether
\* the process ends in one: an article that was published before the last run has
\* been given to the model, or it was in a digest and nobody was told, as the run
\* failed, which is not tried again; or a digest left it out, for its limit, for an
\* error of the search or because no sync had found it yet; or it was too old for a
\* daily job or when the job first ran.  Only the cut of the windows is the code's
\* to get right here, and only until a mail is synced: from then on they follow
\* the mail.
WindowsLeaveNoGap ==
  mailSync = 0 /\ article.found /\ article.at < lastRun => lastTold # 0 \/ excused

\* Until then a job tells an article again only in the hour that a window is rounded
\* up to, unless it is daily or a run was cut off.
RetoldWithinTheHour ==
  mailSync = 0 /\ toldBefore # 0 =>
    article.at + PerHour >= toldBefore \/ cadence = "daily" \/ outages > 0

BriefingSafe == BriefingTypeOK /\ WindowsLeaveNoGap /\ RetoldWithinTheHour
===============================================================================
