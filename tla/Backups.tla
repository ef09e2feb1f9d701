------------------------------ MODULE Backups ------------------------------
(* Backup runs: the schedule, the run's unit of work and the push to git.  *)
(*                                                                         *)
(* The API and the worker run in containers of their own and keep a clone  *)
(* each.  A run holds the database from its row's insert to its commit, so *)
(* runs do not overlap; the scheduler's check is a unit of work before     *)
(* the run's, and checks do.  The configuration is a version; secrets and  *)
(* restores are Restore's.                                                 *)
EXTENDS Integers, Sequences, FiniteSets, SequencesExt

CONSTANTS
  Hosts,          \* containers that run backups
  Configurations, \* versions of the configuration
  MaxBackups,     \* bound: runs recorded
  MaxDue,         \* bound: scheduled backups waiting to run
  MaxTroubles     \* bound: deaths, failures of git and pushes from elsewhere

ASSUME BackupsAssumption ==
  /\ Configurations \subseteq Nat \ {0} /\ {"api", "worker"} \subseteq Hosts
  /\ MaxBackups \in Nat /\ MaxDue \in Nat /\ MaxTroubles \in Nat

VARIABLES
  configuration,  \* version in the tables
  backupRuns,     \* recorded runs, in the order of their ids
  recent,         \* the latest run finished within the interval
  dueRuns,        \* scheduled backups: number of runs when their check passed
  job,            \* the run under way
  clones,         \* the clone of each container
  remote,         \* commits of the branch at the remote
  stranded,       \* history: commits that a failed or dead run left in a clone
  troubles

backupsVars == <<configuration, backupRuns, recent, dueRuns, job, clones, remote, stranded, troubles>>

NoJob == [at |-> "none"]
NoFile == 0
NoClone == [log |-> <<>>, file |-> NoFile, exists |-> FALSE]

\* A commit has an identity of its own and holds a version of the backup file.
GitCommit(n, version) == [n |-> n, holds |-> version]
FileOf(log) == IF log = <<>> THEN NoFile ELSE Last(log).holds
Logged(log) == {log[i] : i \in DOMAIN log}
Commits == Logged(remote) \cup (UNION {Logged(clones[h].log) : h \in Hosts}) \cup stranded
Trouble == troubles < MaxTroubles /\ troubles' = troubles + 1

BackupsInit ==
  /\ configuration \in Configurations
  /\ backupRuns = <<>> /\ recent = FALSE /\ dueRuns = <<>> /\ job = NoJob
  /\ clones = [h \in Hosts |-> NoClone]
  /\ remote = <<>> /\ stranded = {} /\ troubles = 0

(* the schedule *)
LatestRun == Last(backupRuns)

NotDue == backupRuns # <<>> /\ LatestRun.finished /\ recent

ChecksDue ==
  /\ job = NoJob /\ Len(dueRuns) < MaxDue /\ ~NotDue
  /\ dueRuns' = Append(dueRuns, Len(backupRuns))
  /\ UNCHANGED <<recent, configuration, backupRuns, job, clones, remote, stranded, troubles>>

\* The interval of the schedule passes.
IntervalPasses ==
  /\ recent /\ recent' = FALSE
  /\ UNCHANGED <<configuration, backupRuns, dueRuns, job, clones, remote, stranded, troubles>>

(* the run: its row, the snapshot and, if asked for, the push *)
Begins(h, push, seen) ==
  /\ job = NoJob /\ Len(backupRuns) < MaxBackups
  /\ job' = [at |-> IF push THEN "syncing" ELSE "done", host |-> h, holds |-> configuration,
             push |-> push, commit |-> 0, early |-> seen # Len(backupRuns),
             tooSoon |-> h = "worker" /\ recent]
  /\ UNCHANGED <<recent, configuration, backupRuns, clones, remote, stranded, troubles>>

RunScheduled(push) == dueRuns # <<>> /\ Begins("worker", push, Head(dueRuns)) /\ dueRuns' = Tail(dueRuns)
RunManually(push) == Begins("api", push, Len(backupRuns)) /\ UNCHANGED dueRuns

Here == clones[job.host]
Moves(at) == job' = [job EXCEPT !.at = at]

\* Clone if there is none, fetch, and fast-forward to the remote's branch.
\* Git refuses when both have commits of their own, and may refuse when the
\* news change the file and one that was never committed lies in its place.
Behind == IsStrictPrefix(Here.log, remote)
FileInTheWay == FileOf(remote) # FileOf(Here.log) /\ Here.file # FileOf(Here.log)

Syncs ==
  /\ job.at = "syncing"
  /\ \/ /\ ~Here.exists
        /\ clones' = [clones EXCEPT ![job.host] = [log |-> remote, file |-> FileOf(remote), exists |-> TRUE]]
        /\ Moves("writing")
     \/ /\ Here.exists /\ IsPrefix(remote, Here.log)
        /\ Moves("writing") /\ UNCHANGED clones
     \/ /\ Here.exists /\ Behind /\ (FileInTheWay => Here.file = FileOf(remote))
        /\ clones' = [clones EXCEPT ![job.host].log = remote,
             ![job.host].file = IF FileOf(remote) = FileOf(Here.log) THEN @ ELSE FileOf(remote)]
        /\ Moves("writing")
     \/ /\ Here.exists /\ ~IsPrefix(remote, Here.log) /\ (Behind => FileInTheWay)
        /\ Moves("failed") /\ UNCHANGED clones
  /\ UNCHANGED <<recent, configuration, backupRuns, dueRuns, remote, stranded, troubles>>

\* Mutant: a file that is as the clone has it ends the run.
WritesIfDirty ==
  /\ job.at = "writing"
  /\ IF Here.file = FileOf(Here.log)
     THEN Moves("done") /\ UNCHANGED clones
     ELSE Moves("committing") /\ clones' = [clones EXCEPT ![job.host].file = job.holds]
  /\ UNCHANGED <<recent, configuration, backupRuns, dueRuns, remote, stranded, troubles>>

Writes ==
  /\ job.at = "writing"
  /\ clones' = [clones EXCEPT ![job.host].file = job.holds]
  /\ Moves("committing")
  /\ UNCHANGED <<recent, configuration, backupRuns, dueRuns, remote, stranded, troubles>>

\* A file like the last commit's makes no commit, and nothing is pushed.
NothingNew == Here.file = FileOf(Here.log)

MakesCommit ==
  /\ job.at = "committing"
  /\ IF NothingNew
     THEN Moves("done") /\ UNCHANGED clones
     ELSE LET c == GitCommit(Cardinality(Commits) + 1, job.holds) IN
          /\ clones' = [clones EXCEPT ![job.host].log = Append(@, c)]
          /\ job' = [job EXCEPT !.at = "pushing", !.commit = c.n]
  /\ UNCHANGED <<recent, configuration, backupRuns, dueRuns, remote, stranded, troubles>>

\* The remote takes what extends its branch.
Pushes ==
  /\ job.at = "pushing"
  /\ \/ /\ IsPrefix(remote, Here.log)
        /\ remote' = Here.log /\ Moves("done") /\ UNCHANGED stranded
     \/ /\ ~IsPrefix(remote, Here.log)
        /\ job' = [job EXCEPT !.at = "failed", !.commit = 0]
        /\ stranded' = stranded \cup (Logged(Here.log) \ Logged(remote)) /\ UNCHANGED remote
  /\ UNCHANGED <<recent, configuration, backupRuns, dueRuns, clones, troubles>>

\* A git command fails: no answer, no access, or no disk.  A push may have been taken.
GitFails ==
  /\ job.at \in {"syncing", "writing", "committing", "pushing"} /\ Trouble
  /\ job' = [job EXCEPT !.at = "failed", !.commit = 0]
  /\ \/ UNCHANGED remote
     \/ job.at = "pushing" /\ IsPrefix(remote, Here.log) /\ remote' = Here.log
  /\ stranded' = IF job.at = "pushing" THEN stranded \cup (Logged(Here.log) \ Logged(remote)) ELSE stranded
  /\ UNCHANGED <<recent, configuration, backupRuns, dueRuns, clones>>

\* The row is finished and committed, also that of a failed run.
Records ==
  /\ job.at \in {"done", "failed"}
  /\ backupRuns' = Append(backupRuns,
       [status |-> IF job.at = "done" THEN "succeeded" ELSE "failed",
        holds |-> job.holds, push |-> job.push, commit |-> job.commit,
        early |-> job.early, tooSoon |-> job.tooSoon, finished |-> TRUE])
  /\ recent' = TRUE /\ job' = NoJob
  /\ UNCHANGED <<configuration, dueRuns, clones, remote, stranded, troubles>>

PushSnapshot == Syncs \/ Writes \/ MakesCommit \/ Pushes \/ GitFails
BackupRun == (\E push \in BOOLEAN : RunManually(push)) \/ PushSnapshot \/ Records
ScheduledBackup == ChecksDue \/ \E push \in BOOLEAN : RunScheduled(push)


(* around it *)
\* A restore leaves its safety copy as the latest run, without a finish.
SafetyCopy ==
  /\ job = NoJob /\ Len(backupRuns) < MaxBackups
  /\ backupRuns' = Append(backupRuns,
       [status |-> "pre_restore", holds |-> configuration, push |-> FALSE, commit |-> 0,
        early |-> FALSE, tooSoon |-> FALSE, finished |-> FALSE])
  /\ configuration' \in Configurations /\ recent' = FALSE
  /\ UNCHANGED <<dueRuns, job, clones, remote, stranded, troubles>>

Configure ==
  /\ job = NoJob
  /\ configuration' \in Configurations \ {configuration}
  /\ UNCHANGED <<recent, backupRuns, dueRuns, job, clones, remote, stranded, troubles>>

\* The process dies: the row is rolled back, the clone stays as it is.
HostDies ==
  /\ job # NoJob /\ Trouble
  /\ job' = NoJob
  /\ stranded' = IF job.at = "pushing" THEN stranded \cup (Logged(Here.log) \ Logged(remote)) ELSE stranded
  /\ UNCHANGED <<recent, configuration, backupRuns, dueRuns, clones, remote>>

\* Another installation, or a person, pushes something else to the branch.
RemoteMoves ==
  /\ Trouble
  /\ remote' = Append(remote, GitCommit(Cardinality(Commits) + 1, FileOf(remote)))
  /\ UNCHANGED <<recent, configuration, backupRuns, dueRuns, job, clones, stranded>>

\* The container is replaced, and its clone with it.
Replaces(h) ==
  /\ clones[h].exists /\ (job # NoJob => job.host # h) /\ Trouble
  /\ clones' = [clones EXCEPT ![h] = NoClone]
  /\ UNCHANGED <<recent, configuration, backupRuns, dueRuns, job, remote, stranded>>

BackupsNext ==
  \/ ScheduledBackup \/ BackupRun
  \/ IntervalPasses \/ SafetyCopy \/ Configure \/ HostDies \/ RemoteMoves
  \/ \E h \in Hosts : Replaces(h)

BackupsSpec == BackupsInit /\ [][BackupsNext]_backupsVars

(* Properties *)
BackupsTypeOK ==
  /\ configuration \in Configurations
  /\ dueRuns \in BoundedSeq(0..MaxBackups, MaxDue)
  /\ job.at \in {"none", "syncing", "writing", "committing", "pushing", "done", "failed"}
  /\ \A i \in DOMAIN backupRuns : backupRuns[i].status \in {"succeeded", "failed", "pre_restore"}
  /\ \A i, j \in DOMAIN remote : i # j => remote[i].n # remote[j].n

\* A run that reports a commit is in the remote's branch for good, whatever
\* other containers and people push before and after.
ReportedCommitsArrive ==
  \A i \in DOMAIN backupRuns :
    backupRuns[i].commit # 0 =>
      GitCommit(backupRuns[i].commit, backupRuns[i].holds) \in Logged(remote)

\* A run that was to push and succeeded without a commit had nothing to push:
\* its version is in the remote's branch, or in a commit that an earlier run
\* failed to push, which a run with nothing new does not repeat.
SilentSuccessExplained ==
  \A i \in DOMAIN backupRuns :
    LET r == backupRuns[i] IN
    r.status = "succeeded" /\ r.push /\ r.commit = 0 =>
      \E c \in Logged(remote) \cup stranded : c.holds = r.holds

\* The schedule keeps its interval from the latest run, failed ones too; a
\* scheduled run comes sooner only if another was recorded after its check.
SoonOnlyAfterOverlap ==
  \A i \in DOMAIN backupRuns : backupRuns[i].tooSoon => backupRuns[i].early

\* What the list of backup runs may be taken for (BackupService.run, run_scheduled_backup):
\* a commit it reports is in the remote's branch, a success without a commit had nothing
\* new, and two runs closer than the interval were checked side by side.
BackupRunsExplained ==
  /\ ReportedCommitsArrive
  /\ SilentSuccessExplained
  /\ SoonOnlyAfterOverlap
=============================================================================
