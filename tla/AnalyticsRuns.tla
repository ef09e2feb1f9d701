--------------------------- MODULE AnalyticsRuns ---------------------------
(* Refreshing the metrics of analytics targets: runs asked for by the API   *)
(* and by MCP, tasks at the broker, the worker's job, the hourly round of   *)
(* all targets, and the MTProto login it reads Telegram with.               *)
(*                                                                          *)
(* The units of work of the API and of the worker exclude each other        *)
(* (UnitOfWork), so one job runs at a time and the endpoints that open one  *)
(* wait for it; MCP tools and login endpoints open plain sessions.          *)
EXTENDS Naturals, Sequences, FiniteSets

CONSTANTS Targets, MaxRuns, MaxBusFailures, MaxJobLosses

VARIABLES
  targets,   \* the row of each target: "none", "active" or "paused"
  runs,      \* the table of runs
  refreshTasks,     \* at the broker
  work,       \* what the worker is doing
  login,     \* status of the stored MTProto session
  telethon,  \* whether Telegram knows the session as signed in
  busFailures, jobLosses,
  made,      \* runs that stored a snapshot
  unheard,   \* runs an event of which could not be published
  cut        \* runs whose task or worker was lost, or that never had a task

analyticsVars == <<targets, runs, refreshTasks, work, login, telethon, busFailures, jobLosses,
                   made, unheard, cut>>

NoWork == [at |-> "idle"]
Unlocked == work = NoWork

AnalyticsInit ==
  /\ targets = [t \in Targets |-> "active"]
  /\ runs = <<>> /\ refreshTasks = {} /\ work = NoWork
  /\ login = "missing" /\ telethon = FALSE
  /\ busFailures = 0 /\ jobLosses = 0
  /\ made = {} /\ unheard = {} /\ cut = {}

-----------------------------------------------------------------------------
\* Endpoints and tools.

CreateRun(t) == Append(runs, [target |-> t, status |-> "queued"])
NextRun == Len(runs) + 1

TargetCreated(t) ==
  /\ Unlocked /\ targets[t] = "none" /\ targets' = [targets EXCEPT ![t] = "active"]
  /\ UNCHANGED <<runs, refreshTasks, work, login, telethon, busFailures, jobLosses, made, unheard, cut>>

TargetUpdated(t, status) ==
  /\ Unlocked /\ targets[t] # "none" /\ targets' = [targets EXCEPT ![t] = status]
  /\ UNCHANGED <<runs, refreshTasks, work, login, telethon, busFailures, jobLosses, made, unheard, cut>>

\* The target's runs stay and forget it.
TargetDeleted(t) ==
  /\ Unlocked /\ targets[t] # "none" /\ targets' = [targets EXCEPT ![t] = "none"]
  /\ UNCHANGED <<runs, refreshTasks, work, login, telethon, busFailures, jobLosses, made, unheard, cut>>

\* The run is committed before the task is handed to the broker, which may fail.
Refresh(t) ==
  /\ Unlocked /\ targets[t] # "none" /\ Len(runs) < MaxRuns
  /\ runs' = CreateRun(t)
  /\ \/ /\ refreshTasks' = refreshTasks \cup {[target |-> t, run |-> NextRun]}
        /\ UNCHANGED <<jobLosses, cut>>
     \/ /\ jobLosses < MaxJobLosses /\ jobLosses' = jobLosses + 1
        /\ cut' = cut \cup {NextRun} /\ UNCHANGED refreshTasks
  /\ UNCHANGED <<targets, work, login, telethon, busFailures, made, unheard>>

\* The tool writes the row and tells the bus; it asks neither for the target nor a task.
McpRefresh(t) ==
  /\ Len(runs) < MaxRuns
  /\ runs' = CreateRun(t) /\ cut' = cut \cup {NextRun}
  /\ UNCHANGED <<targets, refreshTasks, work, login, telethon, busFailures, jobLosses, made, unheard>>

-----------------------------------------------------------------------------
\* The worker's job.

TakesTask(k) ==
  /\ Unlocked /\ k \in refreshTasks
  /\ refreshTasks' = refreshTasks \ {k}
  /\ work' = [at |-> "start", target |-> k.target, run |-> k.run, rest |-> <<>>]
  /\ UNCHANGED <<targets, runs, login, telethon, busFailures, jobLosses, made, unheard, cut>>

\* The hourly round takes the active targets in the order of their rows.
TakesAll ==
  /\ Unlocked
  /\ LET due == SelectSeq([i \in 1..Cardinality(Targets) |-> i], LAMBDA t : targets[t] = "active") IN
     /\ due # <<>>
     /\ work' = [at |-> "start", target |-> Head(due), run |-> 0, rest |-> Tail(due)]
  /\ UNCHANGED <<targets, runs, refreshTasks, login, telethon, busFailures, jobLosses, made, unheard, cut>>

\* A run that is not named is made on the way.
Started(t, r) ==
  IF r = 0 THEN Append(runs, [target |-> t, status |-> "started"])
           ELSE [runs EXCEPT ![r].status = "started"]

JobStarts ==
  /\ work.at = "start"
  /\ IF targets[work.target] = "none"
     THEN work' = NoWork /\ cut' = cut \cup {work.run} /\ UNCHANGED runs
     ELSE /\ work.run = 0 => Len(runs) < MaxRuns
          /\ runs' = Started(work.target, work.run)
          /\ work' = [work EXCEPT !.at = "announce", !.run = IF @ = 0 THEN NextRun ELSE @]
          /\ UNCHANGED cut
  /\ UNCHANGED <<targets, refreshTasks, login, telethon, busFailures, jobLosses, made, unheard>>

BusFails ==
  /\ busFailures < MaxBusFailures /\ busFailures' = busFailures + 1
  /\ unheard' = unheard \cup {work.run}

\* Outside the try: a failure ends the job, and with it the round.
JobAnnounces ==
  /\ work.at = "announce"
  /\ \/ work' = [work EXCEPT !.at = "collect"] /\ UNCHANGED <<busFailures, unheard>>
     \/ BusFails /\ work' = NoWork
  /\ UNCHANGED <<targets, runs, refreshTasks, login, telethon, jobLosses, made, cut>>

JobCollects ==
  /\ work.at = "collect"
  /\ \/ work' = [work EXCEPT !.at = "fail"]
     \/ telethon /\ work' = [work EXCEPT !.at = "save"]
  /\ UNCHANGED <<targets, runs, refreshTasks, login, telethon, busFailures, jobLosses, made, unheard, cut>>

\* Mutant: the run is finished without its snapshot.
SavesRunOnly ==
  /\ work.at = "save"
  /\ runs' = [runs EXCEPT ![work.run].status = "finished"]
  /\ work' = [work EXCEPT !.at = "fail"]
  /\ UNCHANGED <<targets, refreshTasks, login, telethon, busFailures, jobLosses, made, unheard, cut>>

\* Snapshot, target and run in one commit.
JobSaves ==
  /\ work.at = "save"
  /\ runs' = [runs EXCEPT ![work.run].status = "finished"]
  /\ made' = made \cup {work.run}
  /\ work' = [work EXCEPT !.at = "tell"]
  /\ UNCHANGED <<targets, refreshTasks, login, telethon, busFailures, jobLosses, unheard, cut>>

\* After the commit and still inside the try.
JobTells ==
  /\ work.at = "tell"
  /\ \/ /\ work' = IF work.rest = <<>> THEN NoWork
                  ELSE [at |-> "start", target |-> Head(work.rest), run |-> 0, rest |-> Tail(work.rest)]
        /\ UNCHANGED <<busFailures, unheard>>
     \/ BusFails /\ work' = [work EXCEPT !.at = "fail"]
  /\ UNCHANGED <<targets, runs, refreshTasks, login, telethon, jobLosses, made, cut>>

\* Whether or not the failure is heard of, it is raised and the round ends.
JobFails ==
  /\ work.at = "fail"
  /\ runs' = [runs EXCEPT ![work.run].status = "failed"]
  /\ work' = NoWork
  /\ UNCHANGED <<targets, refreshTasks, login, telethon, busFailures, jobLosses, made, unheard, cut>>

\* The worker dies, or a task waited for the lock too long; the broker gives no task twice.
JobIsLost ==
  /\ ~Unlocked /\ jobLosses < MaxJobLosses
  /\ jobLosses' = jobLosses + 1
  /\ work' = NoWork /\ cut' = cut \cup {work.run}
  /\ UNCHANGED <<targets, runs, refreshTasks, login, telethon, busFailures, made, unheard>>

-----------------------------------------------------------------------------
\* The login of the MTProto session.

LoginStatus(status) ==
  /\ login' = status
  /\ UNCHANGED <<targets, runs, refreshTasks, work, busFailures, jobLosses, made, unheard, cut>>

StartLogin == LoginStatus("code_requested") /\ UNCHANGED telethon

\* With a second factor the right code is not enough.
ConfirmCode ==
  \/ LoginStatus("password_required") /\ UNCHANGED telethon
  \/ LoginStatus("ready") /\ telethon' = TRUE

ConfirmPassword == LoginStatus("ready") /\ telethon' = TRUE

\* Telegram may end the session at any time; the stored status does not learn of it.
TelegramForgets ==
  /\ telethon' = FALSE
  /\ UNCHANGED <<targets, runs, refreshTasks, work, login, busFailures, jobLosses, made, unheard, cut>>

AnalyticsNext ==
  \/ \E t \in Targets :
       \/ TargetCreated(t) \/ TargetDeleted(t) \/ Refresh(t) \/ McpRefresh(t)
       \/ \E status \in {"active", "paused"} : TargetUpdated(t, status)
  \/ \E k \in refreshTasks : TakesTask(k)
  \/ TakesAll \/ JobStarts \/ JobAnnounces \/ JobCollects \/ JobSaves \/ JobTells \/ JobFails
  \/ JobIsLost \/ StartLogin \/ ConfirmCode \/ ConfirmPassword \/ TelegramForgets

AnalyticsSpec == AnalyticsInit /\ [][AnalyticsNext]_analyticsVars

-----------------------------------------------------------------------------
\* Type invariant of targets, runs, tasks and the job.
AnalyticsTypeOK ==
  /\ \A t \in Targets : targets[t] \in {"none", "active", "paused"}
  /\ \A r \in DOMAIN runs : runs[r].status \in {"queued", "started", "finished", "failed"}
  /\ \A k \in refreshTasks : runs[k.run].target = k.target
  /\ ~Unlocked => work.run \in 0..Len(runs)

\* A run that is over did what its status says: a finished one stored its snapshot,
\* and a failed one stored none, unless the event about it could not be published
\* after the commit (AnalyticsService.refresh_target).
OutcomesExplained ==
  \A r \in DOMAIN runs :
    /\ runs[r].status = "finished" => r \in made
    /\ runs[r].status = "failed" /\ r \in made => r \in unheard

\* A run nobody will carry on with is one asked for through MCP, one whose task or
\* worker was lost or whose target was gone, or one that could not be announced.
\* Every other open run has its task at the broker or is the worker's.
OpenRunsExplained ==
  \A r \in DOMAIN runs :
    runs[r].status \in {"queued", "started"} =>
      \/ r \in cut \cup unheard
      \/ \E k \in refreshTasks : k.run = r
      \/ ~Unlocked /\ work.run = r

\* What the list of refresh runs may be taken for (AnalyticsService, refresh tasks): an end
\* says what happened to the snapshot, and an open run is carried on or its loss known.
RefreshRunsExplained ==
  /\ OutcomesExplained
  /\ OpenRunsExplained
=============================================================================
