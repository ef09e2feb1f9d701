------------------------------ MODULE SendQueue ------------------------------
(***************************************************************************)
(* The durable send queue: rows of the send_history table, the worker      *)
(* runs that lease them and call Telegram (tasks.py, sending/service.py,   *)
(* sending/repository.py), and the HTTP requests that create, cancel,      *)
(* retry, replay and release them (api/v1/sending.py,                      *)
(* api/v1/reliability.py).                                                 *)
(*                                                                         *)
(* Three ideas carry the model.                                            *)
(*                                                                         *)
(* A database transaction is one step, but what it writes was computed     *)
(* from a row object read earlier.  SQLAlchemy emits UPDATE for the        *)
(* columns whose value differs from the one the session loaded, with no    *)
(* version check: that is OrmWrite.  Only the lease is a compare-and-set   *)
(* on the database's own value.                                            *)
(*                                                                         *)
(* Time is kept as what the code compares it with.  next_retry_at is       *)
(* missing, past or future; lock_expires_at is missing, in the future      *)
(* ("live"), past ("expired"), or past by more than the scheduler's grace  *)
(* ("stale").  Ripen and LeaseAges are the passage of time.                *)
(*                                                                         *)
(* A worker run may die, be cancelled or fail anywhere; the budget         *)
(* MaxFaults bounds how often, MaxOps bounds the operators' requests.      *)
(***************************************************************************)
EXTENDS Naturals, Sequences, FiniteSets

CONSTANTS
  Rows,              \* ids of send_history rows
  NoRow,             \* the id held by an idle worker or session
  Workers,           \* concurrent executions of send_history / due_send_history
  Sessions,          \* concurrent HTTP requests, each with its own DB session
  MaxAttempts,       \* settings.send_retry_max_attempts
  OperatorOps,       \* which operator requests occur in this environment
  LatestEnd,         \* oldest age of a lease whose worker may still be running
  SerialMaintenance, \* release, cancel and retry never overlap one another
  MaxFaults,         \* bound: crashes, cancellations and local errors
  MaxOps,            \* bound: operator requests
  AgingBound         \* bound: the last lease of a row that grows old

LockAges == {"none", "live", "expired", "stale"}
AllOps == {"cancel", "retry", "release", "replay", "deactivate"}

ASSUME RowsAssumption == NoRow \notin Rows
ASSUME SessionsAssumption == IsFiniteSet(Sessions)
ASSUME LimitsAssumption ==
  /\ MaxAttempts \in Nat \ {0}
  /\ MaxFaults \in Nat /\ MaxOps \in Nat /\ AgingBound \in Nat
ASSUME EnvironmentAssumption ==
  /\ OperatorOps \subseteq AllOps
  /\ LatestEnd \in LockAges \ {"none"}
  /\ SerialMaintenance \in BOOLEAN

VARIABLES
  rows,       \* the send_history table
  tasks,      \* rows with a send_history message in the task stream
  wk,         \* the worker runs
  sess,       \* the HTTP requests
  log,        \* the send_attempts table: per row, the attempts recorded
  delivered,  \* how often Telegram accepted the row's message
  cooling,    \* rows Telegram deferred whose retry_after has not elapsed
  inactive,   \* rows whose bot is missing or inactive
  faults, ops \* consumption of MaxFaults and MaxOps

vars == <<rows, tasks, wk, sess, log, delivered, cooling, inactive, faults, ops>>

-----------------------------------------------------------------------------
(* The row and what a commit writes.                                       *)

Ready == {"queued", "deferred"}
Cancellable == {"created", "queued", "deferred"}
Leasable == {"queued", "deferred", "created"}
\* Mutant: every settled row but a cancelled one may be retried.
RetryableSucceeded == {"failed", "dead_letter", "blocked", "succeeded"}
Retryable == {"failed", "dead_letter", "blocked"}
Settled == {"succeeded", "failed", "cancelled", "dead_letter", "blocked"}
Status == {"absent", "sending"} \cup Leasable \cup Settled

Row == [status : Status,
        attempt_count : Nat,
        next_retry_at : {"none", "past", "future"},
        lock_expires_at : LockAges,
        queued_task_id : BOOLEAN]

AbsentRow == [status |-> "absent", attempt_count |-> 0, next_retry_at |-> "none",
              lock_expires_at |-> "none", queued_task_id |-> FALSE]

\* The unit of work writes a column exactly when the session changed it.
Column(db, read, new) == IF new # read THEN new ELSE db

\* Mutant: the whole row object is written, unchanged columns too.
OrmWriteWhole(db, read, new) == new
OrmWrite(db, read, new) ==
  [status |-> Column(db.status, read.status, new.status),
   attempt_count |-> Column(db.attempt_count, read.attempt_count, new.attempt_count),
   next_retry_at |-> Column(db.next_retry_at, read.next_retry_at, new.next_retry_at),
   lock_expires_at |-> Column(db.lock_expires_at, read.lock_expires_at, new.lock_expires_at),
   queued_task_id |-> Column(db.queued_task_id, read.queued_task_id, new.queued_task_id)]

\* The mark_* methods: what the session's copy of the row becomes.
Marked(row, status) == [row EXCEPT !.status = status, !.lock_expires_at = "none"]

MarkSucceeded(row) == Marked(row, "succeeded")
MarkFailed(row) == Marked(row, "failed")
MarkBlocked(row) == Marked(row, "blocked")
MarkDeadLetter(row) == Marked(row, "dead_letter")
MarkDeferred(row, when) == [Marked(row, "deferred") EXCEPT !.next_retry_at = when]
MarkCancelled(row) ==
  [Marked(row, "cancelled") EXCEPT !.queued_task_id = FALSE, !.next_retry_at = "none"]
MarkQueued(row) == [row EXCEPT !.status = "queued", !.queued_task_id = TRUE]
\* Mutant: a status outside the enumeration.
MarkRetriedUnknown(row) == [Marked(row, "retrying") EXCEPT !.next_retry_at = "none"]
MarkRetried(row) ==
  [Marked(row, "queued") EXCEPT !.queued_task_id = FALSE, !.next_retry_at = "none"]

\* Mutants: a lease that forgets the status, or next_retry_at.
CanLeaseAnyStatus(row) == row.next_retry_at # "future" /\ row.lock_expires_at # "live"
CanLeaseEarly(row) == row.status \in Leasable /\ row.lock_expires_at # "live"
\* Mutant: a lease without an expiry.
LeasedForever(row) ==
  [row EXCEPT !.status = "sending", !.attempt_count = row.attempt_count + 1]

\* WHERE of acquire_due_lease, and the row after mark_sending.
CanLease(row) ==
  /\ row.status \in Leasable
  /\ row.next_retry_at # "future"
  /\ row.lock_expires_at # "live"

Leased(row) ==
  [row EXCEPT !.status = "sending", !.lock_expires_at = "live",
              !.attempt_count = row.attempt_count + 1]

\* list_ready_for_lease and list_stale_locks; the scheduler asks with its grace.
ReadyRows ==
  {r \in Rows : /\ rows[r].status \in Ready
                /\ rows[r].next_retry_at # "future"
                /\ rows[r].lock_expires_at # "live"}

\* Mutant: the expiry is not compared with the clock.
StaleLocksAnyAge(ages) == {r \in Rows : rows[r].status = "sending"}
StaleLocks(ages) ==
  {r \in Rows : rows[r].status = "sending" /\ rows[r].lock_expires_at \in ages}

\* Mutant: the lock is cleared but the status is kept.
ReleasedLockOnly(stale) ==
  [r \in Rows |-> IF r \in stale THEN [rows[r] EXCEPT !.lock_expires_at = "none"] ELSE rows[r]]

\* release_stale_locks: every row it read as stale, whatever the row is now.
Released(stale) ==
  [r \in Rows |-> IF r \in stale
                  THEN [rows[r] EXCEPT !.status = "queued", !.lock_expires_at = "none"]
                  ELSE rows[r]]

\* _bounded_backoff and retry_after are at least a second with the default settings.
RetryDue == "future"

-----------------------------------------------------------------------------
(* Processes.                                                              *)

WorkerPc == {"idle", "releasing", "looping", "leased", "accepted", "notifying"}
IdleWorker == [pc |-> "idle", row |-> NoRow, snap |-> AbsentRow, src |-> "due",
               todo |-> {}, stale |-> {}]

SessionOp == {"idle", "enqueue", "mark", "sync", "synced",
              "cancel", "retry", "restore", "release"}
IdleSession == [op |-> "idle", row |-> NoRow, snap |-> AbsentRow, prev |-> "none",
                stale |-> {}]

Run == [pc : WorkerPc, row : Rows \cup {NoRow}, snap : Row, src : {"task", "due"},
        todo : SUBSET Rows, stale : SUBSET Rows]
Handler == [op : SessionOp, row : Rows \cup {NoRow}, snap : Row,
            prev : {"none", "past", "future"}, stale : SUBSET Rows]

Outcome == {"succeeded", "deferred", "blocked", "dead_letter", "interrupted"}

InFlight(w) == wk[w].pc \in {"leased", "accepted"}
Attempt(w) == wk[w].snap.attempt_count

\* Sessions between the read and the write of a maintenance operation.
MaintenanceFree ==
  SerialMaintenance =>
    /\ \A s \in Sessions : sess[s].op \notin {"cancel", "retry", "release"}
    /\ \A w \in Workers : wk[w].pc # "releasing"

Fault == faults < MaxFaults /\ faults' = faults + 1
Operator(op) == op \in OperatorOps /\ ops < MaxOps /\ ops' = ops + 1

TypeOK ==
  /\ rows \in [Rows -> Row]
  /\ tasks \subseteq Rows
  /\ wk \in [Workers -> Run]
  /\ sess \in [Sessions -> Handler]
  /\ log \in [Rows -> Seq([attempt : Nat, outcome : Outcome])]
  /\ delivered \in [Rows -> Nat]
  /\ cooling \subseteq Rows
  /\ inactive \subseteq Rows
  /\ faults \in Nat /\ ops \in Nat
  /\ \A w \in Workers : wk[w].pc \in {"leased", "accepted", "notifying"} => wk[w].row \in Rows
  /\ \A s \in Sessions : sess[s].op \notin {"idle", "release"} => sess[s].row \in Rows

Init ==
  /\ rows = [r \in Rows |-> AbsentRow]
  /\ tasks = {}
  /\ wk = [w \in Workers |-> IdleWorker]
  /\ sess = [s \in Sessions |-> IdleSession]
  /\ log = [r \in Rows |-> <<>>]
  /\ delivered = [r \in Rows |-> 0]
  /\ cooling = {} /\ inactive = {}
  /\ faults = 0 /\ ops = 0

-----------------------------------------------------------------------------
(* HTTP requests.                                                          *)

Hold(s, op, r, snap, prev) ==
  sess' = [sess EXCEPT ![s] = [op |-> op, row |-> r, snap |-> snap, prev |-> prev,
                               stale |-> {}]]
Answer(s) == sess' = [sess EXCEPT ![s] = IdleSession]
Commit(s, new) ==
  rows' = [rows EXCEPT ![sess[s].row] = OrmWrite(@, sess[s].snap, new)]

\* _queue_or_send: insert and commit the row; a row due later is left to the scheduler.
CreateHistory(s, r, mode) ==
  LET new == [AbsentRow EXCEPT !.status = IF mode = "sync" THEN "created" ELSE "queued",
                               !.next_retry_at = IF mode = "later" THEN "future" ELSE "none"]
  IN /\ sess[s].op = "idle" /\ rows[r].status = "absent" /\ r \notin inactive
     /\ rows' = [rows EXCEPT ![r] = new]
     /\ \/ mode = "sync" /\ Hold(s, "sync", r, new, "none")
        \/ mode = "now" /\ Hold(s, "enqueue", r, new, "none")
        \/ mode = "later" /\ UNCHANGED sess
     /\ UNCHANGED <<tasks, wk, log, delivered, cooling, inactive, faults, ops>>

\* A repeated Idempotency-Key returns the row as it is and enqueues it if needed.
ReplayHistory(s, r) ==
  /\ sess[s].op = "idle" /\ Operator("replay")
  /\ rows[r].status = "queued" /\ ~rows[r].queued_task_id /\ rows[r].next_retry_at # "future"
  /\ Hold(s, "enqueue", r, rows[r], "none")
  /\ UNCHANGED <<rows, tasks, wk, log, delivered, cooling, inactive, faults>>

\* _enqueue_if_needed: first the stream, then, in a commit of its own, the task id.
EnqueueTask(s) ==
  /\ sess[s].op = "enqueue"
  /\ tasks' = tasks \cup {sess[s].row}
  /\ sess' = [sess EXCEPT ![s].op = "mark"]
  /\ UNCHANGED <<rows, wk, log, delivered, cooling, inactive, faults, ops>>

CommitTaskId(s) ==
  /\ sess[s].op = "mark"
  /\ Commit(s, MarkQueued(sess[s].snap))
  /\ Answer(s)
  /\ UNCHANGED <<tasks, wk, log, delivered, cooling, inactive, faults, ops>>

\* What a Telegram call may do.  A timed out call is repeated at the fallback URL and a
\* lost answer is an error to the caller, though Telegram took the message.
TakenBy(r, times) == delivered' = [delivered EXCEPT ![r] = @ + times]
Accepted(r) == (TakenBy(r, 1) /\ UNCHANGED faults) \/ (TakenBy(r, 2) /\ Fault)
Unheard(r) == UNCHANGED <<delivered, faults>> \/ (TakenBy(r, 1) /\ Fault)

\* _send_existing_row: the request itself calls Telegram, without a lease.
SyncAccepted(s) ==
  /\ sess[s].op = "sync"
  /\ Accepted(sess[s].row)
  /\ sess' = [sess EXCEPT ![s].op = "synced"]
  /\ UNCHANGED <<rows, tasks, wk, log, cooling, inactive, ops>>

SyncRefused(s) ==
  /\ sess[s].op = "sync"
  /\ Unheard(sess[s].row)
  /\ Commit(s, MarkFailed(sess[s].snap))
  /\ Answer(s)
  /\ UNCHANGED <<tasks, wk, log, cooling, inactive, ops>>

SyncSucceeded(s) ==
  /\ sess[s].op = "synced"
  /\ Commit(s, MarkSucceeded(sess[s].snap))
  /\ Answer(s)
  /\ UNCHANGED <<tasks, wk, log, delivered, cooling, inactive, faults, ops>>

\* cancel_history: the status is checked on the row as read.
ReadForCancel(s, r) ==
  /\ sess[s].op = "idle" /\ MaintenanceFree /\ Operator("cancel")
  /\ rows[r].status \in Cancellable
  /\ Hold(s, "cancel", r, rows[r], "none")
  /\ UNCHANGED <<rows, tasks, wk, log, delivered, cooling, inactive, faults>>

CommitCancel(s) ==
  /\ sess[s].op = "cancel"
  /\ Commit(s, MarkCancelled(sess[s].snap))
  /\ Answer(s)
  /\ UNCHANGED <<tasks, wk, log, delivered, cooling, inactive, faults, ops>>

\* retry_history; the reliability endpoint then puts the old next_retry_at back.
ReadForRetry(s, r) ==
  /\ sess[s].op = "idle" /\ MaintenanceFree /\ Operator("retry")
  /\ rows[r].status \in Retryable
  /\ Hold(s, "retry", r, rows[r], rows[r].next_retry_at)
  /\ UNCHANGED <<rows, tasks, wk, log, delivered, cooling, inactive, faults>>

CommitRetry(s) ==
  LET new == MarkRetried(sess[s].snap)
  IN /\ sess[s].op = "retry"
     /\ Commit(s, new)
     /\ \/ Hold(s, "enqueue", sess[s].row, new, "none")
        \/ sess[s].prev # "none" /\ Hold(s, "restore", sess[s].row, new, sess[s].prev)
     /\ UNCHANGED <<tasks, wk, log, delivered, cooling, inactive, faults, ops>>

CommitRestore(s) ==
  LET new == [sess[s].snap EXCEPT !.next_retry_at = sess[s].prev]
  IN /\ sess[s].op = "restore"
     /\ Commit(s, new)
     /\ \/ sess[s].prev = "past" /\ Hold(s, "enqueue", sess[s].row, new, "none")
        \/ sess[s].prev = "future" /\ Answer(s)
     /\ UNCHANGED <<tasks, wk, log, delivered, cooling, inactive, faults, ops>>

\* POST /reliability/stale-locks/release: no grace.
ReadForRelease(s) ==
  LET stale == StaleLocks({"expired", "stale"})
  IN /\ sess[s].op = "idle" /\ MaintenanceFree /\ Operator("release")
     /\ stale # {}
     /\ sess' = [sess EXCEPT ![s] = [IdleSession EXCEPT !.op = "release", !.stale = stale]]
     /\ UNCHANGED <<rows, tasks, wk, log, delivered, cooling, inactive, faults>>

CommitRelease(s) ==
  /\ sess[s].op = "release"
  /\ rows' = Released(sess[s].stale)
  /\ Answer(s)
  /\ UNCHANGED <<tasks, wk, log, delivered, cooling, inactive, faults, ops>>

\* The request ends before its next write: disconnect, crash, enqueue failure.
SessionDies(s) ==
  /\ sess[s].op # "idle" /\ Fault
  /\ Answer(s)
  /\ UNCHANGED <<rows, tasks, wk, log, delivered, cooling, inactive, ops>>

DeactivateBot(r) ==
  /\ r \notin inactive /\ Operator("deactivate")
  /\ inactive' = inactive \cup {r}
  /\ UNCHANGED <<rows, tasks, wk, sess, log, delivered, cooling, faults>>

-----------------------------------------------------------------------------
(* Worker runs.                                                            *)

\* The stream message is acknowledged when the run ends, normally or by an exception.
Acknowledged(w) == IF wk[w].src = "task" THEN tasks \ {wk[w].row} ELSE tasks
EndRun(w) == wk' = [wk EXCEPT ![w] = IdleWorker] /\ tasks' = Acknowledged(w)
EndRow(w) ==
  /\ wk' = [wk EXCEPT ![w] =
              IF wk[w].src = "task" THEN IdleWorker
              ELSE [IdleWorker EXCEPT !.pc = "looping", !.todo = wk[w].todo]]
  /\ tasks' = Acknowledged(w)

\* A run gets rows from the stream one at a time, or from the list it read.
Takes(w, r, src) ==
  \/ src = "task" /\ wk[w].pc = "idle" /\ r \in tasks
  \/ src = "due" /\ wk[w].pc = "looping" /\ r \in wk[w].todo

\* run_due_send_history: release stale locks, commit, list what is due, process it.
StartDueRun(w) ==
  /\ wk[w].pc = "idle" /\ MaintenanceFree
  /\ wk' = [wk EXCEPT ![w] = [IdleWorker EXCEPT !.pc = "releasing",
                                                !.stale = StaleLocks({"stale"})]]
  /\ UNCHANGED <<rows, tasks, sess, log, delivered, cooling, inactive, faults, ops>>

CommitStaleRelease(w) ==
  /\ wk[w].pc = "releasing"
  /\ rows' = Released(wk[w].stale)
  /\ wk' = [wk EXCEPT ![w] = [IdleWorker EXCEPT !.pc = "looping", !.todo = ReadyRows']]
  /\ UNCHANGED <<tasks, sess, log, delivered, cooling, inactive, faults, ops>>

EndDueRun(w) ==
  /\ wk[w].pc = "looping" /\ wk[w].todo = {}
  /\ wk' = [wk EXCEPT ![w] = IdleWorker]
  /\ UNCHANGED <<rows, tasks, sess, log, delivered, cooling, inactive, faults, ops>>

\* process_queued_send up to its first commit: lease and attempt number together.
AcquireLease(w, r, src) ==
  /\ Takes(w, r, src)
  /\ CanLease(rows[r]) /\ r \notin inactive
  /\ rows' = [rows EXCEPT ![r] = Leased(@)]
  /\ wk' = [wk EXCEPT ![w] = [pc |-> "leased", row |-> r, snap |-> Leased(rows[r]),
                              src |-> src, todo |-> wk[w].todo \ {r}, stale |-> {}]]
  /\ UNCHANGED <<tasks, sess, log, delivered, cooling, inactive, faults, ops>>

\* Settled, not due, or leased by somebody else: the row is returned untouched.
SkipRow(w, r, src) ==
  /\ Takes(w, r, src)
  /\ ~CanLease(rows[r])
  /\ \/ src = "task" /\ tasks' = tasks \ {r} /\ UNCHANGED wk
     \/ src = "due" /\ wk' = [wk EXCEPT ![w].todo = @ \ {r}] /\ UNCHANGED tasks
  /\ UNCHANGED <<rows, sess, log, delivered, cooling, inactive, faults, ops>>

\* _bot_token raises: the lease is rolled back and the exception ends the whole run.
BotMissing(w, r, src) ==
  /\ Takes(w, r, src)
  /\ CanLease(rows[r]) /\ r \in inactive
  /\ wk' = [wk EXCEPT ![w] = IdleWorker]
  /\ tasks' = IF src = "task" THEN tasks \ {r} ELSE tasks
  /\ UNCHANGED <<rows, sess, log, delivered, cooling, inactive, faults, ops>>

\* Record the attempt, mark the row, commit; then the next row of the run.
RecordAttempt(w, outcome) ==
  log' = [log EXCEPT ![wk[w].row] = Append(@, [attempt |-> Attempt(w), outcome |-> outcome])]
FinishRow(w, outcome, new) ==
  /\ rows' = [rows EXCEPT ![wk[w].row] = OrmWrite(@, wk[w].snap, new)]
  /\ RecordAttempt(w, outcome)
  /\ EndRow(w)

\* The limiter refuses, or anything but a Telegram error is raised (an unreadable answer is).
DeferLocally(w) ==
  /\ wk[w].pc = "leased" /\ Fault
  /\ UNCHANGED delivered \/ TakenBy(wk[w].row, 1)
  /\ FinishRow(w, "deferred", MarkDeferred(wk[w].snap, RetryDue))
  /\ UNCHANGED <<sess, cooling, inactive, ops>>

\* A retryable Telegram error: 429, 5xx, or no answer.
TelegramTransient(w) ==
  LET r == wk[w].row
      exhausted == Attempt(w) >= MaxAttempts
  IN /\ wk[w].pc = "leased"
     /\ Unheard(r)
     /\ \/ exhausted /\ FinishRow(w, "dead_letter", MarkDeadLetter(wk[w].snap))
                     /\ UNCHANGED cooling
        \/ ~exhausted /\ FinishRow(w, "deferred", MarkDeferred(wk[w].snap, RetryDue))
                      /\ cooling' = cooling \cup {r}
     /\ UNCHANGED <<sess, inactive, ops>>

TelegramPermanent(w) ==
  /\ wk[w].pc = "leased"
  /\ FinishRow(w, "blocked", MarkBlocked(wk[w].snap))
  /\ UNCHANGED <<sess, delivered, cooling, inactive, faults, ops>>

TelegramAccepts(w) ==
  /\ wk[w].pc = "leased"
  /\ Accepted(wk[w].row)
  /\ wk' = [wk EXCEPT ![w].pc = "accepted"]
  /\ UNCHANGED <<rows, tasks, sess, log, cooling, inactive, ops>>

\* Mutants: the attempt is recorded without looking for the one already there, or not at all
\* once any attempt of the row has succeeded.
RecordSuccessAlways(w) == RecordAttempt(w, "succeeded")
RecordSuccessOfRow(w) ==
  IF \E i \in DOMAIN log[wk[w].row] : log[wk[w].row][i].outcome = "succeeded"
  THEN UNCHANGED log
  ELSE RecordAttempt(w, "succeeded")

\* _record_success_attempt_once
RecordSuccessOnce(w) ==
  IF \E i \in DOMAIN log[wk[w].row] :
        log[wk[w].row][i] = [attempt |-> Attempt(w), outcome |-> "succeeded"]
  THEN UNCHANGED log
  ELSE RecordAttempt(w, "succeeded")

\* Mutant: the event and the callback go out, the commit does not happen.
CompleteSuccessUncommitted(w) ==
  /\ wk[w].pc = "accepted"
  /\ wk' = [wk EXCEPT ![w].pc = "notifying", ![w].snap = MarkSucceeded(wk[w].snap)]
  /\ UNCHANGED <<rows, tasks, sess, log, delivered, cooling, inactive, faults, ops>>

\* _complete_queued_success: one commit, then the event and the callback.
CompleteSuccess(w) ==
  LET new == MarkSucceeded(wk[w].snap)
  IN /\ wk[w].pc = "accepted"
     /\ rows' = [rows EXCEPT ![wk[w].row] = OrmWrite(@, wk[w].snap, new)]
     /\ RecordSuccessOnce(w)
     /\ wk' = [wk EXCEPT ![w].pc = "notifying", ![w].snap = new]
     /\ UNCHANGED <<tasks, sess, delivered, cooling, inactive, faults, ops>>

Notified(w) ==
  /\ wk[w].pc = "notifying"
  /\ EndRow(w)
  /\ UNCHANGED <<rows, sess, log, delivered, cooling, inactive, faults, ops>>

\* Cancelled after that commit: the completion is run again and the run ends.
CancelledWhileNotifying(w) ==
  /\ wk[w].pc = "notifying" /\ Fault
  /\ rows' = [rows EXCEPT ![wk[w].row] = OrmWrite(@, wk[w].snap, MarkSucceeded(wk[w].snap))]
  /\ RecordSuccessOnce(w)
  /\ EndRun(w)
  /\ UNCHANGED <<sess, delivered, cooling, inactive, ops>>

\* Cancelled while leased: the attempt is recorded, the row keeps its lease.
CancelledWhileSending(w) ==
  /\ wk[w].pc = "leased" /\ Fault
  /\ UNCHANGED delivered \/ TakenBy(wk[w].row, 1)
  /\ RecordAttempt(w, "interrupted")
  /\ EndRun(w)
  /\ UNCHANGED <<rows, sess, cooling, inactive, ops>>

\* The finishing transaction fails: rolled back, the row keeps its lease.
FinishFails(w) ==
  /\ InFlight(w) /\ Fault
  /\ EndRun(w)
  /\ UNCHANGED <<rows, sess, log, delivered, cooling, inactive, ops>>

\* The process dies; an unacknowledged stream message stays for redelivery.
WorkerDies(w) ==
  /\ wk[w].pc # "idle" /\ Fault
  /\ wk' = [wk EXCEPT ![w] = IdleWorker]
  /\ UNCHANGED <<rows, tasks, sess, log, delivered, cooling, inactive, ops>>

-----------------------------------------------------------------------------
(* Time.                                                                   *)

Older == [none |-> "none", live |-> "expired", expired |-> "stale", stale |-> "stale"]
Overrun(age) == \* a lease of this age whose worker still runs is one the bound excludes
  \/ age = "stale" /\ LatestEnd # "stale"
  \/ age = "expired" /\ LatestEnd = "live"

LeaseAges(r) ==
  LET age == Older[rows[r].lock_expires_at]
  IN /\ rows[r].lock_expires_at \in {"live", "expired"}
     /\ rows[r].attempt_count <= AgingBound
     /\ (\E w \in Workers : InFlight(w) /\ wk[w].row = r) => ~Overrun(age)
     /\ rows' = [rows EXCEPT ![r].lock_expires_at = age]
     /\ UNCHANGED <<tasks, wk, sess, log, delivered, cooling, inactive, faults, ops>>

Ripen(r) ==
  /\ rows[r].next_retry_at = "future"
  /\ rows' = [rows EXCEPT ![r].next_retry_at = "past"]
  /\ cooling' = cooling \ {r}
  /\ UNCHANGED <<tasks, wk, sess, log, delivered, inactive, faults, ops>>

\* The next_retry_at a retry request carries ripens by itself.
RipenHeld(s) ==
  /\ sess[s].prev = "future"
  /\ sess' = [sess EXCEPT ![s].prev = "past"]
  /\ UNCHANGED <<rows, tasks, wk, log, delivered, cooling, inactive, faults, ops>>

-----------------------------------------------------------------------------

SessionStep(s) ==
  \/ EnqueueTask(s) \/ CommitTaskId(s)
  \/ SyncAccepted(s) \/ SyncRefused(s) \/ SyncSucceeded(s)
  \/ CommitCancel(s) \/ CommitRetry(s) \/ CommitRestore(s) \/ CommitRelease(s)

Request(s) ==
  \/ \E r \in Rows : \/ \E mode \in {"sync", "now", "later"} : CreateHistory(s, r, mode)
                     \/ ReplayHistory(s, r)
                     \/ ReadForCancel(s, r)
                     \/ ReadForRetry(s, r)
  \/ ReadForRelease(s)

RunStep(w) ==
  \/ StartDueRun(w) \/ CommitStaleRelease(w) \/ EndDueRun(w)
  \/ \E r \in Rows, src \in {"task", "due"} :
        AcquireLease(w, r, src) \/ SkipRow(w, r, src) \/ BotMissing(w, r, src)
  \/ TelegramTransient(w) \/ TelegramPermanent(w) \/ TelegramAccepts(w)
  \/ CompleteSuccess(w) \/ Notified(w)

RunFault(w) ==
  \/ DeferLocally(w) \/ CancelledWhileNotifying(w) \/ CancelledWhileSending(w)
  \/ FinishFails(w) \/ WorkerDies(w)

Next ==
  \/ \E s \in Sessions : Request(s) \/ SessionStep(s) \/ SessionDies(s) \/ RipenHeld(s)
  \/ \E w \in Workers : RunStep(w) \/ RunFault(w)
  \/ \E r \in Rows : LeaseAges(r) \/ Ripen(r) \/ DeactivateBot(r)

Spec == Init /\ [][Next]_vars

(***************************************************************************)
(* A request handler and a worker run that started go on unless they die;  *)
(* the scheduler starts a due run every interval; time passes.  Nobody has *)
(* to make a request.                                                      *)
(***************************************************************************)
Fairness ==
  /\ \A s \in Sessions : WF_vars(SessionStep(s)) /\ WF_vars(RipenHeld(s))
  /\ \A w \in Workers : WF_vars(RunStep(w))
  /\ \A r \in Rows : WF_vars(LeaseAges(r)) /\ WF_vars(Ripen(r))

FairSpec == Spec /\ Fairness

=============================================================================
