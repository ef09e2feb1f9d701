------------------------- MODULE SendQueueExclusion -------------------------
(***************************************************************************)
(* Proof that a row has at most one worker, in the environments where it   *)
(* is true: the operations that read rows and write them back without a    *)
(* compare-and-set do not overlap, and a worker run ends before any        *)
(* release may take its lease for a dead one.                              *)
(***************************************************************************)
EXTENDS SendQueueProofs

\* The scheduler waits out a grace before it releases a lock; the endpoint does not.
LeasesOutliveRuns ==
  /\ SerialMaintenance
  /\ \/ LatestEnd = "live"
     \/ LatestEnd = "expired" /\ "release" \notin OperatorOps

-----------------------------------------------------------------------------
(* The inductive invariant.                                                *)

Held(r) == \E w \in Workers : InFlight(w) /\ wk[w].row = r

\* A read-then-write operation is open: at most one at a time.
Open(h) == h.op \in {"cancel", "retry", "release"}
OneOpen ==
  /\ \A s, t \in Sessions : Open(sess[s]) /\ Open(sess[t]) => s = t
  /\ \A s \in Sessions, w \in Workers : Open(sess[s]) => wk[w].pc # "releasing"
  /\ \A v, w \in Workers : wk[v].pc = "releasing" /\ wk[w].pc = "releasing" => v = w
  /\ \A s \in Sessions : sess[s].op = "release" => "release" \in OperatorOps

\* Only a row being sent, or cancelled while it was, has a lock.
LocksOfSendingRows ==
  \A r \in Rows : rows[r].status \notin {"sending", "cancelled"} =>
                  rows[r].lock_expires_at = "none"

\* A run in flight still has its lease: the row is locked, and not by a lease too old.
Leasing(row) ==
  /\ row.status \in {"sending", "cancelled"}
  /\ row.lock_expires_at # "none" /\ ~Overrun(row.lock_expires_at)
LeaseHeld ==
  \A w \in Workers : InFlight(w) =>
    /\ wk[w].snap.lock_expires_at = "live"
    /\ Leasing(rows[wk[w].row])

\* What is still true, at its write, of the row a handler read.
Entered(r) == rows[r].status \notin {"absent", "created"}
HandlerRow(h) ==
  /\ h.op \in {"enqueue", "mark", "restore", "sync", "synced", "cancel", "retry"} =>
       h.snap.lock_expires_at = "none"
  /\ h.op \in {"enqueue", "mark", "restore"} => Entered(h.row)
  /\ h.op \in {"sync", "synced"} =>
       rows[h.row].status \in {"created", "cancelled"} /\ rows[h.row].lock_expires_at = "none"
  /\ h.op \in {"sync", "synced"} => ~Held(h.row)
  /\ h.op = "retry" => rows[h.row].status \in Retryable
  /\ h.op = "release" => \A r \in h.stale : rows[r].status = "sending" /\ ~Held(r)
Syncing(h) == h.op \in {"sync", "synced"}
SyncDistinct ==
  \A s, t \in Sessions :
    Syncing(sess[s]) /\ Syncing(sess[t]) /\ s # t => sess[s].row # sess[t].row
HandlersSound == (\A s \in Sessions : HandlerRow(sess[s])) /\ SyncDistinct

\* Rows on their way to a worker have been queued; rows about to be released have none.
RunRows(run) ==
  /\ \A r \in run.todo : Entered(r)
  /\ run.pc = "releasing" => \A r \in run.stale : rows[r].status = "sending" /\ ~Held(r)
RunsSound ==
  /\ \A w \in Workers : RunRows(wk[w])
  /\ \A r \in tasks : Entered(r)

ExclusionInv ==
  /\ TypeOK /\ SnapsSound
  /\ OneOpen /\ LocksOfSendingRows /\ LeaseHeld /\ HandlersSound /\ RunsSound
  /\ WorkerExclusion

-----------------------------------------------------------------------------
(* Steps that change no status and no lock.                                *)

\* Closing a window, or leaving all of them as they are.
LEMMA OneOpenKept ==
  ASSUME OneOpen,
         \A s \in Sessions : Open(sess'[s]) => sess'[s].op = sess[s].op,
         \A w \in Workers : wk'[w].pc = "releasing" => wk[w].pc = "releasing"
  PROVE  OneOpen'
BY DEF OneOpen, Open

\* A window opens only when none is open.
LEMMA HandlerOpens ==
  ASSUME LeasesOutliveRuns, MaintenanceFree, OneOpen, NEW s \in Sessions, UNCHANGED wk,
         \A t \in Sessions \ {s} : sess'[t] = sess[t],
         sess'[s].op = "release" => "release" \in OperatorOps
  PROVE  OneOpen'
BY DEF LeasesOutliveRuns, MaintenanceFree, OneOpen, Open

LEMMA RunOpens ==
  ASSUME LeasesOutliveRuns, MaintenanceFree, OneOpen, NEW w \in Workers, UNCHANGED sess,
         \A v \in Workers \ {w} : wk'[v] = wk[v]
  PROVE  OneOpen'
BY DEF LeasesOutliveRuns, MaintenanceFree, OneOpen, Open

Quiet == \A r \in Rows : /\ rows'[r].status = rows[r].status
                        /\ rows'[r].lock_expires_at = rows[r].lock_expires_at

\* No run gets a lease; what a handler or a run newly holds is sound as the rows are now.
LEMMA QuietStep ==
  ASSUME ExclusionInv, TypeOK', SnapsSound', OneOpen', Quiet,
         \A w \in Workers : InFlight(w)' =>
            InFlight(w) /\ wk'[w].row = wk[w].row /\ wk'[w].snap = wk[w].snap,
         \A s \in Sessions : sess'[s] = sess[s] \/ HandlerRow(sess'[s]),
         \A s \in Sessions : Syncing(sess'[s]) =>
            Syncing(sess[s]) /\ sess'[s].row = sess[s].row,
         \A w \in Workers : wk'[w] = wk[w] \/ RunRows(wk'[w]),
         \A r \in tasks' : r \in tasks \/ Entered(r)
  PROVE  ExclusionInv'
<1>1. \A r : Held(r)' => Held(r)
  BY DEF Held
<1>2. LocksOfSendingRows'
  BY DEF ExclusionInv, LocksOfSendingRows, Quiet
<1>3. LeaseHeld'
  <2>1. \A w \in Workers : InFlight(w)' => wk[w].row \in Rows
    BY DEF ExclusionInv, TypeOK, InFlight
  <2> QED BY <2>1 DEF ExclusionInv, LeaseHeld, Leasing, Quiet
<1>4. HandlersSound'
  <2>1. ASSUME NEW s \in Sessions
        PROVE  HandlerRow(sess[s])'
    <3>1. HandlerRow(sess'[s])
      BY DEF ExclusionInv, HandlersSound
    <3>2. /\ sess'[s].op \notin {"idle", "release"} => sess'[s].row \in Rows
          /\ sess'[s].stale \subseteq Rows
      BY DEF TypeOK, Handler
    <3> QED BY <1>1, <3>1, <3>2 DEF HandlerRow, Quiet, Entered
  <2> QED BY <2>1 DEF ExclusionInv, HandlersSound, SyncDistinct
<1>5. RunsSound'
  <2>1. ASSUME NEW w \in Workers
        PROVE  RunRows(wk[w])'
    <3>1. RunRows(wk'[w])
      BY DEF ExclusionInv, RunsSound
    <3>2. wk'[w].todo \subseteq Rows /\ wk'[w].stale \subseteq Rows
      BY DEF TypeOK, Run
    <3> QED BY <1>1, <3>1, <3>2 DEF RunRows, Quiet, Entered
  <2>2. \A r \in tasks' : Entered(r)'
    BY DEF ExclusionInv, RunsSound, TypeOK, Entered, Quiet
  <2> QED BY <2>1, <2>2 DEF RunsSound
<1>6. WorkerExclusion'
  BY DEF ExclusionInv, WorkerExclusion
<1> QED BY <1>2, <1>3, <1>4, <1>5, <1>6 DEF ExclusionInv

LEMMA QuietHandler ==
  ASSUME ExclusionInv, TypeOK', SnapsSound', OneOpen', Quiet, UNCHANGED wk,
         NEW s \in Sessions, NEW h, sess' = [sess EXCEPT ![s] = h], HandlerRow(h),
         Syncing(h) => Syncing(sess[s]) /\ h.row = sess[s].row,
         \A r \in tasks' : r \in tasks \/ Entered(r)
  PROVE  ExclusionInv'
<1>1. \A t \in Sessions : sess'[t] = sess[t] \/ (t = s /\ sess'[t] = h)
  BY DEF ExclusionInv, TypeOK
<1>2. \A t \in Sessions : sess'[t] = sess[t] \/ HandlerRow(sess'[t])
  BY <1>1
<1>3. \A t \in Sessions : Syncing(sess'[t]) => Syncing(sess[t]) /\ sess'[t].row = sess[t].row
  BY <1>1
<1>4. \A w \in Workers : InFlight(w)' => InFlight(w)
  BY DEF InFlight
<1> QED BY <1>2, <1>3, <1>4, QuietStep

LEMMA QuietRun ==
  ASSUME ExclusionInv, TypeOK', SnapsSound', OneOpen', Quiet, UNCHANGED sess,
         NEW w \in Workers, NEW run, wk' = [wk EXCEPT ![w] = run], RunRows(run),
         run.pc \in {"leased", "accepted"} =>
            InFlight(w) /\ run.row = wk[w].row /\ run.snap = wk[w].snap,
         tasks' \subseteq tasks
  PROVE  ExclusionInv'
<1>1. \A v \in Workers : wk'[v] = wk[v] \/ (v = w /\ wk'[v] = run)
  BY DEF ExclusionInv, TypeOK
<1>2. \A v \in Workers : wk'[v] = wk[v] \/ RunRows(wk'[v])
  BY <1>1
<1>3. \A v \in Workers : InFlight(v)' =>
         InFlight(v) /\ wk'[v].row = wk[v].row /\ wk'[v].snap = wk[v].snap
  BY <1>1 DEF InFlight
<1> QED BY <1>2, <1>3, QuietStep

\* Writing back a row whose status and lock the session left alone.
LEMMA QuietWrite ==
  ASSUME TypeOK, NEW r \in Rows, NEW read, NEW new,
         new.status = read.status, new.lock_expires_at = read.lock_expires_at,
         rows' = [rows EXCEPT ![r] = OrmWrite(@, read, new)]
  PROVE  Quiet
<1>1. /\ OrmWrite(rows[r], read, new).status = rows[r].status
      /\ OrmWrite(rows[r], read, new).lock_expires_at = rows[r].lock_expires_at
  BY OrmWriteFields
<1> QED BY <1>1 DEF Quiet, TypeOK

LEMMA QuietRequests ==
  ASSUME LeasesOutliveRuns, ExclusionInv, TypeOK', SnapsSound', NEW s \in Sessions,
         \/ \E r \in Rows : ReplayHistory(s, r) \/ ReadForCancel(s, r) \/ ReadForRetry(s, r)
         \/ ReadForRelease(s)
  PROVE  ExclusionInv'
<1>1. Quiet /\ UNCHANGED <<wk, tasks>>
  BY DEF ReplayHistory, ReadForCancel, ReadForRetry, ReadForRelease, Quiet
<1>2. OneOpen /\ LocksOfSendingRows /\ LeaseHeld
  BY DEF ExclusionInv
<1>3. ASSUME NEW r \in Rows, ReplayHistory(s, r)
      PROVE  ExclusionInv'
  <2> DEFINE h == [op |-> "enqueue", row |-> r, snap |-> rows[r], prev |-> "none", stale |-> {}]
  <2>1. sess' = [sess EXCEPT ![s] = h]
    BY <1>3 DEF ReplayHistory, Hold
  <2>2. HandlerRow(h) /\ ~Syncing(h) /\ ~Open(h)
    BY <1>2, <1>3 DEF ReplayHistory, HandlerRow, LocksOfSendingRows, Entered, Syncing, Open
  <2> HIDE DEF h
  <2>3. OneOpen'
    BY <1>1, <1>2, <2>1, <2>2, OneOpenKept DEF ExclusionInv, TypeOK
  <2> QED BY <1>1, <2>1, <2>2, <2>3, QuietHandler
<1>4. ASSUME NEW r \in Rows, ReadForCancel(s, r)
      PROVE  ExclusionInv'
  <2> DEFINE h == [op |-> "cancel", row |-> r, snap |-> rows[r], prev |-> "none", stale |-> {}]
  <2>1. sess' = [sess EXCEPT ![s] = h] /\ h.op = "cancel" /\ MaintenanceFree
    BY <1>4 DEF ReadForCancel, Hold
  <2>2. HandlerRow(h) /\ ~Syncing(h)
    BY <1>2, <1>4 DEF ReadForCancel, HandlerRow, LocksOfSendingRows, Cancellable, Syncing
  <2> HIDE DEF h
  <2>3. OneOpen'
    BY <1>1, <1>2, <2>1, HandlerOpens DEF ExclusionInv, TypeOK
  <2> QED BY <1>1, <2>1, <2>2, <2>3, QuietHandler
<1>5. ASSUME NEW r \in Rows, ReadForRetry(s, r)
      PROVE  ExclusionInv'
  <2> DEFINE h == [op |-> "retry", row |-> r, snap |-> rows[r],
                   prev |-> rows[r].next_retry_at, stale |-> {}]
  <2>1. sess' = [sess EXCEPT ![s] = h] /\ h.op = "retry" /\ MaintenanceFree
    BY <1>5 DEF ReadForRetry, Hold
  <2>2. HandlerRow(h) /\ ~Syncing(h)
    BY <1>2, <1>5 DEF ReadForRetry, HandlerRow, LocksOfSendingRows, Retryable, Syncing
  <2> HIDE DEF h
  <2>3. OneOpen'
    BY <1>1, <1>2, <2>1, HandlerOpens DEF ExclusionInv, TypeOK
  <2> QED BY <1>1, <2>1, <2>2, <2>3, QuietHandler
<1>6. CASE ReadForRelease(s)
  <2> DEFINE stale == StaleLocks({"expired", "stale"})
             h == [IdleSession EXCEPT !.op = "release", !.stale = stale]
  <2>1. /\ sess' = [sess EXCEPT ![s] = h] /\ h.op = "release" /\ h.stale = stale
        /\ MaintenanceFree /\ "release" \in OperatorOps
    BY <1>6 DEF ReadForRelease, Operator, IdleSession
  <2>2. \A r \in stale : rows[r].status = "sending" /\ Overrun(rows[r].lock_expires_at)
    BY <2>1 DEF StaleLocks, Overrun, LeasesOutliveRuns
  <2>3. \A r \in stale : ~Held(r)
    BY <1>2, <2>2 DEF Held, LeaseHeld, Leasing
  <2> HIDE DEF stale, h
  <2>4. HandlerRow(h) /\ ~Syncing(h)
    BY <2>1, <2>2, <2>3 DEF HandlerRow, Syncing
  <2>5. OneOpen'
    BY <1>1, <1>2, <2>1, HandlerOpens DEF ExclusionInv, TypeOK
  <2> QED BY <1>1, <2>1, <2>4, <2>5, QuietHandler
<1> QED BY <1>3, <1>4, <1>5, <1>6

LEMMA IdleIsQuiet ==
  /\ HandlerRow(IdleSession) /\ ~Syncing(IdleSession) /\ ~Open(IdleSession)
  /\ RunRows(IdleWorker) /\ IdleWorker.pc = "idle"
BY DEF HandlerRow, Syncing, Open, RunRows, IdleSession, IdleWorker

\* A handler that ends, keeping or losing its window, holds nothing any more.
LEMMA QuietAnswer ==
  ASSUME ExclusionInv, TypeOK', SnapsSound', Quiet, UNCHANGED <<wk, tasks>>,
         NEW s \in Sessions, Answer(s)
  PROVE  ExclusionInv'
<1>1. sess' = [sess EXCEPT ![s] = IdleSession]
  BY DEF Answer
<1>2. OneOpen'
  BY <1>1, IdleIsQuiet, OneOpenKept DEF ExclusionInv, TypeOK
<1> QED BY <1>1, <1>2, IdleIsQuiet, QuietHandler

LEMMA QuietSessionSteps ==
  ASSUME LeasesOutliveRuns, ExclusionInv, TypeOK', SnapsSound', NEW s \in Sessions,
         \/ EnqueueTask(s) \/ CommitTaskId(s) \/ SyncAccepted(s) \/ CommitRestore(s)
         \/ SessionDies(s) \/ RipenHeld(s)
  PROVE  ExclusionInv'
<1>1. /\ OneOpen /\ HandlerRow(sess[s]) /\ HandlerSnap(sess[s])
      /\ sess[s] \in Handler /\ sess[s].snap \in Row
      /\ sess[s].op \notin {"idle", "release"} => sess[s].row \in Rows
  BY DEF ExclusionInv, HandlersSound, SnapsSound, TypeOK, Handler
<1>2. ASSUME NEW h, sess' = [sess EXCEPT ![s] = h], UNCHANGED wk, Open(h) => h.op = sess[s].op
      PROVE  OneOpen'
  BY <1>1, <1>2, OneOpenKept DEF ExclusionInv, TypeOK
<1>3. CASE EnqueueTask(s)
  <2> DEFINE h == [sess[s] EXCEPT !.op = "mark"]
  <2>1. /\ sess' = [sess EXCEPT ![s] = h] /\ Quiet /\ UNCHANGED wk
        /\ \A r \in tasks' : r \in tasks \/ Entered(r)
    BY <1>1, <1>3 DEF EnqueueTask, Quiet, HandlerRow, ExclusionInv, TypeOK
  <2>2. HandlerRow(h) /\ ~Syncing(h) /\ ~Open(h)
    BY <1>1, <1>3 DEF EnqueueTask, HandlerRow, Syncing, Open, Handler
  <2> HIDE DEF h
  <2> QED BY <1>2, <2>1, <2>2, QuietHandler
<1>4. CASE CommitTaskId(s)
  <2> DEFINE new == MarkQueued(sess[s].snap)
  <2>1. new.status = sess[s].snap.status /\ new.lock_expires_at = sess[s].snap.lock_expires_at
    BY <1>1, <1>4, MarkFields DEF CommitTaskId, HandlerSnap
  <2>2. rows' = [rows EXCEPT ![sess[s].row] = OrmWrite(@, sess[s].snap, new)]
        /\ sess[s].row \in Rows
    BY <1>1, <1>4 DEF CommitTaskId, Commit
  <2> HIDE DEF new
  <2>3. Quiet
    BY <2>1, <2>2, QuietWrite DEF ExclusionInv
  <2> QED BY <1>4, <2>3, QuietAnswer DEF CommitTaskId
<1>5. CASE SyncAccepted(s)
  <2> DEFINE h == [sess[s] EXCEPT !.op = "synced"]
  <2>1. sess' = [sess EXCEPT ![s] = h] /\ Quiet /\ UNCHANGED <<wk, tasks>>
    BY <1>5 DEF SyncAccepted, Quiet, ExclusionInv, TypeOK
  <2>2. HandlerRow(h) /\ ~Open(h) /\ Syncing(sess[s]) /\ h.row = sess[s].row
    BY <1>1, <1>5 DEF SyncAccepted, HandlerRow, Syncing, Open, Handler
  <2> HIDE DEF h
  <2> QED BY <1>2, <2>1, <2>2, QuietHandler
<1>6. CASE CommitRestore(s)
  <2> DEFINE new == [sess[s].snap EXCEPT !.next_retry_at = sess[s].prev]
             h == [op |-> "enqueue", row |-> sess[s].row, snap |-> new, prev |-> "none",
                   stale |-> {}]
  <2>1. new.status = sess[s].snap.status /\ new.lock_expires_at = sess[s].snap.lock_expires_at
    BY <1>1 DEF Row
  <2>2. rows' = [rows EXCEPT ![sess[s].row] = OrmWrite(@, sess[s].snap, new)]
        /\ sess[s].row \in Rows
    BY <1>1, <1>6 DEF CommitRestore, Commit
  <2>3. sess' = [sess EXCEPT ![s] = h] \/ Answer(s)
    BY <1>6 DEF CommitRestore, Hold
  <2>4. HandlerRow(h) /\ ~Syncing(h) /\ ~Open(h)
    BY <1>1, <1>6, <2>1 DEF CommitRestore, HandlerRow, Syncing, Open
  <2>5. UNCHANGED <<wk, tasks>>
    BY <1>6 DEF CommitRestore
  <2> HIDE DEF new, h
  <2>6. Quiet
    BY <2>1, <2>2, QuietWrite DEF ExclusionInv
  <2> QED BY <1>2, <2>3, <2>4, <2>5, <2>6, QuietHandler, QuietAnswer
<1>7. CASE SessionDies(s)
  BY <1>7, QuietAnswer DEF SessionDies, Quiet
<1>8. CASE RipenHeld(s)
  <2> DEFINE h == [sess[s] EXCEPT !.prev = "past"]
  <2>1. sess' = [sess EXCEPT ![s] = h] /\ Quiet /\ UNCHANGED <<wk, tasks>>
    BY <1>8 DEF RipenHeld, Quiet, ExclusionInv, TypeOK
  <2>2. /\ h.op = sess[s].op /\ h.row = sess[s].row /\ h.snap = sess[s].snap
        /\ h.stale = sess[s].stale
    BY <1>1 DEF Handler
  <2> HIDE DEF h
  <2>3. HandlerRow(h) /\ (Syncing(h) => Syncing(sess[s]))
    BY <1>1, <2>2 DEF HandlerRow, Syncing
  <2> QED BY <1>2, <2>1, <2>2, <2>3, QuietHandler
<1> QED BY <1>3, <1>4, <1>5, <1>6, <1>7, <1>8

LEMMA QuietRunSteps ==
  ASSUME LeasesOutliveRuns, ExclusionInv, TypeOK', SnapsSound', NEW w \in Workers,
         \/ StartDueRun(w) \/ EndDueRun(w) \/ TelegramAccepts(w) \/ Notified(w)
         \/ \E r \in Rows, src \in {"task", "due"} : SkipRow(w, r, src) \/ BotMissing(w, r, src)
         \/ CancelledWhileNotifying(w) \/ CancelledWhileSending(w) \/ FinishFails(w)
         \/ WorkerDies(w)
  PROVE  ExclusionInv'
<1>1. /\ OneOpen /\ LeaseHeld /\ RunRows(wk[w]) /\ RunSnap(wk[w])
      /\ wk[w] \in Run /\ wk[w].snap \in Row
  BY DEF ExclusionInv, RunsSound, SnapsSound, TypeOK, Run
<1>2. ASSUME NEW run, wk' = [wk EXCEPT ![w] = run], UNCHANGED sess, run.pc # "releasing"
      PROVE  OneOpen'
  BY <1>1, <1>2, OneOpenKept DEF ExclusionInv, TypeOK, Open
<1>3. ASSUME EndRun(w) \/ EndRow(w), UNCHANGED sess, Quiet
      PROVE  ExclusionInv'
  <2>1. CASE wk' = [wk EXCEPT ![w] = IdleWorker] /\ tasks' \subseteq tasks
    BY <1>2, <1>3, <2>1, IdleIsQuiet, QuietRun
  <2>2. CASE EndRow(w) /\ wk[w].src # "task"
    <3> DEFINE run == [IdleWorker EXCEPT !.pc = "looping", !.todo = wk[w].todo]
    <3>1. wk' = [wk EXCEPT ![w] = run] /\ tasks' = tasks
      BY <2>2 DEF EndRow, Acknowledged
    <3>2. run.pc = "looping" /\ RunRows(run)
      BY <1>1 DEF RunRows, IdleWorker
    <3> HIDE DEF run
    <3> QED BY <1>2, <1>3, <3>1, <3>2, QuietRun
  <2> QED BY <1>3, <2>1, <2>2 DEF EndRun, EndRow, Acknowledged
<1>4. CASE StartDueRun(w)
  <2> DEFINE stale == StaleLocks({"stale"})
             run == [IdleWorker EXCEPT !.pc = "releasing", !.stale = stale]
  <2>1. /\ wk' = [wk EXCEPT ![w] = run] /\ run.pc = "releasing" /\ run.stale = stale
        /\ run.todo = {}
        /\ MaintenanceFree /\ UNCHANGED <<rows, sess, tasks>>
    BY <1>4 DEF StartDueRun, IdleWorker
  <2>2. \A r \in stale : rows[r].status = "sending" /\ Overrun(rows[r].lock_expires_at)
    BY DEF StaleLocks, Overrun, LeasesOutliveRuns
  <2>3. \A r \in stale : ~Held(r)
    BY <1>1, <2>2 DEF Held, LeaseHeld, Leasing
  <2> HIDE DEF stale, run
  <2>4. RunRows(run)
    BY <2>1, <2>2, <2>3 DEF RunRows
  <2>5. OneOpen'
    BY <1>1, <2>1, RunOpens DEF ExclusionInv, TypeOK
  <2> QED BY <2>1, <2>4, <2>5, QuietRun DEF Quiet
<1>5. CASE EndDueRun(w)
  BY <1>2, <1>5, IdleIsQuiet, QuietRun DEF EndDueRun, Quiet
<1>6. CASE TelegramAccepts(w)
  <2> DEFINE run == [wk[w] EXCEPT !.pc = "accepted"]
  <2>1. /\ wk' = [wk EXCEPT ![w] = run] /\ run.pc = "accepted" /\ InFlight(w)
        /\ run.row = wk[w].row /\ run.snap = wk[w].snap
        /\ UNCHANGED <<rows, sess, tasks>>
    BY <1>1, <1>6 DEF TelegramAccepts, InFlight, ExclusionInv, TypeOK, Run
  <2>2. RunRows(run)
    BY <1>1 DEF RunRows, Run
  <2> HIDE DEF run
  <2> QED BY <1>2, <2>1, <2>2, QuietRun DEF Quiet
<1>7. CASE Notified(w) \/ CancelledWhileSending(w) \/ FinishFails(w)
  BY <1>3, <1>7 DEF Notified, CancelledWhileSending, FinishFails, Quiet
<1>8. CASE CancelledWhileNotifying(w)
  <2> DEFINE new == MarkSucceeded(wk[w].snap)
  <2>1. new.status = wk[w].snap.status /\ new.lock_expires_at = wk[w].snap.lock_expires_at
    BY <1>1, <1>8, MarkFields DEF CancelledWhileNotifying, RunSnap
  <2>2. rows' = [rows EXCEPT ![wk[w].row] = OrmWrite(@, wk[w].snap, new)] /\ wk[w].row \in Rows
    BY <1>8 DEF CancelledWhileNotifying, ExclusionInv, TypeOK
  <2> HIDE DEF new
  <2>3. Quiet
    BY <2>1, <2>2, QuietWrite DEF ExclusionInv
  <2> QED BY <1>3, <1>8, <2>3 DEF CancelledWhileNotifying
<1>9. CASE WorkerDies(w)
  BY <1>2, <1>9, IdleIsQuiet, QuietRun DEF WorkerDies, Quiet
<1>10. ASSUME NEW r \in Rows, NEW src \in {"task", "due"}, SkipRow(w, r, src)
       PROVE  ExclusionInv'
  <2> DEFINE run == [wk[w] EXCEPT !.todo = @ \ {r}]
  <2>1. /\ UNCHANGED wk \/ wk' = [wk EXCEPT ![w] = run]
        /\ UNCHANGED <<rows, sess>> /\ tasks' \subseteq tasks
    BY <1>10 DEF SkipRow, ExclusionInv, TypeOK
  <2>2. /\ run.pc = wk[w].pc /\ run.todo \subseteq wk[w].todo /\ run.stale = wk[w].stale
        /\ run.row = wk[w].row /\ run.snap = wk[w].snap
    BY <1>1 DEF Run
  <2>3. wk' = [wk EXCEPT ![w] = wk[w]] \/ wk' = [wk EXCEPT ![w] = run]
    BY <2>1 DEF ExclusionInv, TypeOK
  <2> HIDE DEF run
  <2>4. RunRows(run)
    BY <1>1, <2>2 DEF RunRows
  <2>5. OneOpen'
    BY <1>1, <2>2, <2>3, <2>1, OneOpenKept DEF ExclusionInv, TypeOK, Open
  <2> QED BY <1>1, <2>1, <2>2, <2>3, <2>4, <2>5, QuietRun DEF Quiet, InFlight
<1>11. ASSUME NEW r \in Rows, NEW src \in {"task", "due"}, BotMissing(w, r, src)
       PROVE  ExclusionInv'
  BY <1>2, <1>11, IdleIsQuiet, QuietRun DEF BotMissing, Quiet
<1> QED BY <1>4, <1>5, <1>6, <1>7, <1>8, <1>9, <1>10, <1>11

-----------------------------------------------------------------------------
(* Steps that change the status or the lock of the rows in a set C.        *)

\* What is remembered of a row in C does not matter to this handler, to this run.
Clear(h, C) == /\ Syncing(h) \/ h.op = "retry" => h.row \notin C
               /\ h.op = "release" => h.stale \cap C = {}
ClearRun(run, C) == run.pc = "releasing" => run.stale \cap C = {}

LEMMA LoudStep ==
  ASSUME ExclusionInv, TypeOK', SnapsSound', OneOpen', LeaseHeld', WorkerExclusion',
         SyncDistinct', NEW C \in SUBSET Rows,
         \A r \in Rows \ C : /\ rows'[r].status = rows[r].status
                            /\ rows'[r].lock_expires_at = rows[r].lock_expires_at,
         \A r \in C : rows'[r].status \notin {"sending", "cancelled"} =>
                     rows'[r].lock_expires_at = "none",
         \A r \in Rows : Entered(r) => Entered(r)',
         \A r \in Rows : Held(r)' => Held(r) \/ r \in C,
         \A s \in Sessions : \/ sess'[s] = sess[s] /\ Clear(sess[s], C)
                            \/ HandlerRow(sess[s])',
         \A w \in Workers : \/ wk'[w] = wk[w] /\ ClearRun(wk[w], C)
                           \/ RunRows(wk[w])',
         \A r \in tasks' : r \in tasks \/ Entered(r)'
  PROVE  ExclusionInv'
<1>1. LocksOfSendingRows'
  BY DEF ExclusionInv, LocksOfSendingRows
<1>2. ASSUME NEW s \in Sessions, sess'[s] = sess[s], Clear(sess[s], C)
      PROVE  HandlerRow(sess[s])'
  <2>1. HandlerRow(sess[s])
    BY DEF ExclusionInv, HandlersSound
  <2>2. /\ sess[s].op \notin {"idle", "release"} => sess[s].row \in Rows
        /\ sess[s].stale \subseteq Rows
    BY DEF ExclusionInv, TypeOK, Handler
  <2>3. Syncing(sess[s]) => HandlerRow(sess[s])'
    BY <1>2, <2>1, <2>2 DEF HandlerRow, Clear, Syncing
  <2>4. sess[s].op \in {"enqueue", "mark", "restore", "cancel", "idle"} => HandlerRow(sess[s])'
    BY <1>2, <2>1, <2>2 DEF HandlerRow
  <2>5. sess[s].op = "retry" => HandlerRow(sess[s])'
    BY <1>2, <2>1, <2>2 DEF HandlerRow, Clear
  <2>6. sess[s].op = "release" => HandlerRow(sess[s])'
    BY <1>2, <2>1, <2>2 DEF HandlerRow, Clear
  <2> QED BY <2>3, <2>4, <2>5, <2>6 DEF ExclusionInv, TypeOK, Handler, SessionOp, Syncing
<1>3. HandlersSound'
  BY <1>2 DEF HandlersSound
<1>4. ASSUME NEW w \in Workers, wk'[w] = wk[w], ClearRun(wk[w], C)
      PROVE  RunRows(wk[w])'
  <2>1. RunRows(wk[w]) /\ wk[w].todo \subseteq Rows /\ wk[w].stale \subseteq Rows
    BY DEF ExclusionInv, RunsSound, TypeOK, Run
  <2> QED BY <1>4, <2>1 DEF RunRows, ClearRun
<1>5. RunsSound'
  <2>1. \A r \in tasks : Entered(r) /\ r \in Rows
    BY DEF ExclusionInv, RunsSound, TypeOK
  <2> QED BY <1>4, <2>1 DEF RunsSound
<1> QED BY <1>1, <1>3, <1>5 DEF ExclusionInv

\* A row being sent, or waiting for a worker, is in nobody's window and nobody syncs it.
LEMMA HeldIsClear ==
  ASSUME ExclusionInv, NEW r \in Rows,
         Held(r) \/ rows[r].status \in {"absent", "queued", "deferred"}
  PROVE  /\ \A s \in Sessions : Clear(sess[s], {r})
         /\ \A w \in Workers : ClearRun(wk[w], {r})
<1>1. Held(r) => rows[r].status \in {"sending", "cancelled"}
  BY DEF ExclusionInv, Held, LeaseHeld, Leasing
<1>2. ASSUME NEW s \in Sessions PROVE Clear(sess[s], {r})
  BY <1>1 DEF ExclusionInv, HandlersSound, HandlerRow, Clear, Syncing, Retryable
<1>3. ASSUME NEW w \in Workers PROVE ClearRun(wk[w], {r})
  BY <1>1 DEF ExclusionInv, RunsSound, RunRows, ClearRun
<1> QED BY <1>2, <1>3

LEMMA SyncDistinctKept ==
  ASSUME SyncDistinct,
         \A s \in Sessions : Syncing(sess'[s]) => Syncing(sess[s]) /\ sess'[s].row = sess[s].row
  PROVE  SyncDistinct'
BY DEF SyncDistinct

\* A worker ends its lease: it records the outcome in the row and clears the lock.
LEMMA WorkerFinishes ==
  ASSUME ExclusionInv, TypeOK', SnapsSound', NEW w \in Workers, InFlight(w), NEW new,
         new.status \notin {"sending", "absent", "created", "cancelled"},
         new.lock_expires_at = "none",
         rows' = [rows EXCEPT ![wk[w].row] = OrmWrite(@, wk[w].snap, new)],
         UNCHANGED sess, tasks' \subseteq tasks,
         NEW run, wk' = [wk EXCEPT ![w] = run],
         run.pc \notin {"releasing", "leased", "accepted"}, run.todo \subseteq wk[w].todo
  PROVE  ExclusionInv'
<1> DEFINE r == wk[w].row
<1>1. r \in Rows /\ Held(r) /\ wk[w].snap.status = "sending"
      /\ wk[w].snap.lock_expires_at = "live"
  BY DEF ExclusionInv, TypeOK, InFlight, Held, SnapsSound, RunSnap, LeaseHeld
<1>2. rows'[r].status = new.status /\ rows'[r].lock_expires_at = "none"
  BY <1>1, OrmWriteFields DEF ExclusionInv, TypeOK
<1>3. \A q \in Rows \ {r} : rows'[q] = rows[q]
  BY DEF ExclusionInv, TypeOK
<1>4. \A v \in Workers : InFlight(v)' => v # w /\ InFlight(v) /\ wk'[v] = wk[v] /\ wk[v].row # r
  BY DEF ExclusionInv, TypeOK, WorkerExclusion, InFlight
<1>5. OneOpen'
  BY OneOpenKept DEF ExclusionInv, TypeOK, Open
<1>6. LeaseHeld'
  <2>1. \A v \in Workers : InFlight(v) => wk[v].row \in Rows
    BY DEF ExclusionInv, TypeOK, InFlight
  <2> QED BY <1>3, <1>4, <2>1 DEF ExclusionInv, LeaseHeld, Leasing
<1>7. WorkerExclusion'
  BY <1>4 DEF ExclusionInv, WorkerExclusion
<1>8. \A q \in Rows : Held(q)' => Held(q)
  BY <1>4 DEF Held
<1>9. \A q \in Rows : Entered(q) => Entered(q)'
  BY <1>2, <1>3 DEF Entered
<1>10. RunRows(wk[w])'
  <2>1. wk'[w] = run /\ RunRows(wk[w]) /\ wk[w].todo \subseteq Rows
    BY DEF ExclusionInv, TypeOK, RunsSound, Run
  <2> QED BY <1>9, <2>1 DEF RunRows
<1>11. \A v \in Workers \ {w} : wk'[v] = wk[v]
  BY DEF ExclusionInv, TypeOK
<1>12. SyncDistinct'
  BY DEF ExclusionInv, HandlersSound, SyncDistinct
<1>13. /\ \A s \in Sessions : Clear(sess[s], {r})
       /\ \A v \in Workers : ClearRun(wk[v], {r})
  BY <1>1, HeldIsClear
<1>14. {r} \in SUBSET Rows /\ \A q \in tasks' : q \in tasks
  BY <1>1
<1> HIDE DEF r
<1> QED BY <1>2, <1>3, <1>5, <1>6, <1>7, <1>8, <1>9, <1>10, <1>11, <1>12, <1>13, <1>14, LoudStep

\* The compare-and-set: a leasable row on its way to a worker has no worker.
LEMMA LeaseTaken ==
  ASSUME LeasesOutliveRuns, ExclusionInv, TypeOK', SnapsSound', NEW w \in Workers,
         NEW r \in Rows, NEW src \in {"task", "due"}, AcquireLease(w, r, src)
  PROVE  ExclusionInv'
<1> DEFINE run == [pc |-> "leased", row |-> r, snap |-> Leased(rows[r]), src |-> src,
                   todo |-> wk[w].todo \ {r}, stale |-> {}]
<1>1. /\ wk' = [wk EXCEPT ![w] = run] /\ run.pc = "leased" /\ run.row = r
      /\ run.snap = Leased(rows[r]) /\ run.todo = wk[w].todo \ {r}
      /\ rows' = [rows EXCEPT ![r] = Leased(rows[r])] /\ UNCHANGED <<sess, tasks>>
  BY DEF AcquireLease
<1> HIDE DEF run
<1>2. Entered(r)
  BY DEF AcquireLease, Takes, ExclusionInv, RunsSound, RunRows
<1>3. rows[r].status \in {"queued", "deferred"}
  BY <1>2 DEF AcquireLease, CanLease, Leasable, Entered
<1>4. \A v \in Workers : ~(InFlight(v) /\ wk[v].row = r)
  BY <1>3 DEF ExclusionInv, LeaseHeld, Leasing
<1>5. rows'[r].status = "sending" /\ rows'[r].lock_expires_at = "live"
      /\ run.snap.lock_expires_at = "live"
  BY <1>1, MarkFields DEF ExclusionInv, TypeOK
<1>6. \A q \in Rows \ {r} : rows'[q] = rows[q]
  BY <1>1 DEF ExclusionInv, TypeOK
<1>7. \A v \in Workers : (v # w /\ wk'[v] = wk[v]) \/ (v = w /\ wk'[v] = run)
  BY <1>1 DEF ExclusionInv, TypeOK
<1>8. OneOpen'
  BY <1>1, <1>7, OneOpenKept DEF ExclusionInv, Open
<1>9. ~Overrun("live")
  BY DEF Overrun
<1>10. LeaseHeld'
  <2>1. \A v \in Workers : InFlight(v) => wk[v].row \in Rows
    BY DEF ExclusionInv, TypeOK, InFlight
  <2> QED BY <1>1, <1>4, <1>5, <1>6, <1>7, <1>9, <2>1
          DEF ExclusionInv, LeaseHeld, Leasing, InFlight
<1>11. WorkerExclusion'
  BY <1>1, <1>4, <1>7 DEF ExclusionInv, WorkerExclusion, InFlight
<1>12. \A q \in Rows : Held(q)' => Held(q) \/ q \in {r}
  BY <1>1, <1>7 DEF Held, InFlight
<1>13. \A q \in Rows : Entered(q) => Entered(q)'
  BY <1>5, <1>6 DEF Entered
<1>14. RunRows(wk[w])'
  <2>1. wk'[w] = run /\ RunRows(wk[w]) /\ wk[w].todo \subseteq Rows
    BY <1>7 DEF ExclusionInv, TypeOK, RunsSound, Run
  <2> QED BY <1>1, <1>13, <2>1 DEF RunRows
<1>15. SyncDistinct'
  BY <1>1 DEF ExclusionInv, HandlersSound, SyncDistinct
<1>16. /\ \A s \in Sessions : Clear(sess[s], {r})
       /\ \A v \in Workers : ClearRun(wk[v], {r})
  BY <1>3, HeldIsClear
<1>17. {r} \in SUBSET Rows
  OBVIOUS
<1> QED BY <1>1, <1>5, <1>6, <1>7, <1>8, <1>10, <1>11, <1>12, <1>13, <1>14, <1>15, <1>16, <1>17,
           LoudStep

\* Steps of handlers: no run is touched, so leases stand if the rows they are on do.
LEMMA HandlerWrites ==
  ASSUME ExclusionInv, TypeOK', SnapsSound', OneOpen', SyncDistinct', UNCHANGED wk,
         NEW C \in SUBSET Rows,
         \A r \in Rows \ C : rows'[r] = rows[r],
         \A r \in C : /\ rows'[r].status \notin {"sending", "cancelled"} =>
                         rows'[r].lock_expires_at = "none"
                      /\ Entered(r) => Entered(r)'
                      /\ Held(r) => Leasing(rows'[r]),
         \A s \in Sessions : \/ sess'[s] = sess[s] /\ Clear(sess[s], C)
                            \/ HandlerRow(sess[s])',
         \A w \in Workers : ClearRun(wk[w], C),
         \A r \in tasks' : r \in tasks \/ Entered(r)'
  PROVE  ExclusionInv'
<1>1. \A v \in Workers : InFlight(v) => wk[v].row \in Rows
  BY DEF ExclusionInv, TypeOK, InFlight
<1>2. \A w \in Workers : InFlight(w)' <=> InFlight(w)
  BY DEF InFlight
<1>3. LeaseHeld'
  <2>1. ASSUME NEW w \in Workers, InFlight(w)
        PROVE  wk[w].snap.lock_expires_at = "live" /\ Leasing(rows'[wk[w].row])
    <3>1. wk[w].snap.lock_expires_at = "live" /\ Leasing(rows[wk[w].row]) /\ Held(wk[w].row)
      BY <2>1 DEF ExclusionInv, LeaseHeld, Held
    <3> QED BY <1>1, <2>1, <3>1
  <2> QED BY <1>2, <2>1 DEF LeaseHeld, Leasing
<1>4. WorkerExclusion'
  BY <1>2 DEF ExclusionInv, WorkerExclusion
<1>5. \A r \in Rows : Held(r)' => Held(r)
  BY <1>2 DEF Held
<1>6. \A r \in Rows : Entered(r) => Entered(r)'
  BY DEF Entered
<1> QED BY <1>3, <1>4, <1>5, <1>6, LoudStep

LEMMA RowCreated ==
  ASSUME ExclusionInv, TypeOK', SnapsSound', NEW s \in Sessions, NEW r \in Rows,
         NEW mode \in {"sync", "now", "later"}, CreateHistory(s, r, mode)
  PROVE  ExclusionInv'
<1> DEFINE new == [AbsentRow EXCEPT
                     !.status = IF mode = "sync" THEN "created" ELSE "queued",
                     !.next_retry_at = IF mode = "later" THEN "future" ELSE "none"]
<1>1. /\ rows[r].status = "absent" /\ ~Held(r)
      /\ \A t \in Sessions : Syncing(sess[t]) => sess[t].row # r
  BY DEF CreateHistory, ExclusionInv, Held, LeaseHeld, Leasing, HandlersSound, HandlerRow, Syncing
<1>2. new.lock_expires_at = "none" /\ new.status = IF mode = "sync" THEN "created" ELSE "queued"
  BY DEF AbsentRow
<1>3. rows' = [rows EXCEPT ![r] = new] /\ UNCHANGED <<wk, tasks>>
  BY DEF CreateHistory
<1>4. \/ mode = "sync" /\ Hold(s, "sync", r, new, "none")
      \/ mode = "now" /\ Hold(s, "enqueue", r, new, "none")
      \/ UNCHANGED sess
  BY DEF CreateHistory
<1> HIDE DEF new
<1>5. rows'[r] = new /\ \A q \in Rows \ {r} : rows'[q] = rows[q]
  BY <1>3 DEF ExclusionInv, TypeOK
<1>6. \A t \in Sessions \ {s} : sess'[t] = sess[t]
  BY <1>4 DEF Hold, ExclusionInv, TypeOK
<1>7. \/ sess'[s] = sess[s]
      \/ /\ sess'[s].op = IF mode = "sync" THEN "sync" ELSE "enqueue"
         /\ sess'[s].row = r /\ sess'[s].snap = new
  BY <1>4 DEF Hold, ExclusionInv, TypeOK
<1>8. OneOpen'
  BY <1>3, <1>6, <1>7, OneOpenKept DEF ExclusionInv, Open
<1>9. SyncDistinct'
  BY <1>1, <1>6, <1>7 DEF ExclusionInv, HandlersSound, SyncDistinct, Syncing
<1>10. ~Held(r)'
  BY <1>1, <1>3 DEF Held, InFlight
<1>11. sess'[s] = sess[s] \/ HandlerRow(sess[s])'
  BY <1>2, <1>5, <1>7, <1>10 DEF HandlerRow, Entered
<1>12. /\ \A t \in Sessions : Clear(sess[t], {r})
       /\ \A w \in Workers : ClearRun(wk[w], {r})
  BY <1>1, HeldIsClear
<1>13. ~Entered(r)
  BY <1>1 DEF Entered
<1> QED BY <1>1, <1>2, <1>3, <1>5, <1>6, <1>8, <1>9, <1>11, <1>12, <1>13, HandlerWrites

\* A request that called Telegram itself writes the outcome; nobody has leased its row.
LEMMA SyncWritten ==
  ASSUME ExclusionInv, TypeOK', SnapsSound', NEW s \in Sessions, Syncing(sess[s]), NEW new,
         new.status \notin {"sending", "absent", "created", "cancelled"},
         new.lock_expires_at = "none", Commit(s, new), Answer(s), UNCHANGED <<wk, tasks>>
  PROVE  ExclusionInv'
<1> DEFINE r == sess[s].row
<1>1. /\ sess[s].snap.status = "created" /\ sess[s].snap.lock_expires_at = "none"
      /\ rows[r].status \in {"created", "cancelled"} /\ rows[r].lock_expires_at = "none"
      /\ ~Held(r) /\ r \in Rows
  BY DEF ExclusionInv, HandlersSound, HandlerRow, SnapsSound, HandlerSnap, Syncing, TypeOK
<1>2. rows'[r].status = new.status /\ rows'[r].lock_expires_at = "none"
  BY <1>1, OrmWriteFields DEF Commit, ExclusionInv, TypeOK
<1>3. \A q \in Rows \ {r} : rows'[q] = rows[q]
  BY DEF Commit, ExclusionInv, TypeOK
<1>4. sess'[s] = IdleSession /\ \A t \in Sessions \ {s} : sess'[t] = sess[t]
  BY DEF Answer, ExclusionInv, TypeOK
<1>5. OneOpen' /\ SyncDistinct'
  BY <1>4, IdleIsQuiet, OneOpenKept, SyncDistinctKept DEF ExclusionInv, HandlersSound
<1>6. HandlerRow(sess[s])'
  BY <1>4 DEF HandlerRow, IdleSession
<1>7. \A t \in Sessions \ {s} : Clear(sess[t], {r})
  BY <1>1 DEF ExclusionInv, HandlersSound, HandlerRow, SyncDistinct, Clear, Syncing, Retryable
<1>8. \A w \in Workers : ClearRun(wk[w], {r})
  BY <1>1 DEF ExclusionInv, RunsSound, RunRows, ClearRun
<1>9. \A q \in {r} : Entered(q)'
  BY <1>2 DEF Entered
<1> HIDE DEF r
<1> QED BY <1>1, <1>2, <1>3, <1>4, <1>5, <1>6, <1>7, <1>8, <1>9, HandlerWrites

\* A cancel computed from an unlocked row writes the status and leaves the lock alone.
LEMMA RowCancelled ==
  ASSUME ExclusionInv, TypeOK', SnapsSound', NEW s \in Sessions, CommitCancel(s)
  PROVE  ExclusionInv'
<1> DEFINE r == sess[s].row
           new == MarkCancelled(sess[s].snap)
<1>1. /\ sess[s].op = "cancel" /\ r \in Rows /\ sess[s].snap \in Row
      /\ sess[s].snap.status \in Cancellable /\ sess[s].snap.lock_expires_at = "none"
  BY DEF CommitCancel, ExclusionInv, HandlersSound, HandlerRow, SnapsSound, HandlerSnap, TypeOK,
         Handler
<1>2. new.status = "cancelled" /\ new.lock_expires_at = "none"
  BY <1>1, MarkFields
<1>3. rows' = [rows EXCEPT ![r] = OrmWrite(@, sess[s].snap, new)]
  BY DEF CommitCancel, Commit
<1> HIDE DEF new
<1>4. rows'[r].status = "cancelled" /\ rows'[r].lock_expires_at = rows[r].lock_expires_at
  BY <1>1, <1>2, <1>3, OrmWriteFields DEF Cancellable, ExclusionInv, TypeOK
<1>5. \A q \in Rows \ {r} : rows'[q] = rows[q]
  BY <1>3 DEF ExclusionInv, TypeOK
<1>6. /\ sess'[s] = IdleSession /\ \A t \in Sessions \ {s} : sess'[t] = sess[t]
      /\ UNCHANGED <<wk, tasks>>
  BY DEF CommitCancel, Answer, ExclusionInv, TypeOK
<1>7. OneOpen' /\ SyncDistinct'
  BY <1>6, IdleIsQuiet, OneOpenKept, SyncDistinctKept DEF ExclusionInv, HandlersSound
<1>8. HandlerRow(sess[s])'
  BY <1>6 DEF HandlerRow, IdleSession
<1>9. /\ \A t \in Sessions \ {s} : ~Open(sess[t])
      /\ \A w \in Workers : wk[w].pc # "releasing"
  BY <1>1 DEF ExclusionInv, OneOpen, Open
<1>10. ASSUME NEW t \in Sessions \ {s}, Syncing(sess[t])
       PROVE  HandlerRow(sess[t])'
  <2>1. HandlerRow(sess[t]) /\ sess'[t] = sess[t] /\ sess[t].row \in Rows
    BY <1>6, <1>10 DEF ExclusionInv, HandlersSound, TypeOK, Syncing
  <2>2. ~Held(sess[t].row)'
    BY <1>6, <1>10, <2>1 DEF HandlerRow, Held, InFlight, Syncing
  <2> QED BY <1>4, <1>5, <1>10, <2>1, <2>2 DEF HandlerRow, Syncing
<1>11. \A t \in Sessions \ {s} : Syncing(sess[t]) \/ Clear(sess[t], {r})
  BY <1>9 DEF Clear, Open
<1>12. \A w \in Workers : ClearRun(wk[w], {r})
  BY <1>9 DEF ClearRun
<1>13. \A q \in {r} : Entered(q)'
  BY <1>4 DEF Entered
<1>14. Held(r) => Leasing(rows'[r])
  BY <1>4 DEF ExclusionInv, Held, LeaseHeld, Leasing
<1> HIDE DEF r
<1> QED BY <1>1, <1>4, <1>5, <1>6, <1>7, <1>8, <1>10, <1>11, <1>12, <1>13, <1>14, HandlerWrites

\* The retry's row is still where it was read: failed, blocked or in dead_letter.
LEMMA RowRetried ==
  ASSUME ExclusionInv, TypeOK', SnapsSound', NEW s \in Sessions, CommitRetry(s)
  PROVE  ExclusionInv'
<1> DEFINE r == sess[s].row
           new == MarkRetried(sess[s].snap)
<1>1. /\ sess[s].op = "retry" /\ r \in Rows /\ sess[s].snap \in Row
      /\ sess[s].snap.status \in Retryable /\ sess[s].snap.lock_expires_at = "none"
      /\ rows[r].status \in Retryable
  BY DEF CommitRetry, ExclusionInv, HandlersSound, HandlerRow, SnapsSound, HandlerSnap, TypeOK,
         Handler
<1>2. new.status = "queued" /\ new.lock_expires_at = "none"
  BY <1>1, MarkFields
<1>3. rows' = [rows EXCEPT ![r] = OrmWrite(@, sess[s].snap, new)]
  BY DEF CommitRetry, Commit
<1>4. /\ UNCHANGED <<wk, tasks>>
      /\ Hold(s, "enqueue", r, new, "none") \/ Hold(s, "restore", r, new, sess[s].prev)
  BY DEF CommitRetry
<1> HIDE DEF new
<1>5. rows[r].lock_expires_at = "none" /\ ~Held(r)
  BY <1>1 DEF ExclusionInv, LocksOfSendingRows, Held, LeaseHeld, Leasing, Retryable
<1>6. rows'[r].status = "queued" /\ rows'[r].lock_expires_at = "none"
  BY <1>1, <1>2, <1>3, <1>5, OrmWriteFields DEF Retryable, ExclusionInv, TypeOK
<1>7. \A q \in Rows \ {r} : rows'[q] = rows[q]
  BY <1>3 DEF ExclusionInv, TypeOK
<1>8. /\ \A t \in Sessions \ {s} : sess'[t] = sess[t]
      /\ sess'[s].op \in {"enqueue", "restore"} /\ sess'[s].row = r /\ sess'[s].snap = new
  BY <1>4 DEF Hold, ExclusionInv, TypeOK
<1>9. OneOpen' /\ SyncDistinct'
  BY <1>4, <1>8, OneOpenKept, SyncDistinctKept DEF ExclusionInv, HandlersSound, Open, Syncing
<1>10. HandlerRow(sess[s])'
  BY <1>2, <1>6, <1>8 DEF HandlerRow, Entered
<1>11. /\ \A t \in Sessions \ {s} : ~Open(sess[t])
       /\ \A w \in Workers : wk[w].pc # "releasing"
  BY <1>1 DEF ExclusionInv, OneOpen, Open
<1>12. \A t \in Sessions \ {s} : Clear(sess[t], {r})
  BY <1>1, <1>11 DEF ExclusionInv, HandlersSound, HandlerRow, Clear, Open, Syncing, Retryable
<1>13. \A w \in Workers : ClearRun(wk[w], {r})
  BY <1>11 DEF ClearRun
<1>14. \A q \in {r} : Entered(q)'
  BY <1>6 DEF Entered
<1> HIDE DEF r
<1> QED BY <1>1, <1>4, <1>5, <1>6, <1>7, <1>8, <1>9, <1>10, <1>12, <1>13, <1>14, HandlerWrites

\* Rows released while their statuses are still what the release read, and without a worker.
LEMMA ReleasedRows ==
  ASSUME ExclusionInv, NEW stale \in SUBSET Rows, rows' = Released(stale),
         \A r \in stale : rows[r].status = "sending" /\ ~Held(r)
  PROVE  /\ \A r \in Rows \ stale : rows'[r] = rows[r]
         /\ \A r \in stale : rows'[r].status = "queued" /\ rows'[r].lock_expires_at = "none"
         /\ \A r \in Rows : Entered(r) => Entered(r)'
         /\ \A s \in Sessions : Syncing(sess[s]) => sess[s].row \notin stale
<1>1. \A r \in Rows \ stale : rows'[r] = rows[r]
  BY DEF Released
<1>2. \A r \in stale : rows'[r].status = "queued" /\ rows'[r].lock_expires_at = "none"
  <2>1. ASSUME NEW r \in stale
        PROVE  rows'[r].status = "queued" /\ rows'[r].lock_expires_at = "none"
    <3>1. rows[r] \in Row /\ r \in Rows
      BY DEF ExclusionInv, TypeOK
    <3>2. rows'[r] = [rows[r] EXCEPT !.status = "queued", !.lock_expires_at = "none"]
      BY <3>1 DEF Released
    <3> QED BY <3>1, <3>2 DEF Row
  <2> QED BY <2>1
<1>3. \A r \in Rows : Entered(r) => Entered(r)'
  BY <1>1, <1>2 DEF Entered
<1>4. \A s \in Sessions : Syncing(sess[s]) => sess[s].row \notin stale
  BY DEF ExclusionInv, HandlersSound, HandlerRow, Syncing
<1> QED BY <1>1, <1>2, <1>3, <1>4

LEMMA LocksReleased ==
  ASSUME ExclusionInv, TypeOK', SnapsSound', NEW s \in Sessions, CommitRelease(s)
  PROVE  ExclusionInv'
<1> DEFINE stale == sess[s].stale
<1>1. /\ sess[s].op = "release" /\ stale \in SUBSET Rows
      /\ \A r \in stale : rows[r].status = "sending" /\ ~Held(r)
  BY DEF CommitRelease, ExclusionInv, HandlersSound, HandlerRow, TypeOK, Handler
<1>2. rows' = Released(stale) /\ UNCHANGED <<wk, tasks>>
  BY DEF CommitRelease
<1>3. sess'[s] = IdleSession /\ \A t \in Sessions \ {s} : sess'[t] = sess[t]
  BY DEF CommitRelease, Answer, ExclusionInv, TypeOK
<1>4. OneOpen' /\ SyncDistinct'
  BY <1>2, <1>3, IdleIsQuiet, OneOpenKept, SyncDistinctKept DEF ExclusionInv, HandlersSound
<1>5. HandlerRow(sess[s])'
  BY <1>3 DEF HandlerRow, IdleSession
<1>6. /\ \A t \in Sessions \ {s} : ~Open(sess[t])
      /\ \A w \in Workers : wk[w].pc # "releasing"
  BY <1>1 DEF ExclusionInv, OneOpen, Open
<1> HIDE DEF stale
<1>7. /\ \A r \in Rows \ stale : rows'[r] = rows[r]
      /\ \A r \in stale : rows'[r].status = "queued" /\ rows'[r].lock_expires_at = "none"
      /\ \A r \in Rows : Entered(r) => Entered(r)'
      /\ \A t \in Sessions : Syncing(sess[t]) => sess[t].row \notin stale
  BY <1>1, <1>2, ReleasedRows
<1>8. \A t \in Sessions \ {s} : Clear(sess[t], stale)
  BY <1>6, <1>7 DEF Clear, Open
<1>9. \A w \in Workers : ClearRun(wk[w], stale)
  BY <1>6 DEF ClearRun
<1> QED BY <1>1, <1>2, <1>3, <1>4, <1>5, <1>7, <1>8, <1>9, HandlerWrites

LEMMA StaleLocksReleased ==
  ASSUME ExclusionInv, TypeOK', SnapsSound', NEW w \in Workers, CommitStaleRelease(w)
  PROVE  ExclusionInv'
<1> DEFINE stale == wk[w].stale
<1>1. /\ wk[w].pc = "releasing" /\ stale \in SUBSET Rows
      /\ \A r \in stale : rows[r].status = "sending" /\ ~Held(r)
  BY DEF CommitStaleRelease, ExclusionInv, RunsSound, RunRows, TypeOK, Run
<1>2. rows' = Released(stale) /\ UNCHANGED <<sess, tasks>>
  BY DEF CommitStaleRelease
<1>3. /\ wk'[w].pc = "looping" /\ wk'[w].todo = ReadyRows'
      /\ \A v \in Workers \ {w} : wk'[v] = wk[v]
  BY DEF CommitStaleRelease, IdleWorker, ExclusionInv, TypeOK
<1>4. OneOpen' /\ SyncDistinct'
  BY <1>2, <1>3, OneOpenKept, SyncDistinctKept DEF ExclusionInv, HandlersSound, Open
<1>5. RunRows(wk[w])'
  BY <1>3 DEF RunRows, ReadyRows, Ready, Entered
<1>6. /\ \A t \in Sessions : ~Open(sess[t])
      /\ \A v \in Workers \ {w} : wk[v].pc # "releasing"
  BY <1>1 DEF ExclusionInv, OneOpen
<1> HIDE DEF stale
<1>7. /\ \A r \in Rows \ stale : rows'[r] = rows[r]
      /\ \A r \in stale : rows'[r].status = "queued" /\ rows'[r].lock_expires_at = "none"
      /\ \A r \in Rows : Entered(r) => Entered(r)'
      /\ \A t \in Sessions : Syncing(sess[t]) => sess[t].row \notin stale
  BY <1>1, <1>2, ReleasedRows
<1>8. \A t \in Sessions : Clear(sess[t], stale)
  BY <1>6, <1>7 DEF Clear, Open
<1>9. \A v \in Workers \ {w} : ClearRun(wk[v], stale)
  BY <1>6 DEF ClearRun
<1>10. \A v \in Workers : InFlight(v)' => v # w /\ InFlight(v) /\ wk'[v] = wk[v]
  BY <1>3 DEF InFlight
<1>11. LeaseHeld'
  <2>1. \A v \in Workers : InFlight(v) => wk[v].row \in Rows /\ wk[v].row \notin stale
    BY <1>1 DEF ExclusionInv, TypeOK, InFlight, Held
  <2> QED BY <1>7, <1>10, <2>1 DEF ExclusionInv, LeaseHeld, Leasing
<1>12. WorkerExclusion'
  BY <1>10 DEF ExclusionInv, WorkerExclusion
<1>13. \A r \in Rows : Held(r)' => Held(r)
  BY <1>10 DEF Held
<1> QED BY <1>1, <1>2, <1>3, <1>4, <1>5, <1>7, <1>8, <1>9, <1>11, <1>12, <1>13, LoudStep

\* A lease grows old, but not too old while its run is in flight.
LEMMA LeaseOlder ==
  ASSUME ExclusionInv, TypeOK', SnapsSound', NEW r \in Rows, LeaseAges(r)
  PROVE  ExclusionInv'
<1> DEFINE age == Older[rows[r].lock_expires_at]
<1>1. /\ rows[r].lock_expires_at # "none" /\ age # "none"
      /\ Held(r) => ~Overrun(age)
      /\ rows' = [rows EXCEPT ![r].lock_expires_at = age] /\ UNCHANGED <<wk, sess, tasks>>
  BY DEF LeaseAges, Older, Held
<1> HIDE DEF age
<1>2. /\ rows'[r].status = rows[r].status /\ rows'[r].lock_expires_at = age
      /\ \A q \in Rows \ {r} : rows'[q] = rows[q]
  BY <1>1 DEF ExclusionInv, TypeOK, Row
<1>3. rows[r].status \in {"sending", "cancelled"}
  BY <1>1 DEF ExclusionInv, LocksOfSendingRows
<1>4. OneOpen' /\ SyncDistinct'
  BY <1>1, OneOpenKept, SyncDistinctKept DEF ExclusionInv, HandlersSound
<1>5. \A q : Held(q)' => Held(q)
  BY <1>1 DEF Held, InFlight
<1>6. ASSUME NEW s \in Sessions PROVE HandlerRow(sess[s])'
  <2>1. /\ HandlerRow(sess[s]) /\ sess'[s] = sess[s] /\ sess[s].stale \subseteq Rows
        /\ sess[s].op \notin {"idle", "release"} => sess[s].row \in Rows
    BY <1>1 DEF ExclusionInv, HandlersSound, TypeOK, Handler
  <2>2. \A q \in Rows : rows'[q].status = rows[q].status
    BY <1>2
  <2>3. Syncing(sess[s]) => sess[s].row # r
    BY <1>1, <2>1 DEF HandlerRow, Syncing
  <2> QED BY <1>2, <1>5, <2>1, <2>2, <2>3 DEF HandlerRow, Entered, Syncing
<1>7. ASSUME NEW w \in Workers PROVE RunRows(wk[w])'
  <2>1. RunRows(wk[w]) /\ wk'[w] = wk[w] /\ wk[w].todo \subseteq Rows /\ wk[w].stale \subseteq Rows
    BY <1>1 DEF ExclusionInv, RunsSound, TypeOK, Run
  <2>2. \A q \in Rows : rows'[q].status = rows[q].status
    BY <1>2
  <2> QED BY <1>5, <2>1, <2>2 DEF RunRows, Entered
<1>8. LeaseHeld'
  <2>1. ASSUME NEW w \in Workers, InFlight(w)
        PROVE  wk[w].snap.lock_expires_at = "live" /\ Leasing(rows'[wk[w].row])
    <3>1. /\ wk[w].snap.lock_expires_at = "live" /\ Leasing(rows[wk[w].row])
          /\ Held(wk[w].row) /\ wk[w].row \in Rows
      BY <2>1 DEF ExclusionInv, LeaseHeld, Held, TypeOK, InFlight
    <3> QED BY <1>1, <1>2, <1>3, <3>1 DEF Leasing
  <2> QED BY <1>1, <2>1 DEF LeaseHeld, Leasing, InFlight
<1>9. WorkerExclusion'
  BY <1>1 DEF ExclusionInv, WorkerExclusion, InFlight
<1>10. \A q \in Rows : Entered(q) => Entered(q)'
  BY <1>2 DEF Entered
<1>11. {r} \in SUBSET Rows
  OBVIOUS
<1> QED BY <1>1, <1>2, <1>3, <1>4, <1>5, <1>6, <1>7, <1>8, <1>9, <1>10, <1>11, LoudStep

-----------------------------------------------------------------------------
(* Every step, and the theorem.                                            *)

LEMMA ExclusionStep ==
  ASSUME LeasesOutliveRuns, ExclusionInv, [Next]_vars
  PROVE  ExclusionInv'
<1>1. TypeOK' /\ SnapsSound'
  BY TypeStep, SnapsStep DEF ExclusionInv
<1>2. ASSUME NEW s \in Sessions, Request(s)
      PROVE  ExclusionInv'
  BY <1>1, <1>2, RowCreated, QuietRequests DEF Request
<1>3. ASSUME NEW s \in Sessions, SessionStep(s)
      PROVE  ExclusionInv'
  <2>1. sess[s].snap \in Row
    BY DEF ExclusionInv, TypeOK, Handler
  <2>2. CASE SyncRefused(s)
    <3>1. /\ MarkFailed(sess[s].snap).status = "failed"
          /\ MarkFailed(sess[s].snap).lock_expires_at = "none"
      BY <2>1, MarkFields
    <3> QED BY <1>1, <2>2, <3>1, SyncWritten DEF SyncRefused, Syncing
  <2>3. CASE SyncSucceeded(s)
    <3>1. /\ MarkSucceeded(sess[s].snap).status = "succeeded"
          /\ MarkSucceeded(sess[s].snap).lock_expires_at = "none"
      BY <2>1, MarkFields
    <3> QED BY <1>1, <2>3, <3>1, SyncWritten DEF SyncSucceeded, Syncing
  <2>4. CASE CommitCancel(s) \/ CommitRetry(s) \/ CommitRelease(s)
    BY <1>1, <2>4, RowCancelled, RowRetried, LocksReleased
  <2>5. CASE EnqueueTask(s) \/ CommitTaskId(s) \/ SyncAccepted(s) \/ CommitRestore(s)
    BY <1>1, <2>5, QuietSessionSteps
  <2> QED BY <1>3, <2>2, <2>3, <2>4, <2>5 DEF SessionStep
<1>4. ASSUME NEW s \in Sessions, SessionDies(s) \/ RipenHeld(s)
      PROVE  ExclusionInv'
  BY <1>1, <1>4, QuietSessionSteps
<1>5. ASSUME NEW w \in Workers, InFlight(w), NEW outcome, NEW new, FinishRow(w, outcome, new),
             new.status \notin {"sending", "absent", "created", "cancelled"},
             new.lock_expires_at = "none", UNCHANGED sess
      PROVE  ExclusionInv'
  <2> DEFINE run == IF wk[w].src = "task" THEN IdleWorker
                    ELSE [IdleWorker EXCEPT !.pc = "looping", !.todo = wk[w].todo]
  <2>1. /\ wk' = [wk EXCEPT ![w] = run] /\ tasks' \subseteq tasks
        /\ rows' = [rows EXCEPT ![wk[w].row] = OrmWrite(@, wk[w].snap, new)]
    BY <1>5 DEF FinishRow, EndRow, Acknowledged
  <2>2. run.pc \notin {"releasing", "leased", "accepted"} /\ run.todo \subseteq wk[w].todo
    BY DEF IdleWorker
  <2> HIDE DEF run
  <2> QED BY <1>1, <1>5, <2>1, <2>2, WorkerFinishes
<1>6. ASSUME NEW w \in Workers, RunStep(w)
      PROVE  ExclusionInv'
  <2>1. wk[w].snap \in Row
    BY DEF ExclusionInv, TypeOK, Run
  <2>2. CASE TelegramTransient(w)
    BY <1>5, <2>1, <2>2, MarkFields DEF TelegramTransient, InFlight
  <2>3. CASE TelegramPermanent(w)
    BY <1>5, <2>1, <2>3, MarkFields DEF TelegramPermanent, InFlight
  <2>4. CASE CompleteSuccess(w)
    <3> DEFINE new == MarkSucceeded(wk[w].snap)
               run == [wk[w] EXCEPT !.pc = "notifying", !.snap = new]
    <3>1. new.status = "succeeded" /\ new.lock_expires_at = "none"
      BY <2>1, MarkFields
    <3>2. /\ wk' = [wk EXCEPT ![w] = run] /\ UNCHANGED <<sess, tasks>> /\ InFlight(w)
          /\ rows' = [rows EXCEPT ![wk[w].row] = OrmWrite(@, wk[w].snap, new)]
      BY <2>4 DEF CompleteSuccess, InFlight, ExclusionInv, TypeOK
    <3>3. run.pc = "notifying" /\ run.todo \subseteq wk[w].todo
      BY DEF ExclusionInv, TypeOK, Run
    <3> HIDE DEF new, run
    <3> QED BY <1>1, <3>1, <3>2, <3>3, WorkerFinishes
  <2>5. CASE CommitStaleRelease(w)
    BY <1>1, <2>5, StaleLocksReleased
  <2>6. ASSUME NEW r \in Rows, NEW src \in {"task", "due"},
               AcquireLease(w, r, src) \/ SkipRow(w, r, src) \/ BotMissing(w, r, src)
        PROVE  ExclusionInv'
    BY <1>1, <2>6, LeaseTaken, QuietRunSteps
  <2>7. CASE StartDueRun(w) \/ EndDueRun(w) \/ TelegramAccepts(w) \/ Notified(w)
    BY <1>1, <2>7, QuietRunSteps
  <2> QED BY <1>6, <2>2, <2>3, <2>4, <2>5, <2>6, <2>7 DEF RunStep
<1>7. ASSUME NEW w \in Workers, RunFault(w)
      PROVE  ExclusionInv'
  <2>1. wk[w].snap \in Row
    BY DEF ExclusionInv, TypeOK, Run
  <2>2. CASE DeferLocally(w)
    BY <1>5, <2>1, <2>2, MarkFields DEF DeferLocally, InFlight
  <2>3. CASE \/ CancelledWhileNotifying(w) \/ CancelledWhileSending(w)
             \/ FinishFails(w) \/ WorkerDies(w)
    BY <1>1, <2>3, QuietRunSteps
  <2> QED BY <1>7, <2>2, <2>3 DEF RunFault
<1>8. ASSUME NEW r \in Rows, LeaseAges(r)
      PROVE  ExclusionInv'
  BY <1>1, <1>8, LeaseOlder
<1>9. CASE UNCHANGED <<wk, sess, tasks>> /\ Quiet
  <2>1. OneOpen'
    BY <1>9, OneOpenKept DEF ExclusionInv
  <2> QED BY <1>1, <1>9, <2>1, QuietStep DEF InFlight
<1>10. ASSUME NEW r \in Rows, Ripen(r) \/ DeactivateBot(r)
       PROVE  ExclusionInv'
  <2>1. UNCHANGED rows \/ rows' = [rows EXCEPT ![r] = [rows[r] EXCEPT !.next_retry_at = "past"]]
    BY <1>10 DEF Ripen, DeactivateBot, ExclusionInv, TypeOK
  <2>2. rows[r] \in Row
    BY DEF ExclusionInv, TypeOK
  <2>3. Quiet
    <3>1. /\ [rows[r] EXCEPT !.next_retry_at = "past"].status = rows[r].status
          /\ [rows[r] EXCEPT !.next_retry_at = "past"].lock_expires_at = rows[r].lock_expires_at
      BY <2>2 DEF Row
    <3>2. CASE UNCHANGED rows
      BY <3>2 DEF Quiet
    <3>3. CASE rows' = [rows EXCEPT ![r] = [rows[r] EXCEPT !.next_retry_at = "past"]]
      <4>1. \A q \in Rows \ {r} : rows'[q] = rows[q]
        BY <3>3 DEF ExclusionInv, TypeOK
      <4>2. rows'[r] = [rows[r] EXCEPT !.next_retry_at = "past"]
        BY <3>3 DEF ExclusionInv, TypeOK
      <4> QED BY <3>1, <4>1, <4>2 DEF Quiet
    <3> QED BY <2>1, <3>2, <3>3
  <2>4. UNCHANGED <<wk, sess, tasks>>
    BY <1>10 DEF Ripen, DeactivateBot
  <2> QED BY <1>9, <2>3, <2>4
<1>11. CASE UNCHANGED vars
  BY <1>9, <1>11 DEF vars, Quiet
<1> QED BY <1>2, <1>3, <1>4, <1>6, <1>7, <1>8, <1>10, <1>11 DEF Next

\* The inductive invariant holds in every behaviour of these environments.
LEMMA ExclusionHolds ==
  ASSUME LeasesOutliveRuns
  PROVE  Spec => []ExclusionInv
<1>1. Init => ExclusionInv
  <2> SUFFICES ASSUME Init PROVE ExclusionInv
    OBVIOUS
  <2>1. TypeOK /\ SnapsSound
    BY InitSound
  <2>2. LocksOfSendingRows
    BY DEF Init, LocksOfSendingRows, AbsentRow
  <2>3. OneOpen /\ LeaseHeld /\ WorkerExclusion
    BY DEF Init, OneOpen, Open, LeaseHeld, WorkerExclusion, InFlight, IdleWorker, IdleSession
  <2>4. HandlersSound /\ RunsSound
    BY IdleIsQuiet DEF Init, HandlersSound, SyncDistinct, RunsSound
  <2> QED BY <2>1, <2>2, <2>3, <2>4 DEF ExclusionInv
<1>2. ExclusionInv /\ [Next]_vars => ExclusionInv'
  BY ExclusionStep
<1> QED BY <1>1, <1>2, PTL DEF Spec

(***************************************************************************)
(* For any number of rows, workers and requests: where the read-then-write *)
(* operations do not overlap and no release may take a running worker's    *)
(* lease for a dead one, a row never has two workers.  Outside these       *)
(* environments it may: the overlap run has the counterexample.            *)
(***************************************************************************)
THEOREM OneWorkerPerRow ==
  ASSUME LeasesOutliveRuns
  PROVE  Spec => []WorkerExclusion
<1>1. ExclusionInv => WorkerExclusion
  BY DEF ExclusionInv
<1> QED BY <1>1, ExclusionHolds, PTL

=============================================================================
