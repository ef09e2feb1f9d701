-------------------------- MODULE SendQueueProofs --------------------------
(***************************************************************************)
(* Proofs about the send queue that hold in every environment: the types,  *)
(* that no row is stranded in "sending" without a lock, that no two        *)
(* attempts of a row have the same number, and that the journal of         *)
(* attempts tells what Telegram took.                                      *)
(***************************************************************************)
EXTENDS SendQueueProps, FiniteSetTheorems, TLAPS

-----------------------------------------------------------------------------
(* What a commit writes.                                                   *)

\* Writing back a row object changes only columns, and only to values the object has.
LEMMA OrmWriteType ==
  ASSUME NEW db \in Row, NEW read \in Row, NEW new \in Row
  PROVE  OrmWrite(db, read, new) \in Row
BY DEF OrmWrite, Column, Row

\* The status after a write is the database's own or the one the session set.
LEMMA OrmWriteFields ==
  ASSUME NEW db, NEW read, NEW new
  PROVE  /\ OrmWrite(db, read, new).status =
              IF new.status # read.status THEN new.status ELSE db.status
         /\ OrmWrite(db, read, new).lock_expires_at =
              IF new.lock_expires_at # read.lock_expires_at
              THEN new.lock_expires_at ELSE db.lock_expires_at
BY DEF OrmWrite, Column

\* Every mark_* method, and the lease, turns a row into a row.
LEMMA MarkedType ==
  ASSUME NEW row \in Row, NEW status \in Status
  PROVE  Marked(row, status) \in Row
BY DEF Marked, Row, LockAges

LEMMA MarkTypes ==
  ASSUME NEW row \in Row
  PROVE  /\ MarkSucceeded(row) \in Row /\ MarkFailed(row) \in Row
         /\ MarkBlocked(row) \in Row /\ MarkDeadLetter(row) \in Row
         /\ MarkDeferred(row, RetryDue) \in Row /\ MarkCancelled(row) \in Row
         /\ MarkQueued(row) \in Row /\ MarkRetried(row) \in Row
         /\ Leased(row) \in Row
<1>1. {"succeeded", "failed", "blocked", "dead_letter", "deferred", "cancelled", "queued"}
        \subseteq Status
  BY DEF Status, Leasable, Settled
<1>2. MarkSucceeded(row) \in Row /\ MarkFailed(row) \in Row
  BY <1>1, MarkedType DEF MarkSucceeded, MarkFailed
<1>3. MarkBlocked(row) \in Row /\ MarkDeadLetter(row) \in Row
  BY <1>1, MarkedType DEF MarkBlocked, MarkDeadLetter
<1>4. MarkDeferred(row, RetryDue) \in Row
  <2>1. Marked(row, "deferred") \in Row
    BY <1>1, MarkedType
  <2> QED BY <2>1 DEF MarkDeferred, RetryDue, Row
<1>5. MarkCancelled(row) \in Row
  <2>1. Marked(row, "cancelled") \in Row
    BY <1>1, MarkedType
  <2> QED BY <2>1 DEF MarkCancelled, Row
<1>6. MarkRetried(row) \in Row
  <2>1. Marked(row, "queued") \in Row
    BY <1>1, MarkedType
  <2> QED BY <2>1 DEF MarkRetried, Row
<1>7. MarkQueued(row) \in Row
  BY DEF MarkQueued, Row, Status, Leasable
<1>8. Leased(row) \in Row
  <2>1. row.attempt_count + 1 \in Nat
    BY DEF Row
  <2>2. "sending" \in Status /\ "live" \in LockAges
    BY DEF Status, LockAges
  <2> QED BY <2>1, <2>2 DEF Leased, Row
<1> QED BY <1>2, <1>3, <1>4, <1>5, <1>6, <1>7, <1>8

\* Statuses and locks the marks leave.
LEMMA MarkFields ==
  ASSUME NEW row \in Row
  PROVE  /\ MarkSucceeded(row).status = "succeeded" /\ MarkSucceeded(row).lock_expires_at = "none"
         /\ MarkFailed(row).status = "failed" /\ MarkFailed(row).lock_expires_at = "none"
         /\ MarkBlocked(row).status = "blocked" /\ MarkBlocked(row).lock_expires_at = "none"
         /\ MarkDeadLetter(row).status = "dead_letter"
         /\ MarkDeadLetter(row).lock_expires_at = "none"
         /\ MarkDeferred(row, RetryDue).status = "deferred"
         /\ MarkDeferred(row, RetryDue).lock_expires_at = "none"
         /\ MarkCancelled(row).status = "cancelled"
         /\ MarkCancelled(row).lock_expires_at = "none"
         /\ MarkQueued(row).status = "queued"
         /\ MarkQueued(row).lock_expires_at = row.lock_expires_at
         /\ MarkRetried(row).status = "queued" /\ MarkRetried(row).lock_expires_at = "none"
         /\ Leased(row).status = "sending" /\ Leased(row).lock_expires_at = "live"
BY DEF MarkSucceeded, MarkFailed, MarkBlocked, MarkDeadLetter, MarkDeferred, MarkCancelled,
       MarkQueued, MarkRetried, Marked, Leased, Row

LEMMA AbsentRowType == AbsentRow \in Row
BY DEF AbsentRow, Row, Status, LockAges

-----------------------------------------------------------------------------
(* Types.                                                                  *)

LEMMA IdleTypes == IdleWorker \in Run /\ IdleSession \in Handler
BY AbsentRowType DEF IdleWorker, IdleSession, Run, Handler, WorkerPc, SessionOp

\* What the actions' common steps do to the types.
LEMMA HoldType ==
  ASSUME TypeOK, NEW s \in Sessions, NEW op \in SessionOp, NEW r \in Rows, NEW snap \in Row,
         NEW prev \in {"none", "past", "future"}, Hold(s, op, r, snap, prev)
  PROVE  /\ sess' \in [Sessions -> Handler]
         /\ \A t \in Sessions : sess'[t].op \notin {"idle", "release"} => sess'[t].row \in Rows
BY DEF TypeOK, Hold, Handler

LEMMA AnswerType ==
  ASSUME TypeOK, NEW s \in Sessions, Answer(s)
  PROVE  /\ sess' \in [Sessions -> Handler]
         /\ \A t \in Sessions : sess'[t].op \notin {"idle", "release"} => sess'[t].row \in Rows
BY IdleTypes DEF TypeOK, Answer, IdleSession

LEMMA CommitType ==
  ASSUME TypeOK, NEW s \in Sessions, sess[s].row \in Rows, NEW new \in Row, Commit(s, new)
  PROVE  rows' \in [Rows -> Row]
<1>1. sess[s].snap \in Row
  BY DEF TypeOK, Handler
<1>2. OrmWrite(rows[sess[s].row], sess[s].snap, new) \in Row
  BY <1>1, OrmWriteType DEF TypeOK
<1> QED BY <1>2 DEF TypeOK, Commit

LEMMA ReleasedType ==
  ASSUME TypeOK, NEW stale
  PROVE  Released(stale) \in [Rows -> Row]
<1>1. \A r \in Rows : [rows[r] EXCEPT !.status = "queued", !.lock_expires_at = "none"] \in Row
  BY DEF TypeOK, Row, Status, Leasable, LockAges
<1> QED BY <1>1 DEF Released, TypeOK

LEMMA DeliveryType ==
  ASSUME TypeOK, NEW r \in Rows,
         \/ Accepted(r) \/ Unheard(r)
         \/ UNCHANGED <<delivered, faults>>
         \/ Fault /\ (UNCHANGED delivered \/ TakenBy(r, 1))
  PROVE  delivered' \in [Rows -> Nat] /\ faults' \in Nat
<1>1. ASSUME NEW times \in Nat, TakenBy(r, times)
      PROVE  delivered' \in [Rows -> Nat]
  <2>1. delivered[r] + times \in Nat
    BY DEF TypeOK
  <2> QED BY <1>1, <2>1 DEF TypeOK, TakenBy
<1>2. TakenBy(r, 1) \/ TakenBy(r, 2) \/ UNCHANGED delivered
  BY DEF Accepted, Unheard
<1>3. faults' = faults \/ faults' = faults + 1
  BY DEF Accepted, Unheard, Fault
<1>4. delivered' \in [Rows -> Nat]
  BY <1>1, <1>2 DEF TypeOK
<1> QED BY <1>3, <1>4 DEF TypeOK

LEMMA CounterTypes ==
  ASSUME TypeOK
  PROVE  /\ Fault => faults' \in Nat
         /\ \A op : Operator(op) => ops' \in Nat
BY DEF TypeOK, Fault, Operator

LEMMA EndRunType ==
  ASSUME TypeOK, NEW w \in Workers, EndRun(w) \/ EndRow(w)
  PROVE  /\ wk' \in [Workers -> Run] /\ tasks' \subseteq Rows
         /\ \A v \in Workers : wk'[v].pc \in {"leased", "accepted", "notifying"} =>
                               wk'[v].row \in Rows
<1>1. tasks' \subseteq Rows
  BY DEF TypeOK, EndRun, EndRow, Acknowledged
<1>2. CASE EndRun(w)
  BY <1>1, <1>2, IdleTypes DEF TypeOK, EndRun, IdleWorker
<1>3. CASE EndRow(w)
  <2>1. [IdleWorker EXCEPT !.pc = "looping", !.todo = wk[w].todo] \in Run
    BY IdleTypes DEF TypeOK, Run, WorkerPc
  <2> QED BY <1>1, <1>3, <2>1, IdleTypes DEF TypeOK, EndRow, IdleWorker
<1> QED BY <1>2, <1>3

LEMMA RecordType ==
  ASSUME TypeOK, NEW w \in Workers, wk[w].row \in Rows, NEW outcome \in Outcome,
         RecordAttempt(w, outcome)
  PROVE  log' \in [Rows -> Seq([attempt : Nat, outcome : Outcome])]
<1>1. [attempt |-> Attempt(w), outcome |-> outcome] \in [attempt : Nat, outcome : Outcome]
  BY DEF TypeOK, Attempt, Run, Row
<1>2. log[wk[w].row] \in Seq([attempt : Nat, outcome : Outcome])
  BY DEF TypeOK
<1>3. Append(log[wk[w].row], [attempt |-> Attempt(w), outcome |-> outcome])
        \in Seq([attempt : Nat, outcome : Outcome])
  BY <1>1, <1>2
<1> QED BY <1>3 DEF TypeOK, RecordAttempt

LEMMA RecordOnceType ==
  ASSUME TypeOK, NEW w \in Workers, wk[w].row \in Rows, RecordSuccessOnce(w)
  PROVE  log' \in [Rows -> Seq([attempt : Nat, outcome : Outcome])]
<1>1. "succeeded" \in Outcome
  BY DEF Outcome
<1>2. CASE UNCHANGED log
  BY <1>2 DEF TypeOK
<1>3. CASE RecordAttempt(w, "succeeded")
  BY <1>1, <1>3, RecordType
<1> QED BY <1>2, <1>3 DEF RecordSuccessOnce

LEMMA WorkerWriteType ==
  ASSUME TypeOK, NEW w \in Workers, wk[w].row \in Rows, NEW new \in Row,
         rows' = [rows EXCEPT ![wk[w].row] = OrmWrite(@, wk[w].snap, new)]
  PROVE  rows' \in [Rows -> Row]
<1>1. wk[w].snap \in Row
  BY DEF TypeOK, Run
<1>2. OrmWrite(rows[wk[w].row], wk[w].snap, new) \in Row
  BY <1>1, OrmWriteType DEF TypeOK
<1> QED BY <1>2 DEF TypeOK

LEMMA FinishRowType ==
  ASSUME TypeOK, NEW w \in Workers, wk[w].row \in Rows, NEW outcome \in Outcome,
         NEW new \in Row, FinishRow(w, outcome, new)
  PROVE  /\ rows' \in [Rows -> Row]
         /\ log' \in [Rows -> Seq([attempt : Nat, outcome : Outcome])]
         /\ wk' \in [Workers -> Run] /\ tasks' \subseteq Rows
         /\ \A v \in Workers : wk'[v].pc \in {"leased", "accepted", "notifying"} =>
                               wk'[v].row \in Rows
BY WorkerWriteType, RecordType, EndRunType DEF FinishRow

\* Every step keeps the types.
LEMMA TypeStep == TypeOK /\ [Next]_vars => TypeOK'
<1> SUFFICES ASSUME TypeOK, [Next]_vars PROVE TypeOK'
  OBVIOUS
<1> USE LimitsAssumption
<1>1. ASSUME NEW s \in Sessions, Request(s)
      PROVE  TypeOK'
  <2>1. ASSUME NEW r \in Rows, NEW mode \in {"sync", "now", "later"}, CreateHistory(s, r, mode)
        PROVE  TypeOK'
    <3> DEFINE new == [AbsentRow EXCEPT
                         !.status = IF mode = "sync" THEN "created" ELSE "queued",
                         !.next_retry_at = IF mode = "later" THEN "future" ELSE "none"]
    <3>1. new \in Row
      BY AbsentRowType DEF AbsentRow, Row, Status, Leasable
    <3>2. rows' \in [Rows -> Row]
      BY <2>1, <3>1 DEF CreateHistory, TypeOK
    <3>3. \/ Hold(s, "sync", r, new, "none") \/ Hold(s, "enqueue", r, new, "none")
          \/ UNCHANGED sess
      BY <2>1 DEF CreateHistory
    <3>4. /\ sess' \in [Sessions -> Handler]
          /\ \A t \in Sessions : sess'[t].op \notin {"idle", "release"} => sess'[t].row \in Rows
      <4>1. "sync" \in SessionOp /\ "enqueue" \in SessionOp
        BY DEF SessionOp
      <4>2. CASE UNCHANGED sess
        BY <4>2 DEF TypeOK
      <4> QED BY <3>1, <3>3, <4>1, <4>2, HoldType
    <3> HIDE DEF new
    <3> QED BY <2>1, <3>2, <3>4 DEF CreateHistory, TypeOK
  <2>2. ASSUME NEW r \in Rows,
               ReplayHistory(s, r) \/ ReadForCancel(s, r) \/ ReadForRetry(s, r)
        PROVE  TypeOK'
    <3>1. \E op \in {"enqueue", "cancel", "retry"}, prev \in {"none", "past", "future"} :
             Hold(s, op, r, rows[r], prev)
      <4>1. rows[r].next_retry_at \in {"none", "past", "future"}
        BY DEF TypeOK, Row
      <4> QED BY <2>2, <4>1 DEF ReplayHistory, ReadForCancel, ReadForRetry
    <3>2. /\ sess' \in [Sessions -> Handler]
          /\ \A t \in Sessions : sess'[t].op \notin {"idle", "release"} => sess'[t].row \in Rows
      <4>1. {"enqueue", "cancel", "retry"} \subseteq SessionOp /\ rows[r] \in Row
        BY DEF SessionOp, TypeOK
      <4> QED BY <3>1, <4>1, HoldType
    <3>3. ops' \in Nat
      BY <2>2 DEF ReplayHistory, ReadForCancel, ReadForRetry, Operator, TypeOK
    <3> QED BY <2>2, <3>2, <3>3 DEF ReplayHistory, ReadForCancel, ReadForRetry, TypeOK
  <2>3. CASE ReadForRelease(s)
    <3>1. [IdleSession EXCEPT !.op = "release", !.stale = StaleLocks({"expired", "stale"})]
            \in Handler
      BY IdleTypes DEF Handler, SessionOp, StaleLocks
    <3>2. ops' \in Nat
      BY <2>3, CounterTypes DEF ReadForRelease
    <3> QED BY <2>3, <3>1, <3>2 DEF ReadForRelease, TypeOK, IdleSession
  <2> QED BY <1>1, <2>1, <2>2, <2>3 DEF Request
<1>2. ASSUME NEW s \in Sessions, SessionStep(s)
      PROVE  TypeOK'
  <2>1. sess[s] \in Handler /\ sess[s].snap \in Row /\ sess[s].row \in Rows \cup {NoRow}
    BY DEF TypeOK, Handler
  <2>2. sess[s].op \notin {"idle", "release"} => sess[s].row \in Rows
    BY DEF TypeOK
  <2>3. CASE EnqueueTask(s)
    BY <2>1, <2>2, <2>3 DEF EnqueueTask, TypeOK, Handler, SessionOp
  <2>4. CASE CommitTaskId(s)
    BY <2>1, <2>2, <2>4, MarkTypes, CommitType, AnswerType DEF CommitTaskId, TypeOK
  <2>5. CASE SyncAccepted(s)
    <3>1. delivered' \in [Rows -> Nat] /\ faults' \in Nat
      BY <2>2, <2>5, DeliveryType DEF SyncAccepted
    <3> QED BY <2>1, <2>2, <2>5, <3>1 DEF SyncAccepted, TypeOK, Handler, SessionOp
  <2>6. CASE SyncRefused(s)
    <3>1. delivered' \in [Rows -> Nat] /\ faults' \in Nat
      BY <2>2, <2>6, DeliveryType DEF SyncRefused
    <3> QED BY <2>1, <2>2, <2>6, <3>1, MarkTypes, CommitType, AnswerType DEF SyncRefused, TypeOK
  <2>7. CASE SyncSucceeded(s)
    BY <2>1, <2>2, <2>7, MarkTypes, CommitType, AnswerType DEF SyncSucceeded, TypeOK
  <2>8. CASE CommitCancel(s)
    BY <2>1, <2>2, <2>8, MarkTypes, CommitType, AnswerType DEF CommitCancel, TypeOK
  <2>9. CASE CommitRetry(s)
    <3> DEFINE new == MarkRetried(sess[s].snap)
    <3>1. new \in Row /\ sess[s].row \in Rows
      BY <2>1, <2>2, <2>9, MarkTypes DEF CommitRetry
    <3>2. rows' \in [Rows -> Row]
      BY <2>9, <3>1, CommitType DEF CommitRetry
    <3>3. \/ Hold(s, "enqueue", sess[s].row, new, "none")
          \/ Hold(s, "restore", sess[s].row, new, sess[s].prev)
      BY <2>9 DEF CommitRetry
    <3>4. /\ sess' \in [Sessions -> Handler]
          /\ \A t \in Sessions : sess'[t].op \notin {"idle", "release"} => sess'[t].row \in Rows
      <4>1. {"enqueue", "restore"} \subseteq SessionOp
            /\ sess[s].prev \in {"none", "past", "future"}
        BY <2>1 DEF SessionOp, Handler
      <4> HIDE DEF new
      <4> QED BY <3>1, <3>3, <4>1, HoldType
    <3> QED BY <2>9, <3>2, <3>4 DEF CommitRetry, TypeOK
  <2>10. CASE CommitRestore(s)
    <3> DEFINE new == [sess[s].snap EXCEPT !.next_retry_at = sess[s].prev]
    <3>1. new \in Row /\ sess[s].row \in Rows
      BY <2>1, <2>2, <2>10 DEF CommitRestore, Row, Handler
    <3>2. rows' \in [Rows -> Row]
      BY <2>10, <3>1, CommitType DEF CommitRestore
    <3>3. Hold(s, "enqueue", sess[s].row, new, "none") \/ Answer(s)
      BY <2>10 DEF CommitRestore
    <3>4. /\ sess' \in [Sessions -> Handler]
          /\ \A t \in Sessions : sess'[t].op \notin {"idle", "release"} => sess'[t].row \in Rows
      <4>1. "enqueue" \in SessionOp
        BY DEF SessionOp
      <4> HIDE DEF new
      <4> QED BY <3>1, <3>3, <4>1, HoldType, AnswerType
    <3> QED BY <2>10, <3>2, <3>4 DEF CommitRestore, TypeOK
  <2>11. CASE CommitRelease(s)
    BY <2>11, ReleasedType, AnswerType DEF CommitRelease, TypeOK
  <2> QED BY <1>2, <2>3, <2>4, <2>5, <2>6, <2>7, <2>8, <2>9, <2>10, <2>11 DEF SessionStep
<1>3. ASSUME NEW s \in Sessions, SessionDies(s)
      PROVE  TypeOK'
  <2>1. faults' \in Nat
    BY <1>3, CounterTypes DEF SessionDies
  <2> QED BY <1>3, <2>1, AnswerType DEF SessionDies, TypeOK
<1>4. ASSUME NEW s \in Sessions, RipenHeld(s)
      PROVE  TypeOK'
  BY <1>4 DEF RipenHeld, TypeOK, Handler
<1>5. ASSUME NEW w \in Workers, RunStep(w)
      PROVE  TypeOK'
  <2>1. wk[w] \in Run /\ wk[w].snap \in Row /\ wk[w].todo \subseteq Rows
    BY DEF TypeOK, Run
  <2>2. wk[w].pc \in {"leased", "accepted", "notifying"} => wk[w].row \in Rows
    BY DEF TypeOK
  <2>3. CASE StartDueRun(w)
    <3>1. [IdleWorker EXCEPT !.pc = "releasing", !.stale = StaleLocks({"stale"})] \in Run
      BY IdleTypes DEF Run, WorkerPc, StaleLocks
    <3> QED BY <2>3, <3>1 DEF StartDueRun, TypeOK, IdleWorker
  <2>4. CASE CommitStaleRelease(w)
    <3>1. [IdleWorker EXCEPT !.pc = "looping", !.todo = ReadyRows'] \in Run
      BY IdleTypes DEF Run, WorkerPc, ReadyRows
    <3> QED BY <2>4, <3>1, ReleasedType DEF CommitStaleRelease, TypeOK, IdleWorker
  <2>5. CASE EndDueRun(w)
    BY <2>5, IdleTypes DEF EndDueRun, TypeOK, IdleWorker
  <2>6. ASSUME NEW r \in Rows, NEW src \in {"task", "due"}, AcquireLease(w, r, src)
        PROVE  TypeOK'
    <3>1. Leased(rows[r]) \in Row
      BY MarkTypes DEF TypeOK
    <3>2. [pc |-> "leased", row |-> r, snap |-> Leased(rows[r]), src |-> src,
           todo |-> wk[w].todo \ {r}, stale |-> {}] \in Run
      BY <2>1, <3>1 DEF Run, WorkerPc
    <3> QED BY <2>6, <3>1, <3>2 DEF AcquireLease, TypeOK
  <2>7. ASSUME NEW r \in Rows, NEW src \in {"task", "due"}, SkipRow(w, r, src)
        PROVE  TypeOK'
    <3>1. [wk[w] EXCEPT !.todo = @ \ {r}] \in Run
      BY <2>1 DEF Run
    <3>2. CASE UNCHANGED wk
      BY <2>7, <3>2 DEF SkipRow, TypeOK
    <3>3. CASE src = "due"
      <4>1. wk' = [wk EXCEPT ![w] = [wk[w] EXCEPT !.todo = @ \ {r}]] /\ UNCHANGED tasks
        BY <2>7, <3>3 DEF SkipRow, TypeOK
      <4>2. wk' \in [Workers -> Run]
        BY <3>1, <4>1 DEF TypeOK
      <4>3. \A v \in Workers : wk'[v].pc \in {"leased", "accepted", "notifying"} =>
                              wk'[v].row \in Rows
        BY <4>1 DEF TypeOK, Run
      <4> QED BY <2>7, <4>1, <4>2, <4>3 DEF SkipRow, TypeOK
    <3> QED BY <2>7, <3>2, <3>3 DEF SkipRow
  <2>8. ASSUME NEW r \in Rows, NEW src \in {"task", "due"}, BotMissing(w, r, src)
        PROVE  TypeOK'
    BY <2>8, IdleTypes DEF BotMissing, TypeOK, IdleWorker
  <2>9. CASE TelegramTransient(w)
    <3>1. delivered' \in [Rows -> Nat] /\ faults' \in Nat
      BY <2>2, <2>9, DeliveryType DEF TelegramTransient
    <3>2. \/ FinishRow(w, "dead_letter", MarkDeadLetter(wk[w].snap))
          \/ FinishRow(w, "deferred", MarkDeferred(wk[w].snap, RetryDue))
      BY <2>9 DEF TelegramTransient
    <3>3. cooling' \subseteq Rows
      BY <2>2, <2>9 DEF TelegramTransient, TypeOK
    <3>4. {"dead_letter", "deferred"} \subseteq Outcome
      BY DEF Outcome
    <3>5. wk[w].row \in Rows
      BY <2>2, <2>9 DEF TelegramTransient
    <3>6. /\ rows' \in [Rows -> Row]
          /\ log' \in [Rows -> Seq([attempt : Nat, outcome : Outcome])]
          /\ wk' \in [Workers -> Run] /\ tasks' \subseteq Rows
          /\ \A v \in Workers : wk'[v].pc \in {"leased", "accepted", "notifying"} =>
                                wk'[v].row \in Rows
      BY <2>1, <3>2, <3>4, <3>5, MarkTypes, FinishRowType
    <3> QED BY <2>9, <3>1, <3>3, <3>6 DEF TelegramTransient, TypeOK
  <2>10. CASE TelegramPermanent(w)
    <3>1. "blocked" \in Outcome
      BY DEF Outcome
    <3>2. /\ rows' \in [Rows -> Row]
          /\ log' \in [Rows -> Seq([attempt : Nat, outcome : Outcome])]
          /\ wk' \in [Workers -> Run] /\ tasks' \subseteq Rows
          /\ \A v \in Workers : wk'[v].pc \in {"leased", "accepted", "notifying"} =>
                                wk'[v].row \in Rows
      BY <2>1, <2>2, <2>10, <3>1, MarkTypes, FinishRowType DEF TelegramPermanent
    <3> QED BY <2>10, <3>2 DEF TelegramPermanent, TypeOK
  <2>11. CASE TelegramAccepts(w)
    <3>1. delivered' \in [Rows -> Nat] /\ faults' \in Nat
      BY <2>2, <2>11, DeliveryType DEF TelegramAccepts
    <3> QED BY <2>1, <2>2, <2>11, <3>1 DEF TelegramAccepts, TypeOK, Run, WorkerPc
  <2>12. CASE CompleteSuccess(w)
    <3> DEFINE new == MarkSucceeded(wk[w].snap)
    <3>1. new \in Row
      BY <2>1, MarkTypes
    <3>2. rows' \in [Rows -> Row]
      BY <2>2, <2>12, <3>1, WorkerWriteType DEF CompleteSuccess
    <3>3. log' \in [Rows -> Seq([attempt : Nat, outcome : Outcome])]
      BY <2>2, <2>12, RecordOnceType DEF CompleteSuccess
    <3>4. [wk[w] EXCEPT !.pc = "notifying", !.snap = new] \in Run
      BY <2>1, <3>1 DEF Run, WorkerPc
    <3>5. wk' = [wk EXCEPT ![w] = [wk[w] EXCEPT !.pc = "notifying", !.snap = new]]
      BY <2>12 DEF CompleteSuccess, TypeOK
    <3>6. wk' \in [Workers -> Run]
      BY <3>4, <3>5 DEF TypeOK
    <3>7. \A v \in Workers : wk'[v].pc \in {"leased", "accepted", "notifying"} =>
                            wk'[v].row \in Rows
      BY <2>2, <2>12, <3>5 DEF CompleteSuccess, TypeOK
    <3> HIDE DEF new
    <3> QED BY <2>12, <3>2, <3>3, <3>6, <3>7 DEF CompleteSuccess, TypeOK
  <2>13. CASE Notified(w)
    BY <2>13, EndRunType DEF Notified, TypeOK
  <2> QED BY <1>5, <2>3, <2>4, <2>5, <2>6, <2>7, <2>8, <2>9, <2>10, <2>11, <2>12, <2>13
          DEF RunStep
<1>6. ASSUME NEW w \in Workers, RunFault(w)
      PROVE  TypeOK'
  <2>1. wk[w].snap \in Row
    BY DEF TypeOK, Run
  <2>2. wk[w].pc \in {"leased", "accepted", "notifying"} => wk[w].row \in Rows
    BY DEF TypeOK
  <2>3. CASE DeferLocally(w)
    <3>1. wk[w].row \in Rows /\ "deferred" \in Outcome
      BY <2>2, <2>3 DEF DeferLocally, Outcome
    <3>2. delivered' \in [Rows -> Nat] /\ faults' \in Nat
      BY <2>3, <3>1, DeliveryType DEF DeferLocally
    <3>3. /\ rows' \in [Rows -> Row]
          /\ log' \in [Rows -> Seq([attempt : Nat, outcome : Outcome])]
          /\ wk' \in [Workers -> Run] /\ tasks' \subseteq Rows
          /\ \A v \in Workers : wk'[v].pc \in {"leased", "accepted", "notifying"} =>
                                wk'[v].row \in Rows
      BY <2>1, <2>3, <3>1, MarkTypes, FinishRowType DEF DeferLocally
    <3> QED BY <2>3, <3>2, <3>3 DEF DeferLocally, TypeOK
  <2>4. CASE CancelledWhileNotifying(w)
    <3>1. wk[w].row \in Rows /\ faults' \in Nat
      BY <2>2, <2>4 DEF CancelledWhileNotifying, Fault, TypeOK
    <3>2. rows' \in [Rows -> Row]
      BY <2>1, <2>4, <3>1, MarkTypes, WorkerWriteType DEF CancelledWhileNotifying
    <3>3. log' \in [Rows -> Seq([attempt : Nat, outcome : Outcome])]
      BY <2>4, <3>1, RecordOnceType DEF CancelledWhileNotifying
    <3> QED BY <2>4, <3>1, <3>2, <3>3, EndRunType DEF CancelledWhileNotifying, TypeOK
  <2>5. CASE CancelledWhileSending(w)
    <3>1. wk[w].row \in Rows /\ "interrupted" \in Outcome
      BY <2>2, <2>5 DEF CancelledWhileSending, Outcome
    <3>2. delivered' \in [Rows -> Nat] /\ faults' \in Nat
      BY <2>5, <3>1, DeliveryType DEF CancelledWhileSending
    <3>3. log' \in [Rows -> Seq([attempt : Nat, outcome : Outcome])]
      BY <2>5, <3>1, RecordType DEF CancelledWhileSending
    <3> QED BY <2>5, <3>2, <3>3, EndRunType DEF CancelledWhileSending, TypeOK
  <2>6. CASE FinishFails(w)
    <3>1. faults' \in Nat
      BY <2>6, CounterTypes DEF FinishFails
    <3> QED BY <2>6, <3>1, EndRunType DEF FinishFails, TypeOK
  <2>7. CASE WorkerDies(w)
    <3>1. faults' \in Nat
      BY <2>7, CounterTypes DEF WorkerDies
    <3> QED BY <2>7, <3>1, IdleTypes DEF WorkerDies, TypeOK, IdleWorker
  <2> QED BY <1>6, <2>3, <2>4, <2>5, <2>6, <2>7 DEF RunFault
<1>7. ASSUME NEW r \in Rows, LeaseAges(r)
      PROVE  TypeOK'
  <2>1. [rows[r] EXCEPT !.lock_expires_at = Older[rows[r].lock_expires_at]] \in Row
    <3>1. Older[rows[r].lock_expires_at] \in LockAges
      BY <1>7 DEF LeaseAges, LockAges, Older
    <3> QED BY <3>1 DEF TypeOK, Row
  <2> QED BY <1>7, <2>1 DEF LeaseAges, TypeOK
<1>8. ASSUME NEW r \in Rows, Ripen(r)
      PROVE  TypeOK'
  <2>1. [rows[r] EXCEPT !.next_retry_at = "past"] \in Row
    BY DEF TypeOK, Row
  <2> QED BY <1>8, <2>1 DEF Ripen, TypeOK
<1>9. ASSUME NEW r \in Rows, DeactivateBot(r)
      PROVE  TypeOK'
  <2>1. ops' \in Nat
    BY <1>9, CounterTypes DEF DeactivateBot
  <2> QED BY <1>9, <2>1 DEF DeactivateBot, TypeOK
<1>10. CASE UNCHANGED vars
  BY <1>10 DEF vars, TypeOK
<1> QED BY <1>1, <1>2, <1>3, <1>4, <1>5, <1>6, <1>7, <1>8, <1>9, <1>10 DEF Next

(***************************************************************************)
(* The variables keep their types in every behaviour: whatever a stale     *)
(* write of the unit of work combines (OrmWrite), the row stays a row.     *)
(***************************************************************************)
THEOREM TypeCorrect == Spec => []TypeOK
<1>1. Init => TypeOK
  BY AbsentRowType, IdleTypes DEF Init, TypeOK, IdleWorker, IdleSession
<1> QED BY <1>1, TypeStep, PTL DEF Spec

-----------------------------------------------------------------------------
(* The row objects held across a read and a write.                         *)

\* What a handler, or a run, remembers of its row says how its write will differ from it.
HandlerSnap(h) ==
  /\ h.op \in {"enqueue", "mark", "restore"} => h.snap.status = "queued"
  /\ h.op \in {"sync", "synced"} => h.snap.status = "created"
  /\ h.op = "cancel" => h.snap.status \in Cancellable
  /\ h.op = "retry" => h.snap.status \in Retryable
RunSnap(run) ==
  /\ run.pc \in {"leased", "accepted"} => run.snap.status = "sending"
  /\ run.pc = "notifying" => run.snap.status = "succeeded" /\ run.snap.lock_expires_at = "none"
SnapsSound ==
  /\ \A s \in Sessions : HandlerSnap(sess[s])
  /\ \A w \in Workers : RunSnap(wk[w])

LEMMA IdleSnaps ==
  /\ HandlerSnap(IdleSession) /\ RunSnap(IdleWorker)
  /\ \A todo, stale, pc : pc \in {"releasing", "looping"} =>
        /\ RunSnap([IdleWorker EXCEPT !.pc = pc, !.todo = todo])
        /\ RunSnap([IdleWorker EXCEPT !.pc = pc, !.stale = stale])
  /\ \A stale : HandlerSnap([IdleSession EXCEPT !.op = "release", !.stale = stale])
BY DEF HandlerSnap, RunSnap, IdleSession, IdleWorker

LEMMA SnapsStep == TypeOK /\ SnapsSound /\ [Next]_vars => SnapsSound'
<1> SUFFICES ASSUME TypeOK, SnapsSound, [Next]_vars PROVE SnapsSound'
  OBVIOUS
<1>1. ASSUME NEW s \in Sessions, NEW h, sess' = [sess EXCEPT ![s] = h], HandlerSnap(h),
             UNCHANGED wk
      PROVE  SnapsSound'
  BY <1>1 DEF SnapsSound, TypeOK
<1>2. ASSUME NEW w \in Workers, NEW run, wk' = [wk EXCEPT ![w] = run], RunSnap(run),
             UNCHANGED sess
      PROVE  SnapsSound'
  BY <1>2 DEF SnapsSound, TypeOK
<1>3. UNCHANGED <<sess, wk>> => SnapsSound'
  BY DEF SnapsSound
<1>4. ASSUME NEW s \in Sessions, UNCHANGED wk,
             \/ Answer(s)
             \/ \E op, r, snap, prev :
                  /\ Hold(s, op, r, snap, prev)
                  /\ HandlerSnap([op |-> op, row |-> r, snap |-> snap, prev |-> prev,
                                  stale |-> {}])
      PROVE  SnapsSound'
  BY <1>1, <1>4, IdleSnaps DEF Answer, Hold
<1>5. ASSUME NEW w \in Workers, EndRun(w) \/ EndRow(w), UNCHANGED sess
      PROVE  SnapsSound'
  BY <1>2, <1>5, IdleSnaps DEF EndRun, EndRow
<1>6. ASSUME NEW s \in Sessions, Request(s)
      PROVE  SnapsSound'
  <2>1. ASSUME NEW r \in Rows, NEW mode \in {"sync", "now", "later"}, CreateHistory(s, r, mode)
        PROVE  SnapsSound'
    <3> DEFINE new == [AbsentRow EXCEPT
                         !.status = IF mode = "sync" THEN "created" ELSE "queued",
                         !.next_retry_at = IF mode = "later" THEN "future" ELSE "none"]
    <3>1. new.status = IF mode = "sync" THEN "created" ELSE "queued"
      BY DEF AbsentRow
    <3>2. HandlerSnap([op |-> "sync", row |-> r, snap |-> new, prev |-> "none", stale |-> {}])
            \/ mode # "sync"
      BY <3>1 DEF HandlerSnap
    <3>3. HandlerSnap([op |-> "enqueue", row |-> r, snap |-> new, prev |-> "none",
                       stale |-> {}])
            \/ mode = "sync"
      BY <3>1 DEF HandlerSnap
    <3>4. /\ UNCHANGED wk
          /\ \/ mode = "sync" /\ Hold(s, "sync", r, new, "none")
             \/ mode = "now" /\ Hold(s, "enqueue", r, new, "none")
             \/ UNCHANGED sess
      BY <2>1 DEF CreateHistory
    <3> HIDE DEF new
    <3> QED BY <1>1, <1>3, <3>2, <3>3, <3>4 DEF Hold
  <2>2. CASE \E r \in Rows : ReplayHistory(s, r)
    BY <1>1, <2>2 DEF ReplayHistory, Hold, HandlerSnap
  <2>3. CASE \E r \in Rows : ReadForCancel(s, r)
    BY <1>1, <2>3 DEF ReadForCancel, Hold, HandlerSnap
  <2>4. CASE \E r \in Rows : ReadForRetry(s, r)
    BY <1>1, <2>4 DEF ReadForRetry, Hold, HandlerSnap
  <2>5. CASE ReadForRelease(s)
    BY <1>1, <2>5, IdleSnaps DEF ReadForRelease
  <2> QED BY <1>6, <2>1, <2>2, <2>3, <2>4, <2>5 DEF Request
<1>7. ASSUME NEW s \in Sessions, SessionStep(s)
      PROVE  SnapsSound'
  <2>1. HandlerSnap(sess[s]) /\ sess[s] \in Handler /\ sess[s].snap \in Row
    BY DEF SnapsSound, TypeOK, Handler
  <2>2. CASE EnqueueTask(s)
    <3>1. HandlerSnap([sess[s] EXCEPT !.op = "mark"])
      BY <2>1, <2>2 DEF EnqueueTask, HandlerSnap, Handler
    <3>2. sess' = [sess EXCEPT ![s] = [sess[s] EXCEPT !.op = "mark"]] /\ UNCHANGED wk
      BY <2>2 DEF EnqueueTask, TypeOK
    <3> QED BY <1>1, <3>1, <3>2
  <2>3. CASE SyncAccepted(s)
    <3>1. HandlerSnap([sess[s] EXCEPT !.op = "synced"])
      BY <2>1, <2>3 DEF SyncAccepted, HandlerSnap, Handler
    <3>2. sess' = [sess EXCEPT ![s] = [sess[s] EXCEPT !.op = "synced"]] /\ UNCHANGED wk
      BY <2>3 DEF SyncAccepted, TypeOK
    <3> QED BY <1>1, <3>1, <3>2
  <2>4. CASE CommitRetry(s)
    <3> DEFINE new == MarkRetried(sess[s].snap)
    <3>1. new.status = "queued"
      BY <2>1, MarkFields
    <3>2. \/ Hold(s, "enqueue", sess[s].row, new, "none")
          \/ Hold(s, "restore", sess[s].row, new, sess[s].prev)
      BY <2>4 DEF CommitRetry
    <3>3. UNCHANGED wk
      BY <2>4 DEF CommitRetry
    <3> HIDE DEF new
    <3> QED BY <1>1, <3>1, <3>2, <3>3 DEF Hold, HandlerSnap
  <2>5. CASE CommitRestore(s)
    <3> DEFINE new == [sess[s].snap EXCEPT !.next_retry_at = sess[s].prev]
    <3>1. new.status = "queued"
      BY <2>1, <2>5 DEF CommitRestore, HandlerSnap, Row
    <3>2. Hold(s, "enqueue", sess[s].row, new, "none") \/ Answer(s)
      BY <2>5 DEF CommitRestore
    <3>3. UNCHANGED wk
      BY <2>5 DEF CommitRestore
    <3> HIDE DEF new
    <3> QED BY <1>1, <1>4, <3>1, <3>2, <3>3 DEF Hold, HandlerSnap
  <2>6. CASE \/ CommitTaskId(s) \/ SyncRefused(s) \/ SyncSucceeded(s)
             \/ CommitCancel(s) \/ CommitRelease(s)
    BY <1>4, <2>6 DEF CommitTaskId, SyncRefused, SyncSucceeded, CommitCancel, CommitRelease
  <2> QED BY <1>7, <2>2, <2>3, <2>4, <2>5, <2>6 DEF SessionStep
<1>8. ASSUME NEW s \in Sessions, SessionDies(s)
      PROVE  SnapsSound'
  BY <1>4, <1>8 DEF SessionDies
<1>9. ASSUME NEW s \in Sessions, RipenHeld(s)
      PROVE  SnapsSound'
  <2>1. HandlerSnap([sess[s] EXCEPT !.prev = "past"])
    BY DEF SnapsSound, HandlerSnap, TypeOK, Handler
  <2>2. sess' = [sess EXCEPT ![s] = [sess[s] EXCEPT !.prev = "past"]] /\ UNCHANGED wk
    BY <1>9 DEF RipenHeld, TypeOK
  <2> QED BY <1>1, <2>1, <2>2
<1>10. ASSUME NEW w \in Workers, RunStep(w)
       PROVE  SnapsSound'
  <2>1. RunSnap(wk[w]) /\ wk[w] \in Run /\ wk[w].snap \in Row
    BY DEF SnapsSound, TypeOK, Run
  <2>2. CASE StartDueRun(w)
    BY <1>2, <2>2, IdleSnaps DEF StartDueRun
  <2>3. CASE CommitStaleRelease(w)
    BY <1>2, <2>3, IdleSnaps DEF CommitStaleRelease
  <2>4. CASE EndDueRun(w)
    BY <1>2, <2>4, IdleSnaps DEF EndDueRun
  <2>5. ASSUME NEW r \in Rows, NEW src \in {"task", "due"}, AcquireLease(w, r, src)
        PROVE  SnapsSound'
    <3>1. Leased(rows[r]).status = "sending"
      BY MarkFields DEF TypeOK
    <3>2. RunSnap([pc |-> "leased", row |-> r, snap |-> Leased(rows[r]), src |-> src,
                   todo |-> wk[w].todo \ {r}, stale |-> {}])
      BY <3>1 DEF RunSnap
    <3> QED BY <1>2, <2>5, <3>2 DEF AcquireLease
  <2>6. ASSUME NEW r \in Rows, NEW src \in {"task", "due"}, SkipRow(w, r, src)
        PROVE  SnapsSound'
    <3>1. UNCHANGED sess
          /\ (UNCHANGED wk \/ wk' = [wk EXCEPT ![w] = [wk[w] EXCEPT !.todo = @ \ {r}]])
      BY <2>6 DEF SkipRow, TypeOK
    <3>2. RunSnap([wk[w] EXCEPT !.todo = @ \ {r}])
      BY <2>1 DEF RunSnap, Run
    <3> QED BY <1>2, <1>3, <3>1, <3>2
  <2>7. ASSUME NEW r \in Rows, NEW src \in {"task", "due"}, BotMissing(w, r, src)
        PROVE  SnapsSound'
    BY <1>2, <2>7, IdleSnaps DEF BotMissing
  <2>8. CASE TelegramTransient(w) \/ TelegramPermanent(w) \/ Notified(w)
    BY <1>5, <2>8 DEF TelegramTransient, TelegramPermanent, Notified, FinishRow
  <2>9. CASE TelegramAccepts(w)
    <3>1. sess' = sess /\ wk' = [wk EXCEPT ![w] = [wk[w] EXCEPT !.pc = "accepted"]]
      BY <2>9 DEF TelegramAccepts, TypeOK
    <3>2. RunSnap([wk[w] EXCEPT !.pc = "accepted"])
      BY <2>1, <2>9 DEF TelegramAccepts, RunSnap, Run
    <3> QED BY <1>2, <3>1, <3>2
  <2>10. CASE CompleteSuccess(w)
    <3> DEFINE new == MarkSucceeded(wk[w].snap)
    <3>1. sess' = sess
          /\ wk' = [wk EXCEPT ![w] = [wk[w] EXCEPT !.pc = "notifying", !.snap = new]]
      BY <2>10 DEF CompleteSuccess, TypeOK
    <3>2. new.status = "succeeded" /\ new.lock_expires_at = "none"
      BY <2>1, MarkFields
    <3> HIDE DEF new
    <3>3. RunSnap([wk[w] EXCEPT !.pc = "notifying", !.snap = new])
      BY <2>1, <3>2 DEF RunSnap, Run
    <3> QED BY <1>2, <3>1, <3>3
  <2> QED BY <1>10, <2>2, <2>3, <2>4, <2>5, <2>6, <2>7, <2>8, <2>9, <2>10 DEF RunStep
<1>11. ASSUME NEW w \in Workers, RunFault(w)
       PROVE  SnapsSound'
  <2>1. CASE \/ DeferLocally(w) \/ CancelledWhileNotifying(w) \/ CancelledWhileSending(w)
             \/ FinishFails(w)
    BY <1>5, <2>1 DEF DeferLocally, CancelledWhileNotifying, CancelledWhileSending,
                      FinishFails, FinishRow
  <2>2. CASE WorkerDies(w)
    BY <1>2, <2>2, IdleSnaps DEF WorkerDies
  <2> QED BY <1>11, <2>1, <2>2 DEF RunFault
<1>12. ASSUME NEW r \in Rows, LeaseAges(r) \/ Ripen(r) \/ DeactivateBot(r)
       PROVE  SnapsSound'
  BY <1>3, <1>12 DEF LeaseAges, Ripen, DeactivateBot
<1>13. CASE UNCHANGED vars
  BY <1>3, <1>13 DEF vars
<1> QED BY <1>6, <1>7, <1>8, <1>9, <1>10, <1>11, <1>12, <1>13 DEF Next

-----------------------------------------------------------------------------
(* No row is stranded.                                                     *)

Recoverable(row) == row.status = "sending" => row.lock_expires_at # "none"

\* A write that sets a final status, or that touches neither status nor lock, strands no row.
LEMMA WriteRecoverable ==
  ASSUME NEW db, NEW read, NEW new, Recoverable(db),
         \/ new.status # read.status /\ new.status # "sending"
         \/ new.status = read.status /\ new.lock_expires_at = read.lock_expires_at
  PROVE  Recoverable(OrmWrite(db, read, new))
BY OrmWriteFields DEF Recoverable

LEMMA OrphanStep == TypeOK /\ SnapsSound /\ NoOrphanedSending /\ [Next]_vars => NoOrphanedSending'
<1> SUFFICES ASSUME TypeOK, SnapsSound, NoOrphanedSending, [Next]_vars
             PROVE  NoOrphanedSending'
  OBVIOUS
<1>1. \A r \in Rows : Recoverable(rows[r])
  BY DEF NoOrphanedSending, Recoverable
<1>2. ASSUME NEW r \in Rows, NEW row, rows' = [rows EXCEPT ![r] = row], Recoverable(row)
      PROVE  NoOrphanedSending'
  BY <1>1, <1>2 DEF NoOrphanedSending, Recoverable, TypeOK
<1>3. UNCHANGED rows => NoOrphanedSending'
  BY DEF NoOrphanedSending
<1>4. ASSUME NEW stale, rows' = Released(stale)
      PROVE  NoOrphanedSending'
  <2>1. ASSUME NEW r \in Rows PROVE Recoverable(rows'[r])
    BY <1>1, <1>4 DEF Released, Recoverable, TypeOK, Row
  <2> QED BY <2>1 DEF NoOrphanedSending, Recoverable
<1>5. ASSUME NEW s \in Sessions, sess[s].row \in Rows, NEW new, Commit(s, new),
             \/ new.status # sess[s].snap.status /\ new.status # "sending"
             \/ /\ new.status = sess[s].snap.status
                /\ new.lock_expires_at = sess[s].snap.lock_expires_at
      PROVE  NoOrphanedSending'
  BY <1>1, <1>2, <1>5, WriteRecoverable DEF Commit
<1>6. ASSUME NEW w \in Workers, wk[w].row \in Rows, NEW new,
             rows' = [rows EXCEPT ![wk[w].row] = OrmWrite(@, wk[w].snap, new)],
             \/ new.status # wk[w].snap.status /\ new.status # "sending"
             \/ /\ new.status = wk[w].snap.status
                /\ new.lock_expires_at = wk[w].snap.lock_expires_at
      PROVE  NoOrphanedSending'
  BY <1>1, <1>2, <1>6, WriteRecoverable
<1>7. ASSUME NEW s \in Sessions, Request(s)
      PROVE  NoOrphanedSending'
  <2>1. ASSUME NEW r \in Rows, NEW mode \in {"sync", "now", "later"}, CreateHistory(s, r, mode)
        PROVE  NoOrphanedSending'
    BY <1>2, <2>1 DEF CreateHistory, Recoverable, AbsentRow
  <2>2. CASE \/ \E r \in Rows : ReplayHistory(s, r) \/ ReadForCancel(s, r) \/ ReadForRetry(s, r)
             \/ ReadForRelease(s)
    BY <1>3, <2>2 DEF ReplayHistory, ReadForCancel, ReadForRetry, ReadForRelease
  <2> QED BY <1>7, <2>1, <2>2 DEF Request
<1>8. ASSUME NEW s \in Sessions, SessionStep(s)
      PROVE  NoOrphanedSending'
  <2>1. HandlerSnap(sess[s]) /\ sess[s].snap \in Row
    BY DEF SnapsSound, TypeOK, Handler
  <2>2. sess[s].op \notin {"idle", "release"} => sess[s].row \in Rows
    BY DEF TypeOK
  <2>3. CASE EnqueueTask(s) \/ SyncAccepted(s)
    BY <1>3, <2>3 DEF EnqueueTask, SyncAccepted
  <2>4. CASE CommitTaskId(s)
    BY <1>5, <2>1, <2>2, <2>4, MarkFields DEF CommitTaskId, HandlerSnap
  <2>5. CASE SyncRefused(s)
    BY <1>5, <2>1, <2>2, <2>5, MarkFields DEF SyncRefused, HandlerSnap
  <2>6. CASE SyncSucceeded(s)
    BY <1>5, <2>1, <2>2, <2>6, MarkFields DEF SyncSucceeded, HandlerSnap
  <2>7. CASE CommitCancel(s)
    BY <1>5, <2>1, <2>2, <2>7, MarkFields DEF CommitCancel, HandlerSnap, Cancellable
  <2>8. CASE CommitRetry(s)
    BY <1>5, <2>1, <2>2, <2>8, MarkFields DEF CommitRetry, HandlerSnap, Retryable
  <2>9. CASE CommitRestore(s)
    <3> DEFINE new == [sess[s].snap EXCEPT !.next_retry_at = sess[s].prev]
    <3>1. new.status = sess[s].snap.status
          /\ new.lock_expires_at = sess[s].snap.lock_expires_at
      BY <2>1 DEF Row
    <3> QED BY <1>5, <2>2, <2>9, <3>1 DEF CommitRestore
  <2>10. CASE CommitRelease(s)
    BY <1>4, <2>10 DEF CommitRelease
  <2> QED BY <1>8, <2>3, <2>4, <2>5, <2>6, <2>7, <2>8, <2>9, <2>10 DEF SessionStep
<1>9. ASSUME NEW s \in Sessions, SessionDies(s) \/ RipenHeld(s)
      PROVE  NoOrphanedSending'
  BY <1>3, <1>9 DEF SessionDies, RipenHeld
<1>10. ASSUME NEW w \in Workers, RunStep(w)
       PROVE  NoOrphanedSending'
  <2>1. RunSnap(wk[w]) /\ wk[w].snap \in Row
    BY DEF SnapsSound, TypeOK, Run
  <2>2. wk[w].pc \in {"leased", "accepted", "notifying"} => wk[w].row \in Rows
    BY DEF TypeOK
  <2>3. CASE CommitStaleRelease(w)
    BY <1>4, <2>3 DEF CommitStaleRelease
  <2>4. ASSUME NEW r \in Rows, NEW src \in {"task", "due"}, AcquireLease(w, r, src)
        PROVE  NoOrphanedSending'
    <3>1. Recoverable(Leased(rows[r]))
      BY MarkFields DEF Recoverable, TypeOK
    <3> QED BY <1>2, <2>4, <3>1 DEF AcquireLease
  <2>5. CASE TelegramTransient(w)
    BY <1>6, <2>1, <2>2, <2>5, MarkFields DEF TelegramTransient, FinishRow, RunSnap
  <2>6. CASE TelegramPermanent(w)
    BY <1>6, <2>1, <2>2, <2>6, MarkFields DEF TelegramPermanent, FinishRow, RunSnap
  <2>7. CASE CompleteSuccess(w)
    BY <1>6, <2>1, <2>2, <2>7, MarkFields DEF CompleteSuccess, RunSnap
  <2>8. CASE \/ StartDueRun(w) \/ EndDueRun(w) \/ TelegramAccepts(w) \/ Notified(w)
             \/ \E r \in Rows, src \in {"task", "due"} :
                   SkipRow(w, r, src) \/ BotMissing(w, r, src)
    BY <1>3, <2>8 DEF StartDueRun, EndDueRun, TelegramAccepts, Notified, SkipRow, BotMissing
  <2> QED BY <1>10, <2>3, <2>4, <2>5, <2>6, <2>7, <2>8 DEF RunStep
<1>11. ASSUME NEW w \in Workers, RunFault(w)
       PROVE  NoOrphanedSending'
  <2>1. RunSnap(wk[w]) /\ wk[w].snap \in Row
    BY DEF SnapsSound, TypeOK, Run
  <2>2. wk[w].pc \in {"leased", "accepted", "notifying"} => wk[w].row \in Rows
    BY DEF TypeOK
  <2>3. CASE DeferLocally(w)
    BY <1>6, <2>1, <2>2, <2>3, MarkFields DEF DeferLocally, FinishRow, RunSnap
  <2>4. CASE CancelledWhileNotifying(w)
    <3> DEFINE new == MarkSucceeded(wk[w].snap)
    <3>1. /\ new.status = wk[w].snap.status
          /\ new.lock_expires_at = wk[w].snap.lock_expires_at
      BY <2>1, <2>4, MarkFields DEF CancelledWhileNotifying, RunSnap
    <3>2. /\ wk[w].row \in Rows
          /\ rows' = [rows EXCEPT ![wk[w].row] = OrmWrite(@, wk[w].snap, new)]
      BY <2>2, <2>4 DEF CancelledWhileNotifying
    <3> HIDE DEF new
    <3> QED BY <1>6, <3>1, <3>2
  <2>5. CASE CancelledWhileSending(w) \/ FinishFails(w) \/ WorkerDies(w)
    BY <1>3, <2>5 DEF CancelledWhileSending, FinishFails, WorkerDies
  <2> QED BY <1>11, <2>3, <2>4, <2>5 DEF RunFault
<1>12. ASSUME NEW r \in Rows, LeaseAges(r) \/ Ripen(r) \/ DeactivateBot(r)
       PROVE  NoOrphanedSending'
  <2>1. CASE LeaseAges(r)
    <3>1. Older[rows[r].lock_expires_at] # "none"
      BY <2>1 DEF LeaseAges, Older
    <3>2. Recoverable([rows[r] EXCEPT !.lock_expires_at = Older[rows[r].lock_expires_at]])
      BY <3>1 DEF Recoverable, TypeOK, Row
    <3> QED BY <1>2, <2>1, <3>2 DEF LeaseAges
  <2>2. CASE Ripen(r)
    <3>1. Recoverable([rows[r] EXCEPT !.next_retry_at = "past"])
      BY <1>1 DEF Recoverable, TypeOK, Row
    <3> QED BY <1>2, <2>2, <3>1 DEF Ripen
  <2>3. CASE DeactivateBot(r)
    BY <1>3, <2>3 DEF DeactivateBot
  <2> QED BY <1>12, <2>1, <2>2, <2>3
<1>13. CASE UNCHANGED vars
  BY <1>3, <1>13 DEF vars
<1> QED BY <1>7, <1>8, <1>9, <1>10, <1>11, <1>12, <1>13 DEF Next

LEMMA InitSound == Init => TypeOK /\ SnapsSound
<1>1. Init => TypeOK
  BY AbsentRowType, IdleTypes DEF Init, TypeOK, IdleWorker, IdleSession
<1>2. Init => SnapsSound
  BY IdleSnaps DEF Init, SnapsSound
<1> QED BY <1>1, <1>2

(***************************************************************************)
(* In every environment, with leases as long or as short as they come and  *)
(* any overlap of operators: a row in "sending" has a lock_expires_at, so  *)
(* a later due run finds it (list_stale_locks).  The invariant under it is *)
(* that whoever clears the lock of a row it read also writes a status      *)
(* other than the one it read.                                             *)
(***************************************************************************)
THEOREM NoRowStranded == Spec => []NoOrphanedSending
<1>1. Init => TypeOK /\ SnapsSound /\ NoOrphanedSending
  BY InitSound DEF Init, NoOrphanedSending, AbsentRow
<1> QED BY <1>1, TypeStep, SnapsStep, OrphanStep, PTL DEF Spec

-----------------------------------------------------------------------------
(* Attempt numbers.                                                        *)

\* The number a run in flight carries was given out by the row and is not in the log yet;
\* the number of a run that committed its success is there, as a success.
AbsentUncounted == \A r \in Rows : rows[r].status = "absent" => rows[r].attempt_count = 0
NumbersGiven ==
  /\ \A w \in Workers : InFlight(w) => Attempt(w) <= rows[wk[w].row].attempt_count
  /\ \A r \in Rows : \A i \in DOMAIN log[r] : log[r][i].attempt <= rows[r].attempt_count
NumbersUnused ==
  \A w \in Workers : InFlight(w) =>
    \A i \in DOMAIN log[wk[w].row] : log[wk[w].row][i].attempt # Attempt(w)
SuccessLogged ==
  \A w \in Workers : wk[w].pc = "notifying" =>
    \E i \in DOMAIN log[wk[w].row] :
       log[wk[w].row][i] = [attempt |-> Attempt(w), outcome |-> "succeeded"]

NumberingInv ==
  AttemptsDistinct /\ AbsentUncounted /\ NumbersGiven /\ NumbersUnused /\ SuccessLogged

\* What a step does to the numbers: it gives out none, a lease gives one, or one is recorded.
CountsKept ==
  \A r \in Rows : /\ rows'[r].attempt_count = rows[r].attempt_count
                  /\ rows'[r].status = "absent" => rows[r].status = "absent"
NoNewRuns ==
  \A w \in Workers :
    /\ InFlight(w)' => InFlight(w) /\ wk'[w].row = wk[w].row /\ Attempt(w)' = Attempt(w)
    /\ wk'[w].pc = "notifying" => wk'[w] = wk[w]
Numberless == CountsKept /\ NoNewRuns /\ UNCHANGED log
Leases(w, r) ==
  /\ rows' = [rows EXCEPT ![r] = Leased(@)] /\ UNCHANGED log
  /\ wk'[w].row = r /\ wk'[w].pc = "leased" /\ wk'[w].snap = Leased(rows[r])
  /\ \A v \in Workers \ {w} : wk'[v] = wk[v]
Records(w, outcome) ==
  /\ CountsKept /\ InFlight(w) /\ RecordAttempt(w, outcome)
  /\ wk'[w].pc \notin {"leased", "accepted"}
  /\ wk'[w].pc = "notifying" =>
       outcome = "succeeded" /\ wk'[w].row = wk[w].row /\ Attempt(w)' = Attempt(w)
  /\ \A v \in Workers \ {w} : wk'[v] = wk[v]

LEMMA NumberlessStep ==
  ASSUME NumberingInv, TypeOK, Numberless
  PROVE  NumberingInv'
<1>1. AbsentUncounted'
  BY DEF NumberingInv, AbsentUncounted, Numberless, CountsKept
<1>2. ASSUME NEW w \in Workers, InFlight(w)'
      PROVE  /\ InFlight(w) /\ wk'[w].row = wk[w].row /\ Attempt(w)' = Attempt(w)
             /\ wk[w].row \in Rows
  BY <1>2 DEF Numberless, NoNewRuns, TypeOK, InFlight
<1>3. NumbersGiven'
  BY <1>2 DEF NumberingInv, NumbersGiven, Numberless, CountsKept
<1>4. NumbersUnused'
  BY <1>2 DEF NumberingInv, NumbersUnused, Numberless
<1>5. SuccessLogged'
  <2> SUFFICES ASSUME NEW w \in Workers, wk'[w].pc = "notifying"
               PROVE  \E i \in DOMAIN log[wk[w].row] :
                        log[wk[w].row][i] = [attempt |-> Attempt(w), outcome |-> "succeeded"]
    BY DEF SuccessLogged, Numberless, NoNewRuns, Attempt
  <2> QED BY DEF NumberingInv, SuccessLogged, Numberless, NoNewRuns
<1>6. AttemptsDistinct'
  BY <1>2 DEF NumberingInv, AttemptsDistinct, Numberless
<1> QED BY <1>1, <1>3, <1>4, <1>5, <1>6 DEF NumberingInv

LEMMA EntryType ==
  ASSUME NEW S, NEW seq \in Seq(S)
  PROVE  \A i \in DOMAIN seq : seq[i] \in S
OBVIOUS

LEMMA LeasesStep ==
  ASSUME NumberingInv, TypeOK, TypeOK', NEW w \in Workers, NEW r \in Rows,
         Leases(w, r)
  PROVE  NumberingInv'
<1> DEFINE n == rows[r].attempt_count
<1>1. n \in Nat /\ Leased(rows[r]).status = "sending" /\ Leased(rows[r]).attempt_count = n + 1
  BY DEF TypeOK, Row, Leased
<1>2. /\ rows'[r].attempt_count = n + 1 /\ rows'[r].status = "sending"
      /\ \A q \in Rows \ {r} : rows'[q] = rows[q]
  BY <1>1 DEF Leases, TypeOK
<1>3. Attempt(w)' = n + 1 /\ wk'[w].row = r
  BY <1>1 DEF Leases, Attempt
<1>4. ASSUME NEW v \in Workers \ {w}
      PROVE  /\ wk'[v] = wk[v] /\ Attempt(v)' = Attempt(v) /\ InFlight(v)' = InFlight(v)
             /\ InFlight(v) => wk[v].row \in Rows /\ Attempt(v) \in Nat
  BY DEF Leases, Attempt, InFlight, TypeOK, Run, Row
<1>5. ASSUME NEW q \in Rows
      PROVE  /\ log'[q] = log[q]
             /\ \A i \in DOMAIN log[q] : log[q][i].attempt \in Nat
  <2>1. log[q] \in Seq([attempt : Nat, outcome : Outcome])
    BY DEF TypeOK
  <2>2. \A i \in DOMAIN log[q] : log[q][i] \in [attempt : Nat, outcome : Outcome]
    BY <2>1, EntryType
  <2> QED BY <2>2 DEF Leases
<1>6. AbsentUncounted'
  BY <1>2 DEF NumberingInv, AbsentUncounted
<1>7. NumbersGiven'
  <2>1. ASSUME NEW v \in Workers, InFlight(v)'
        PROVE  Attempt(v)' <= rows'[wk'[v].row].attempt_count
    BY <1>1, <1>2, <1>3, <1>4, <2>1 DEF NumberingInv, NumbersGiven
  <2>2. ASSUME NEW q \in Rows, NEW i \in DOMAIN log'[q]
        PROVE  log'[q][i].attempt <= rows'[q].attempt_count
    BY <1>1, <1>2, <1>5 DEF NumberingInv, NumbersGiven
  <2> QED BY <2>1, <2>2 DEF NumbersGiven
<1>8. ASSUME NEW v \in Workers \ {w}, InFlight(v), wk[v].row = r
      PROVE  Attempt(v) # n + 1
  BY <1>1, <1>4, <1>8 DEF NumberingInv, NumbersGiven
<1>9. \A i \in DOMAIN log[r] : log[r][i].attempt # n + 1
  BY <1>1, <1>5 DEF NumberingInv, NumbersGiven
<1>10. NumbersUnused'
  <2> SUFFICES ASSUME NEW v \in Workers, InFlight(v)', NEW i \in DOMAIN log'[wk'[v].row]
               PROVE  log'[wk'[v].row][i].attempt # Attempt(v)'
    BY DEF NumbersUnused
  <2>1. CASE v = w
    BY <1>3, <1>5, <1>9, <2>1
  <2>2. CASE v # w
    BY <1>4, <1>5, <2>2 DEF NumberingInv, NumbersUnused
  <2> QED BY <2>1, <2>2
<1>11. SuccessLogged'
  <2> SUFFICES ASSUME NEW v \in Workers, wk'[v].pc = "notifying"
               PROVE  \E i \in DOMAIN log'[wk'[v].row] :
                         log'[wk'[v].row][i] =
                           [attempt |-> Attempt(v)', outcome |-> "succeeded"]
    BY DEF SuccessLogged
  <2>1. v # w /\ wk'[v] = wk[v] /\ Attempt(v)' = Attempt(v) /\ UNCHANGED log
    BY <1>4 DEF Leases
  <2> QED BY <2>1 DEF NumberingInv, SuccessLogged
<1>12. AttemptsDistinct'
  <2>1. ASSUME NEW u \in Workers, NEW v \in Workers, u # v,
               InFlight(u)', InFlight(v)', wk'[u].row = wk'[v].row
        PROVE  Attempt(u)' # Attempt(v)'
    <3>1. CASE u = w
      BY <1>3, <1>4, <1>8, <2>1, <3>1
    <3>2. CASE v = w
      BY <1>3, <1>4, <1>8, <2>1, <3>2
    <3>3. CASE u # w /\ v # w
      BY <1>4, <2>1, <3>3 DEF NumberingInv, AttemptsDistinct
    <3> QED BY <3>1, <3>2, <3>3
  <2>2. ASSUME NEW q \in Rows, NEW i \in DOMAIN log'[q], NEW j \in DOMAIN log'[q], i # j
        PROVE  log'[q][i].attempt # log'[q][j].attempt
    BY <1>5, <2>2 DEF NumberingInv, AttemptsDistinct
  <2> QED BY <2>1, <2>2 DEF AttemptsDistinct
<1> QED BY <1>6, <1>7, <1>10, <1>11, <1>12 DEF NumberingInv

LEMMA RecordsStep ==
  ASSUME NumberingInv, TypeOK, TypeOK', NEW w \in Workers, NEW outcome, Records(w, outcome)
  PROVE  NumberingInv'
<1> DEFINE r == wk[w].row
           n == Attempt(w)
           entry == [attempt |-> n, outcome |-> outcome]
           len == Len(log[r])
<1>1. r \in Rows /\ n \in Nat /\ n <= rows[r].attempt_count
  BY DEF Records, InFlight, TypeOK, Attempt, Run, Row, NumberingInv, NumbersGiven
<1>2. /\ log'[r] = Append(log[r], entry)
      /\ \A q \in Rows \ {r} : log'[q] = log[q]
  BY <1>1 DEF Records, RecordAttempt, TypeOK
<1>3. log[r] \in Seq([attempt : Nat, outcome : Outcome])
  BY <1>1 DEF TypeOK
<1>4. /\ len \in Nat /\ DOMAIN log'[r] = 1 .. len + 1 /\ log'[r][len + 1] = entry
      /\ DOMAIN log[r] = 1 .. len /\ \A i \in 1 .. len : log'[r][i] = log[r][i]
  BY <1>2, <1>3
<1>5. ASSUME NEW v \in Workers, InFlight(v)'
      PROVE  /\ v # w /\ InFlight(v) /\ wk'[v].row = wk[v].row /\ Attempt(v)' = Attempt(v)
             /\ wk[v].row \in Rows
  BY <1>5 DEF Records, InFlight, TypeOK, Attempt
<1>6. \A v \in Workers : InFlight(v)' /\ wk'[v].row = r => Attempt(v)' # n
  BY <1>5 DEF Records, NumberingInv, AttemptsDistinct
<1>7. \A i \in 1 .. len : log[r][i].attempt # n
  BY <1>4 DEF Records, NumberingInv, NumbersUnused
<1>8. AbsentUncounted'
  BY DEF Records, CountsKept, NumberingInv, AbsentUncounted
<1>9. NumbersGiven'
  <2>1. ASSUME NEW v \in Workers, InFlight(v)'
        PROVE  Attempt(v)' <= rows'[wk'[v].row].attempt_count
    BY <1>5, <2>1 DEF Records, CountsKept, NumberingInv, NumbersGiven
  <2>2. ASSUME NEW q \in Rows, NEW i \in DOMAIN log'[q]
        PROVE  log'[q][i].attempt <= rows'[q].attempt_count
    <3>1. rows'[q].attempt_count = rows[q].attempt_count
      BY DEF Records, CountsKept
    <3>2. CASE q = r /\ i = len + 1
      BY <1>1, <1>4, <3>1, <3>2
    <3>3. CASE q = r /\ i # len + 1
      <4>1. i \in DOMAIN log[r] /\ log'[r][i] = log[r][i]
        BY <1>4, <3>3
      <4> QED BY <1>1, <3>1, <3>3, <4>1 DEF NumberingInv, NumbersGiven
    <3>4. CASE q # r
      BY <1>2, <3>1, <3>4 DEF NumberingInv, NumbersGiven
    <3> QED BY <3>2, <3>3, <3>4
  <2> QED BY <2>1, <2>2 DEF NumbersGiven
<1>10. NumbersUnused'
  <2> SUFFICES ASSUME NEW v \in Workers, InFlight(v)', NEW i \in DOMAIN log'[wk'[v].row]
               PROVE  log'[wk'[v].row][i].attempt # Attempt(v)'
    BY DEF NumbersUnused
  <2>1. CASE wk[v].row = r /\ i = len + 1
    BY <1>4, <1>5, <1>6, <2>1
  <2>2. CASE wk[v].row = r /\ i # len + 1
    <3>1. i \in DOMAIN log[r] /\ log'[r][i] = log[r][i]
      BY <1>4, <1>5, <2>2
    <3> QED BY <1>5, <2>2, <3>1 DEF NumberingInv, NumbersUnused
  <2>3. CASE wk[v].row # r
    BY <1>2, <1>5, <2>3 DEF NumberingInv, NumbersUnused
  <2> QED BY <2>1, <2>2, <2>3
<1>11. SuccessLogged'
  <2> SUFFICES ASSUME NEW v \in Workers, wk'[v].pc = "notifying"
               PROVE  \E i \in DOMAIN log'[wk'[v].row] :
                         log'[wk'[v].row][i] =
                           [attempt |-> Attempt(v)', outcome |-> "succeeded"]
    BY DEF SuccessLogged
  <2>1. CASE v = w
    <3>1. wk'[v].row = r /\ Attempt(v)' = n /\ outcome = "succeeded"
      BY <2>1 DEF Records
    <3> QED BY <1>4, <3>1
  <2>2. CASE v # w
    <3>1. wk'[v] = wk[v] /\ Attempt(v)' = Attempt(v) /\ wk[v].row \in Rows
      BY <2>2 DEF Records, Attempt, TypeOK
    <3>2. PICK i \in DOMAIN log[wk[v].row] :
                 log[wk[v].row][i] = [attempt |-> Attempt(v), outcome |-> "succeeded"]
      BY <3>1 DEF NumberingInv, SuccessLogged
    <3>3. i \in DOMAIN log'[wk[v].row] /\ log'[wk[v].row][i] = log[wk[v].row][i]
      <4>1. CASE wk[v].row = r
        BY <1>4, <3>2, <4>1
      <4>2. CASE wk[v].row # r
        BY <1>2, <3>1, <4>2
      <4> QED BY <4>1, <4>2
    <3> QED BY <3>1, <3>2, <3>3
  <2> QED BY <2>1, <2>2
<1>12. AttemptsDistinct'
  <2>1. ASSUME NEW u \in Workers, NEW v \in Workers, u # v,
               InFlight(u)', InFlight(v)', wk'[u].row = wk'[v].row
        PROVE  Attempt(u)' # Attempt(v)'
    BY <1>5, <2>1 DEF NumberingInv, AttemptsDistinct
  <2>2. ASSUME NEW q \in Rows, NEW i \in DOMAIN log'[q], NEW j \in DOMAIN log'[q], i # j
        PROVE  log'[q][i].attempt # log'[q][j].attempt
    <3>1. CASE q # r
      BY <1>2, <2>2, <3>1 DEF NumberingInv, AttemptsDistinct
    <3>2. CASE q = r
      <4>1. i \in 1 .. len + 1 /\ j \in 1 .. len + 1
        BY <1>4, <3>2
      <4>2. CASE i = len + 1
        BY <1>4, <1>7, <2>2, <3>2, <4>1, <4>2
      <4>3. CASE j = len + 1
        BY <1>4, <1>7, <2>2, <3>2, <4>1, <4>3
      <4>4. CASE i \in 1 .. len /\ j \in 1 .. len
        BY <1>1, <1>4, <2>2, <3>2, <4>4 DEF NumberingInv, AttemptsDistinct
      <4> QED BY <1>4, <4>1, <4>2, <4>3, <4>4
    <3> QED BY <3>1, <3>2
  <2> QED BY <2>1, <2>2 DEF AttemptsDistinct
<1> QED BY <1>8, <1>9, <1>10, <1>11, <1>12 DEF NumberingInv

\* The columns a write never touches: the number, and "absent".
LEMMA CountKept ==
  ASSUME NEW db, NEW read, NEW new, new.attempt_count = read.attempt_count,
         new.status = read.status \/ new.status # "absent"
  PROVE  /\ OrmWrite(db, read, new).attempt_count = db.attempt_count
         /\ OrmWrite(db, read, new).status = "absent" => db.status = "absent"
BY DEF OrmWrite, Column

LEMMA MarksKeepCount ==
  ASSUME NEW row \in Row
  PROVE  /\ MarkSucceeded(row).attempt_count = row.attempt_count
         /\ MarkFailed(row).attempt_count = row.attempt_count
         /\ MarkBlocked(row).attempt_count = row.attempt_count
         /\ MarkDeadLetter(row).attempt_count = row.attempt_count
         /\ MarkDeferred(row, RetryDue).attempt_count = row.attempt_count
         /\ MarkCancelled(row).attempt_count = row.attempt_count
         /\ MarkQueued(row).attempt_count = row.attempt_count
         /\ MarkRetried(row).attempt_count = row.attempt_count
BY DEF MarkSucceeded, MarkFailed, MarkBlocked, MarkDeadLetter, MarkDeferred, MarkCancelled,
       MarkQueued, MarkRetried, Marked, Row

LEMMA WorkerKeepsCounts ==
  ASSUME TypeOK, NEW w \in Workers, wk[w].row \in Rows, NEW new,
         rows' = [rows EXCEPT ![wk[w].row] = OrmWrite(@, wk[w].snap, new)],
         new.attempt_count = wk[w].snap.attempt_count, new.status # "absent"
  PROVE  CountsKept
<1> DEFINE row == OrmWrite(rows[wk[w].row], wk[w].snap, new)
<1>1. /\ row.attempt_count = rows[wk[w].row].attempt_count
      /\ row.status = "absent" => rows[wk[w].row].status = "absent"
  BY CountKept
<1>2. rows' = [rows EXCEPT ![wk[w].row] = row]
  OBVIOUS
<1> HIDE DEF row
<1> QED BY <1>1, <1>2 DEF CountsKept, TypeOK

LEMMA FinishKeepsCounts ==
  ASSUME TypeOK, NEW w \in Workers, wk[w].row \in Rows, NEW outcome,
         \/ FinishRow(w, outcome, MarkDeferred(wk[w].snap, RetryDue))
         \/ FinishRow(w, outcome, MarkDeadLetter(wk[w].snap))
         \/ FinishRow(w, outcome, MarkBlocked(wk[w].snap))
  PROVE  CountsKept
<1>1. PICK new : /\ rows' = [rows EXCEPT ![wk[w].row] = OrmWrite(@, wk[w].snap, new)]
                 /\ new \in {MarkDeferred(wk[w].snap, RetryDue), MarkDeadLetter(wk[w].snap),
                             MarkBlocked(wk[w].snap)}
  BY DEF FinishRow
<1>2. wk[w].snap \in Row
  BY DEF TypeOK, Run
<1>3. new.attempt_count = wk[w].snap.attempt_count /\ new.status # "absent"
  BY <1>1, <1>2, MarkFields, MarksKeepCount
<1> QED BY <1>1, <1>3, WorkerKeepsCounts

\* Only the lease gives out a number, and no step takes a row away.
LEMMA CountsStep ==
  ASSUME TypeOK, AbsentUncounted, [Next]_vars
  PROVE  \/ CountsKept
         \/ \E w \in Workers, r \in Rows, src \in {"task", "due"} : AcquireLease(w, r, src)
<1>1. UNCHANGED rows => CountsKept
  BY DEF CountsKept
<1>2. ASSUME NEW r \in Rows, NEW row, rows' = [rows EXCEPT ![r] = row],
             row.attempt_count = rows[r].attempt_count,
             row.status = "absent" => rows[r].status = "absent"
      PROVE  CountsKept
  BY <1>2 DEF CountsKept, TypeOK
<1>3. ASSUME NEW s \in Sessions, sess[s].row \in Rows, NEW new, Commit(s, new),
             new.attempt_count = sess[s].snap.attempt_count,
             new.status = sess[s].snap.status \/ new.status # "absent"
      PROVE  CountsKept
  <2> DEFINE row == OrmWrite(rows[sess[s].row], sess[s].snap, new)
  <2>1. /\ row.attempt_count = rows[sess[s].row].attempt_count
        /\ row.status = "absent" => rows[sess[s].row].status = "absent"
    BY <1>3, CountKept
  <2>2. rows' = [rows EXCEPT ![sess[s].row] = row]
    BY <1>3 DEF Commit
  <2> HIDE DEF row
  <2> QED BY <1>2, <1>3, <2>1, <2>2
<1>4. ASSUME NEW stale, rows' = Released(stale)
      PROVE  CountsKept
  <2>1. ASSUME NEW r \in Rows
        PROVE  /\ Released(stale)[r].attempt_count = rows[r].attempt_count
               /\ Released(stale)[r].status = "absent" => rows[r].status = "absent"
    BY DEF Released, TypeOK, Row
  <2> QED BY <1>4, <2>1 DEF CountsKept
<1>5. ASSUME NEW s \in Sessions, Request(s)
      PROVE  CountsKept
  <2>1. ASSUME NEW r \in Rows, NEW mode \in {"sync", "now", "later"}, CreateHistory(s, r, mode)
        PROVE  CountsKept
    <3>1. rows[r].status = "absent" /\ rows[r].attempt_count = 0
      BY <2>1 DEF CreateHistory, AbsentUncounted
    <3> DEFINE new == [AbsentRow EXCEPT
                         !.status = IF mode = "sync" THEN "created" ELSE "queued",
                         !.next_retry_at = IF mode = "later" THEN "future" ELSE "none"]
    <3>2. new.attempt_count = 0
      BY DEF AbsentRow
    <3>3. rows' = [rows EXCEPT ![r] = new]
      BY <2>1 DEF CreateHistory
    <3> HIDE DEF new
    <3> QED BY <1>2, <3>1, <3>2, <3>3
  <2> QED BY <1>1, <1>5, <2>1
          DEF Request, ReplayHistory, ReadForCancel, ReadForRetry, ReadForRelease
<1>6. ASSUME NEW s \in Sessions, SessionStep(s)
      PROVE  CountsKept
  <2>1. sess[s].snap \in Row
    BY DEF TypeOK, Handler
  <2>2. sess[s].op \notin {"idle", "release"} => sess[s].row \in Rows
    BY DEF TypeOK
  <2>3. CASE EnqueueTask(s) \/ SyncAccepted(s)
    BY <1>1, <2>3 DEF EnqueueTask, SyncAccepted
  <2>4. CASE CommitTaskId(s)
    BY <1>3, <2>1, <2>2, <2>4, MarkFields, MarksKeepCount DEF CommitTaskId
  <2>5. CASE SyncRefused(s)
    BY <1>3, <2>1, <2>2, <2>5, MarkFields, MarksKeepCount DEF SyncRefused
  <2>6. CASE SyncSucceeded(s)
    BY <1>3, <2>1, <2>2, <2>6, MarkFields, MarksKeepCount DEF SyncSucceeded
  <2>7. CASE CommitCancel(s)
    BY <1>3, <2>1, <2>2, <2>7, MarkFields, MarksKeepCount DEF CommitCancel
  <2>8. CASE CommitRetry(s)
    BY <1>3, <2>1, <2>2, <2>8, MarkFields, MarksKeepCount DEF CommitRetry
  <2>9. CASE CommitRestore(s)
    <3> DEFINE new == [sess[s].snap EXCEPT !.next_retry_at = sess[s].prev]
    <3>1. new.status = sess[s].snap.status
          /\ new.attempt_count = sess[s].snap.attempt_count
      BY <2>1 DEF Row
    <3> QED BY <1>3, <2>2, <2>9, <3>1 DEF CommitRestore
  <2>10. CASE CommitRelease(s)
    BY <1>4, <2>10 DEF CommitRelease
  <2> QED BY <1>6, <2>3, <2>4, <2>5, <2>6, <2>7, <2>8, <2>9, <2>10 DEF SessionStep
<1>7. ASSUME NEW s \in Sessions, SessionDies(s) \/ RipenHeld(s)
      PROVE  CountsKept
  BY <1>1, <1>7 DEF SessionDies, RipenHeld
<1>8. ASSUME NEW w \in Workers, RunStep(w) \/ RunFault(w)
      PROVE  \/ CountsKept
             \/ \E r \in Rows, src \in {"task", "due"} : AcquireLease(w, r, src)
  <2>1. wk[w].snap \in Row
    BY DEF TypeOK, Run
  <2>2. wk[w].pc \in {"leased", "accepted", "notifying"} => wk[w].row \in Rows
    BY DEF TypeOK
  <2>3. CASE CommitStaleRelease(w)
    BY <1>4, <2>3 DEF CommitStaleRelease
  <2>4. CASE \/ TelegramTransient(w) \/ TelegramPermanent(w) \/ DeferLocally(w)
    <3>1. wk[w].row \in Rows
      BY <2>2, <2>4 DEF TelegramTransient, TelegramPermanent, DeferLocally
    <3> QED BY <2>4, <3>1, FinishKeepsCounts
            DEF TelegramTransient, TelegramPermanent, DeferLocally
  <2>5. CASE CompleteSuccess(w) \/ CancelledWhileNotifying(w)
    <3> DEFINE new == MarkSucceeded(wk[w].snap)
    <3>1. new.attempt_count = wk[w].snap.attempt_count /\ new.status # "absent"
      BY <2>1, MarkFields, MarksKeepCount
    <3>2. /\ rows' = [rows EXCEPT ![wk[w].row] = OrmWrite(@, wk[w].snap, new)]
          /\ wk[w].row \in Rows
      BY <2>2, <2>5 DEF CompleteSuccess, CancelledWhileNotifying
    <3> HIDE DEF new
    <3> QED BY <3>1, <3>2, WorkerKeepsCounts
  <2>6. CASE \/ StartDueRun(w) \/ EndDueRun(w) \/ TelegramAccepts(w) \/ Notified(w)
             \/ CancelledWhileSending(w) \/ FinishFails(w) \/ WorkerDies(w)
             \/ \E r \in Rows, src \in {"task", "due"} : SkipRow(w, r, src) \/ BotMissing(w, r, src)
    BY <1>1, <2>6 DEF StartDueRun, EndDueRun, TelegramAccepts, Notified, CancelledWhileSending,
                      FinishFails, WorkerDies, SkipRow, BotMissing
  <2> QED BY <1>8, <2>3, <2>4, <2>5, <2>6 DEF RunStep, RunFault
<1>9. ASSUME NEW r \in Rows, LeaseAges(r) \/ Ripen(r) \/ DeactivateBot(r)
      PROVE  CountsKept
  <2>1. CASE DeactivateBot(r)
    BY <1>1, <2>1 DEF DeactivateBot
  <2>2. CASE LeaseAges(r) \/ Ripen(r)
    <3>1. \E row : /\ rows' = [rows EXCEPT ![r] = row]
                   /\ row.attempt_count = rows[r].attempt_count
                   /\ row.status = rows[r].status
      BY <2>2 DEF LeaseAges, Ripen, TypeOK, Row
    <3> QED BY <1>2, <3>1
  <2> QED BY <1>9, <2>1, <2>2
<1>10. CASE UNCHANGED vars
  BY <1>1, <1>10 DEF vars
<1> QED BY <1>5, <1>6, <1>7, <1>8, <1>9, <1>10 DEF Next

LEMMA NumberingStep == TypeOK /\ NumberingInv /\ [Next]_vars => NumberingInv'
<1> SUFFICES ASSUME TypeOK, NumberingInv, [Next]_vars PROVE NumberingInv'
  OBVIOUS
<1>1. TypeOK'
  BY TypeStep
<1>2. ASSUME NEW w \in Workers, NEW r \in Rows, NEW src, AcquireLease(w, r, src)
      PROVE  NumberingInv'
  <2>1. Leases(w, r)
    BY <1>2 DEF AcquireLease, Leases, TypeOK
  <2> QED BY <1>1, <2>1, LeasesStep
<1> SUFFICES ASSUME CountsKept PROVE NumberingInv'
  BY <1>2, CountsStep DEF NumberingInv
<1>3. UNCHANGED wk => NoNewRuns
  BY DEF NoNewRuns, InFlight, Attempt
<1>4. NoNewRuns /\ UNCHANGED log => NumberingInv'
  BY NumberlessStep DEF Numberless
<1>5. ASSUME NEW w \in Workers, NEW outcome, Records(w, outcome)
      PROVE  NumberingInv'
  BY <1>1, <1>5, RecordsStep
<1>6. ASSUME NEW w \in Workers, NEW run, wk' = [wk EXCEPT ![w] = run],
             run.pc \notin {"leased", "accepted", "notifying"}
      PROVE  /\ NoNewRuns /\ wk'[w].pc \notin {"leased", "accepted", "notifying"}
             /\ \A v \in Workers \ {w} : wk'[v] = wk[v]
  BY <1>6 DEF NoNewRuns, InFlight, Attempt, TypeOK
<1>7. ASSUME NEW w \in Workers, EndRun(w) \/ EndRow(w)
      PROVE  /\ NoNewRuns /\ wk'[w].pc \notin {"leased", "accepted", "notifying"}
             /\ \A v \in Workers \ {w} : wk'[v] = wk[v]
  <2>1. /\ IdleWorker.pc = "idle"
        /\ [IdleWorker EXCEPT !.pc = "looping", !.todo = wk[w].todo].pc = "looping"
    BY DEF IdleWorker
  <2>2. \/ wk' = [wk EXCEPT ![w] = IdleWorker]
        \/ wk' = [wk EXCEPT ![w] = [IdleWorker EXCEPT !.pc = "looping", !.todo = wk[w].todo]]
    BY <1>7 DEF EndRun, EndRow
  <2> QED BY <1>6, <2>1, <2>2
<1>8. ASSUME NEW s \in Sessions, Request(s) \/ SessionStep(s) \/ SessionDies(s) \/ RipenHeld(s)
      PROVE  NumberingInv'
  <2>1. UNCHANGED <<wk, log>>
    BY <1>8 DEF Request, CreateHistory, ReplayHistory, ReadForCancel, ReadForRetry,
                ReadForRelease, SessionStep, EnqueueTask, CommitTaskId, SyncAccepted,
                SyncRefused, SyncSucceeded, CommitCancel, CommitRetry, CommitRestore,
                CommitRelease, SessionDies, RipenHeld
  <2> QED BY <1>3, <1>4, <2>1
<1>9. ASSUME NEW w \in Workers, RunStep(w)
      PROVE  NumberingInv'
  <2>1. CASE StartDueRun(w) \/ CommitStaleRelease(w) \/ EndDueRun(w)
    <3>1. \E run : wk' = [wk EXCEPT ![w] = run] /\ run.pc \in {"idle", "releasing", "looping"}
      BY <2>1 DEF StartDueRun, CommitStaleRelease, EndDueRun, IdleWorker
    <3>2. UNCHANGED log
      BY <2>1 DEF StartDueRun, CommitStaleRelease, EndDueRun
    <3> QED BY <1>4, <1>6, <3>1, <3>2
  <2>2. ASSUME NEW r \in Rows, NEW src \in {"task", "due"}, SkipRow(w, r, src)
        PROVE  NumberingInv'
    <3>1. NoNewRuns
      <4>1. UNCHANGED wk \/ wk' = [wk EXCEPT ![w] = [wk[w] EXCEPT !.todo = @ \ {r}]]
        BY <2>2 DEF SkipRow, TypeOK
      <4>2. CASE wk' = [wk EXCEPT ![w] = [wk[w] EXCEPT !.todo = @ \ {r}]]
        <5>1. wk[w].pc # "notifying"
          BY <2>2, <4>2 DEF SkipRow, Takes
        <5> QED BY <4>2, <5>1 DEF NoNewRuns, InFlight, Attempt, TypeOK, Run
      <4> QED BY <1>3, <4>1, <4>2
    <3> QED BY <1>4, <2>2, <3>1 DEF SkipRow
  <2>3. ASSUME NEW r \in Rows, NEW src \in {"task", "due"}, BotMissing(w, r, src)
        PROVE  NumberingInv'
    <3>1. UNCHANGED log /\ wk' = [wk EXCEPT ![w] = IdleWorker] /\ IdleWorker.pc = "idle"
      BY <2>3 DEF BotMissing, IdleWorker
    <3> QED BY <1>4, <1>6, <3>1
  <2>4. CASE TelegramTransient(w) \/ TelegramPermanent(w)
    <3>1. PICK outcome : /\ RecordAttempt(w, outcome) /\ EndRow(w) /\ InFlight(w)
                         /\ outcome \in {"dead_letter", "deferred", "blocked"}
      BY <2>4 DEF TelegramTransient, TelegramPermanent, FinishRow, InFlight
    <3> QED BY <1>5, <1>7, <3>1 DEF Records
  <2>5. CASE TelegramAccepts(w)
    <3>1. UNCHANGED log /\ wk' = [wk EXCEPT ![w] = [wk[w] EXCEPT !.pc = "accepted"]]
      BY <2>5 DEF TelegramAccepts, TypeOK
    <3>2. NoNewRuns
      BY <2>5, <3>1 DEF TelegramAccepts, NoNewRuns, InFlight, Attempt, TypeOK, Run
    <3> QED BY <1>4, <3>1, <3>2
  <2>6. CASE CompleteSuccess(w)
    <3> DEFINE new == MarkSucceeded(wk[w].snap)
    <3>1. new.attempt_count = Attempt(w)
      BY MarksKeepCount DEF Attempt, TypeOK, Run
    <3>2. /\ wk' = [wk EXCEPT ![w] = [wk[w] EXCEPT !.pc = "notifying", !.snap = new]]
          /\ RecordSuccessOnce(w) /\ wk[w].pc = "accepted"
      BY <2>6 DEF CompleteSuccess, TypeOK
    <3> HIDE DEF new
    <3>3. /\ wk'[w].pc = "notifying" /\ wk'[w].row = wk[w].row /\ Attempt(w)' = Attempt(w)
          /\ \A v \in Workers \ {w} : wk'[v] = wk[v]
      BY <3>1, <3>2 DEF TypeOK, Run, Attempt
    <3>4. RecordAttempt(w, "succeeded")
      <4>1. \A i \in DOMAIN log[wk[w].row] : log[wk[w].row][i].attempt # Attempt(w)
        BY <3>2 DEF NumberingInv, NumbersUnused, InFlight
      <4> QED BY <3>2, <4>1 DEF RecordSuccessOnce
    <3>5. Records(w, "succeeded")
      BY <3>2, <3>3, <3>4 DEF Records, InFlight
    <3> QED BY <1>5, <3>5
  <2>7. CASE Notified(w)
    BY <1>4, <1>7, <2>7 DEF Notified
  <2> QED BY <1>2, <1>9, <2>1, <2>2, <2>3, <2>4, <2>5, <2>6, <2>7 DEF RunStep
<1>10. ASSUME NEW w \in Workers, RunFault(w)
       PROVE  NumberingInv'
  <2>1. CASE DeferLocally(w) \/ CancelledWhileSending(w)
    <3>1. PICK outcome : /\ RecordAttempt(w, outcome) /\ (EndRow(w) \/ EndRun(w)) /\ InFlight(w)
                         /\ outcome \in {"deferred", "interrupted"}
      BY <2>1 DEF DeferLocally, CancelledWhileSending, FinishRow, InFlight
    <3> QED BY <1>5, <1>7, <3>1 DEF Records
  <2>2. CASE CancelledWhileNotifying(w)
    <3>1. UNCHANGED log
      BY <2>2 DEF CancelledWhileNotifying, RecordSuccessOnce, NumberingInv, SuccessLogged
    <3> QED BY <1>4, <1>7, <2>2, <3>1 DEF CancelledWhileNotifying
  <2>3. CASE FinishFails(w)
    BY <1>4, <1>7, <2>3 DEF FinishFails
  <2>4. CASE WorkerDies(w)
    BY <1>4, <1>6, <2>4 DEF WorkerDies, IdleWorker
  <2> QED BY <1>10, <2>1, <2>2, <2>3, <2>4 DEF RunFault
<1>11. ASSUME NEW r \in Rows, LeaseAges(r) \/ Ripen(r) \/ DeactivateBot(r)
       PROVE  NumberingInv'
  BY <1>3, <1>4, <1>11 DEF LeaseAges, Ripen, DeactivateBot
<1>12. CASE UNCHANGED vars
  BY <1>3, <1>4, <1>12 DEF vars
<1> QED BY <1>8, <1>9, <1>10, <1>11, <1>12 DEF Next

(***************************************************************************)
(* In every environment, with overlapping runs and leases that end too     *)
(* early: an attempt number names one attempt.  The lease is the only      *)
(* write that touches attempt_count, and it takes the database's own value *)
(* plus one, so every number in flight or in the log is old when the next  *)
(* one is given; a number is recorded when its run ends, and a success     *)
(* recorded once is found again by _record_success_attempt_once.           *)
(***************************************************************************)
THEOREM AttemptsAreDistinct == Spec => []AttemptsDistinct
<1>1. Init => TypeOK /\ NumberingInv
  BY InitSound DEF Init, NumberingInv, AttemptsDistinct, AbsentUncounted, NumbersGiven,
                   NumbersUnused, SuccessLogged, InFlight, IdleWorker, AbsentRow
<1>2. NumberingInv => AttemptsDistinct
  BY DEF NumberingInv
<1> QED BY <1>1, <1>2, TypeStep, NumberingStep, PTL DEF Spec

-----------------------------------------------------------------------------
(* The journal and the request's own send.                                 *)

\* Ways by which a row comes to a worker: the stream, a handler, a list a run made.
Reading(h) == h.op \in {"enqueue", "mark", "restore", "retry"}
Named(r) ==
  \/ r \in tasks
  \/ \E s \in Sessions : (Reading(sess[s]) /\ sess[s].row = r) \/ r \in sess[s].stale
  \/ \E w \in Workers : r \in wk[w].todo \/ r \in wk[w].stale

\* A request sends its row itself, or has and nobody leased it since.
Itself(h, r) == h.op \in {"sync", "synced"} /\ h.row = r
Own(r) ==
  rows[r].attempt_count = 0 /\ ((\E s \in Sessions : Itself(sess[s], r)) \/ delivered[r] > faults)

Present(r) == rows[r].status # "absent"
Busy(h) == h.op \notin {"idle", "release"}
RowsKnown ==
  /\ \A r \in Rows : ~Present(r) => ~Named(r) /\ delivered[r] = 0
  /\ \A s \in Sessions : Busy(sess[s]) => Present(sess[s].row)
OwnUnnamed == \A r \in Rows : Own(r) => ~Named(r)
SendsItself ==
  \A s \in Sessions, r \in Rows : Itself(sess[s], r) =>
    /\ rows[r].attempt_count = 0 /\ rows[r].status \in {"created", "cancelled"}
    /\ sess[s].op = "sync" => delivered[r] <= faults
    /\ \A t \in Sessions : Itself(sess[t], r) => t = s
OwnEnds ==
  \A r \in Rows : rows[r].attempt_count = 0 =>
    /\ delivered[r] <= 1 + faults
    /\ delivered[r] > faults /\ (\A s \in Sessions : ~Itself(sess[s], r)) =>
         rows[r].status \in {"succeeded", "cancelled"}
NumbersStart ==
  /\ \A w \in Workers : wk[w].pc \in {"leased", "accepted", "notifying"} =>
       rows[wk[w].row].attempt_count > 0 /\ Attempt(w) > 0
  /\ \A r \in Rows : \A i \in DOMAIN log[r] : log[r][i].attempt > 0

OwnInv == RowsKnown /\ OwnUnnamed /\ SendsItself /\ OwnEnds
QueueInv == TypeOK /\ SnapsSound /\ NumberingInv /\ NumbersStart /\ OwnInv

LEMMA OwnStatus ==
  ASSUME TypeOK, OwnInv, NEW r \in Rows, Own(r)
  PROVE  rows[r].status \in {"created", "succeeded", "cancelled"}
BY DEF OwnInv, SendsItself, OwnEnds, Own

\* Steps that give nobody a number and hand no row of a request's own to a worker.
LEMMA OwnStep ==
  ASSUME TypeOK, TypeOK', OwnInv, AbsentUncounted, CountsKept, faults' >= faults,
         \A r \in Rows : Named(r)' => Named(r) \/ (~Own(r) /\ Present(r)),
         \A s \in Sessions, r \in Rows : Itself(sess'[s], r) =>
            Itself(sess[s], r) /\ (sess'[s].op = "sync" => sess[s].op = "sync"),
         \A s \in Sessions : Busy(sess'[s]) => Present(sess'[s].row),
         \A r \in Rows : rows[r].attempt_count = 0 =>
            /\ delivered'[r] + faults <= delivered[r] + faults'
            /\ ~Present(r) => delivered'[r] = delivered[r],
         \A r \in Rows : Own(r) /\ (\A s \in Sessions : ~Itself(sess[s], r)) =>
            rows'[r].status \in {rows[r].status, "cancelled"},
         \A r \in Rows, s \in Sessions : Itself(sess[s], r) =>
            \/ Itself(sess'[s], r) /\ rows'[r].status \in {rows[r].status, "cancelled"}
            \/ /\ ~Itself(sess'[s], r)
               /\ delivered'[r] <= faults' \/ rows'[r].status \in {"succeeded", "cancelled"}
  PROVE  OwnInv'
<1>1. ASSUME NEW r \in Rows
      PROVE  /\ delivered[r] \in Nat /\ delivered'[r] \in Nat /\ faults \in Nat /\ faults' \in Nat
             /\ rows'[r].attempt_count = rows[r].attempt_count
             /\ Present(r) => Present(r)'
             /\ ~Present(r) => rows[r].attempt_count = 0
  BY DEF TypeOK, CountsKept, Present, AbsentUncounted
<1>2. ASSUME NEW r \in Rows, Own(r)'
      PROVE  Own(r)
  BY <1>1, <1>2 DEF Own
<1>3. RowsKnown'
  <2>1. ASSUME NEW r \in Rows, ~Present(r)'
        PROVE  ~Named(r)' /\ delivered'[r] = 0
    BY <1>1, <2>1 DEF OwnInv, RowsKnown
  <2>2. ASSUME NEW s \in Sessions, Busy(sess'[s])
        PROVE  Present(sess[s].row)'
    BY <1>1, <2>2 DEF Busy, TypeOK
  <2> QED BY <2>1, <2>2 DEF RowsKnown
<1>4. OwnUnnamed'
  <2> SUFFICES ASSUME NEW r \in Rows, Own(r)' PROVE ~Named(r)'
    BY DEF OwnUnnamed
  <2> QED BY <1>2 DEF OwnInv, OwnUnnamed
<1>5. SendsItself'
  <2> SUFFICES ASSUME NEW s \in Sessions, NEW r \in Rows, Itself(sess'[s], r)
               PROVE  /\ rows'[r].attempt_count = 0 /\ rows'[r].status \in {"created", "cancelled"}
                      /\ sess'[s].op = "sync" => delivered'[r] <= faults'
                      /\ \A t \in Sessions : Itself(sess'[t], r) => t = s
    BY DEF SendsItself, Itself
  <2>1. Itself(sess[s], r) /\ (sess'[s].op = "sync" => sess[s].op = "sync")
    OBVIOUS
  <2>2. /\ rows[r].attempt_count = 0 /\ rows[r].status \in {"created", "cancelled"}
        /\ sess[s].op = "sync" => delivered[r] <= faults
        /\ \A t \in Sessions : Itself(sess[t], r) => t = s
    BY <2>1 DEF OwnInv, SendsItself
  <2>3. rows'[r].status \in {rows[r].status, "cancelled"}
    BY <2>1
  <2>4. delivered'[r] + faults <= delivered[r] + faults'
    BY <2>2
  <2> QED BY <1>1, <2>1, <2>2, <2>3, <2>4
<1>6. OwnEnds'
  <2> SUFFICES ASSUME NEW r \in Rows, rows'[r].attempt_count = 0
               PROVE  /\ delivered'[r] <= 1 + faults'
                      /\ delivered'[r] > faults' /\ (\A s \in Sessions : ~Itself(sess'[s], r)) =>
                           rows'[r].status \in {"succeeded", "cancelled"}
    BY DEF OwnEnds, Itself
  <2>1. /\ delivered[r] <= 1 + faults
        /\ delivered[r] > faults /\ (\A s \in Sessions : ~Itself(sess[s], r)) =>
             rows[r].status \in {"succeeded", "cancelled"}
    BY <1>1 DEF OwnInv, OwnEnds
  <2>2. delivered'[r] + faults <= delivered[r] + faults'
    BY <1>1
  <2>3. ASSUME delivered'[r] > faults', \A s \in Sessions : ~Itself(sess'[s], r)
        PROVE  rows'[r].status \in {"succeeded", "cancelled"}
    <3>1. CASE \E s \in Sessions : Itself(sess[s], r)
      BY <1>1, <2>3, <3>1
    <3>2. CASE \A s \in Sessions : ~Itself(sess[s], r)
      <4>1. delivered[r] > faults
        BY <1>1, <2>2, <2>3
      <4>2. Own(r)
        BY <1>1, <4>1 DEF Own
      <4>3. rows'[r].status \in {rows[r].status, "cancelled"}
        BY <3>2, <4>2
      <4> QED BY <2>1, <3>2, <4>1, <4>3
    <3> QED BY <3>1, <3>2
  <2> QED BY <1>1, <2>1, <2>2, <2>3
<1> QED BY <1>3, <1>4, <1>5, <1>6 DEF OwnInv

Works(run) == run.pc \in {"leased", "accepted", "notifying"}

\* What names a row after a step of one handler, or of one run.
LEMMA HandlerNames ==
  ASSUME TypeOK, NEW s \in Sessions, NEW h, sess' = [sess EXCEPT ![s] = h], UNCHANGED wk,
         NEW X, \A r \in tasks' : Named(r) \/ r \in X,
         Reading(h) => Named(h.row) \/ h.row \in X,
         \A r \in h.stale : Named(r) \/ r \in X
  PROVE  \A r \in Rows : Named(r)' => Named(r) \/ r \in X
<1>1. \A t \in Sessions : sess'[t] = sess[t] \/ sess'[t] = h
  BY DEF TypeOK
<1> QED BY <1>1 DEF Named

LEMMA RunNames ==
  ASSUME TypeOK, NEW w \in Workers, NEW run, wk' = [wk EXCEPT ![w] = run], UNCHANGED sess,
         NEW X, tasks' \subseteq tasks, \A r \in run.todo \cup run.stale : Named(r) \/ r \in X
  PROVE  \A r \in Rows : Named(r)' => Named(r) \/ r \in X
<1>1. \A v \in Workers : wk'[v] = wk[v] \/ wk'[v] = run
  BY DEF TypeOK
<1> QED BY <1>1 DEF Named

\* A step of a run changes only the row it works on, and that has a number.
LEMMA RunOwn ==
  ASSUME QueueInv, TypeOK', CountsKept, faults' >= faults, UNCHANGED sess,
         NEW w \in Workers, NEW run, wk' = [wk EXCEPT ![w] = run], tasks' \subseteq tasks,
         \A r \in run.todo \cup run.stale : Named(r) \/ (~Own(r) /\ Present(r)),
         \A r \in Rows : Own(r) => rows'[r].status = rows[r].status,
         \A r \in Rows : rows[r].attempt_count = 0 => delivered'[r] = delivered[r]
  PROVE  OwnInv'
<1> DEFINE X == {r \in Rows : ~Own(r) /\ Present(r)}
<1>1. TypeOK /\ OwnInv /\ AbsentUncounted
  BY DEF QueueInv, NumberingInv
<1>2. run.todo \subseteq Rows /\ run.stale \subseteq Rows
  <2>1. wk'[w] = run /\ run \in Run
    BY <1>1 DEF TypeOK
  <2> QED BY <2>1 DEF Run
<1>3. \A r \in Rows : Named(r)' => Named(r) \/ r \in X
  <2>1. \A r \in run.todo \cup run.stale : Named(r) \/ r \in X
    BY <1>2
  <2> HIDE DEF X
  <2> QED BY <1>1, <2>1, RunNames
<1>4. \A s \in Sessions : Busy(sess'[s]) => Present(sess'[s].row)
  BY <1>1 DEF OwnInv, RowsKnown
<1>5. ASSUME NEW r \in Rows, NEW s \in Sessions, Itself(sess[s], r)
      PROVE  rows'[r].status = rows[r].status
  BY <1>1, <1>5 DEF OwnInv, SendsItself, Own
<1>6. \A r \in Rows : delivered[r] \in Nat /\ faults \in Nat /\ faults' \in Nat
  BY <1>1 DEF TypeOK
<1>7. \A r \in Rows : rows[r].attempt_count = 0 =>
        /\ delivered'[r] + faults <= delivered[r] + faults'
        /\ ~Present(r) => delivered'[r] = delivered[r]
  BY <1>6
<1> QED BY <1>1, <1>3, <1>4, <1>5, <1>7, OwnStep

\* A run puts its row down or goes on with it, after writing the row or not.
LEMMA WorkOwn ==
  ASSUME QueueInv, TypeOK', CountsKept, faults' >= faults, UNCHANGED sess,
         NEW w \in Workers, Works(wk[w]), NEW run, wk' = [wk EXCEPT ![w] = run],
         tasks' \subseteq tasks, run.todo \subseteq wk[w].todo, run.stale \subseteq wk[w].stale,
         \A r \in Rows \ {wk[w].row} : rows'[r] = rows[r] /\ delivered'[r] = delivered[r]
  PROVE  OwnInv'
<1>1. rows[wk[w].row].attempt_count > 0 /\ wk[w].row \in Rows
  BY DEF QueueInv, NumbersStart, Works, TypeOK
<1>2. \A r \in run.todo \cup run.stale : Named(r)
  BY DEF Named
<1>3. \A r \in Rows : rows[r].attempt_count = 0 => r # wk[w].row
  BY <1>1
<1> QED BY <1>2, <1>3, RunOwn DEF Own

LEMMA RunDone ==
  ASSUME TypeOK, NEW w \in Workers, EndRow(w) \/ EndRun(w)
  PROVE  \E run : /\ wk' = [wk EXCEPT ![w] = run] /\ tasks' \subseteq tasks
                  /\ run.todo \subseteq wk[w].todo /\ run.stale \subseteq wk[w].stale
                  /\ ~Works(run)
<1> DEFINE looping == [IdleWorker EXCEPT !.pc = "looping", !.todo = wk[w].todo]
<1>1. /\ IdleWorker.todo = {} /\ IdleWorker.stale = {} /\ IdleWorker.pc = "idle"
      /\ looping.todo = wk[w].todo /\ looping.stale = {} /\ looping.pc = "looping"
  BY DEF IdleWorker
<1>2. wk' = [wk EXCEPT ![w] = IdleWorker] \/ wk' = [wk EXCEPT ![w] = looping]
  BY DEF EndRow, EndRun
<1>3. tasks' \subseteq tasks
  BY DEF EndRow, EndRun, Acknowledged
<1> HIDE DEF looping
<1> QED BY <1>1, <1>2, <1>3 DEF Works

\* A handler step that neither begins nor ends a send of its own.
LEMMA HandlerOwn ==
  ASSUME QueueInv, TypeOK', CountsKept, faults' >= faults, UNCHANGED <<wk, delivered>>,
         NEW s \in Sessions, NEW h, sess' = [sess EXCEPT ![s] = h],
         \A r \in tasks' : Named(r),
         Reading(h) => Named(h.row) \/ (~Own(h.row) /\ Present(h.row)),
         \A r \in h.stale : Named(r) \/ (~Own(r) /\ Present(r)),
         Busy(h) => Present(h.row),
         \A r \in Rows : Itself(h, r) => Itself(sess[s], r) /\ h.op = sess[s].op,
         \A r \in Rows : Itself(sess[s], r) => Itself(h, r),
         \A r \in Rows : Own(r) => rows'[r].status \in {rows[r].status, "cancelled"}
  PROVE  OwnInv'
<1> DEFINE X == {r \in Rows : ~Own(r) /\ Present(r)}
<1>1. TypeOK /\ OwnInv /\ AbsentUncounted
  BY DEF QueueInv, NumberingInv
<1>2. \A t \in Sessions : sess'[t] = IF t = s THEN h ELSE sess[t]
  BY <1>1 DEF TypeOK
<1>3. h.stale \subseteq Rows /\ (Busy(h) => h.row \in Rows)
  BY <1>2 DEF TypeOK, Handler, Busy
<1>4. \A r \in Rows : Named(r)' => Named(r) \/ r \in X
  <2>1. /\ Reading(h) => Named(h.row) \/ h.row \in X
        /\ \A r \in h.stale : Named(r) \/ r \in X
    BY <1>3 DEF Reading, Busy
  <2> HIDE DEF X
  <2> QED BY <1>1, <2>1, HandlerNames
<1>5. \A t \in Sessions : Busy(sess'[t]) => Present(sess'[t].row)
  BY <1>1, <1>2 DEF OwnInv, RowsKnown
<1>6. \A t \in Sessions, r \in Rows :
        /\ Itself(sess'[t], r) => Itself(sess[t], r) /\ sess'[t].op = sess[t].op
        /\ Itself(sess[t], r) => Itself(sess'[t], r)
  BY <1>2
<1>7. \A r \in Rows, t \in Sessions : Itself(sess[t], r) => Own(r)
  BY <1>1 DEF OwnInv, SendsItself, Own
<1>8. \A r \in Rows : delivered[r] \in Nat /\ faults \in Nat /\ faults' \in Nat
  BY <1>1 DEF TypeOK
<1>9. \A r \in Rows : delivered'[r] + faults <= delivered[r] + faults'
  BY <1>8
<1> QED BY <1>1, <1>4, <1>5, <1>6, <1>7, <1>9, OwnStep

\* A request's own send comes to an end: in the row, or by a fault.
LEMMA ItselfEnds ==
  ASSUME QueueInv, TypeOK', CountsKept, faults' >= faults, UNCHANGED wk,
         NEW s \in Sessions, NEW r \in Rows, Itself(sess[s], r), Answer(s), tasks' = tasks,
         \A q \in Rows \ {r} : delivered'[q] = delivered[q] /\ rows'[q] = rows[q],
         delivered'[r] + faults <= delivered[r] + faults',
         \/ delivered'[r] <= faults'
         \/ rows'[r].status \in {"succeeded", "cancelled"}
  PROVE  OwnInv'
<1>1. TypeOK /\ OwnInv /\ AbsentUncounted
  BY DEF QueueInv, NumberingInv
<1>2. \A t \in Sessions : sess'[t] = IF t = s THEN IdleSession ELSE sess[t]
  BY <1>1 DEF TypeOK, Answer
<1>3. /\ ~Busy(IdleSession) /\ ~Reading(IdleSession) /\ IdleSession.stale = {}
      /\ \A q : ~Itself(IdleSession, q)
  BY DEF Busy, Reading, IdleSession, Itself
<1>4. \A q \in Rows : Named(q)' => Named(q)
  BY <1>2, <1>3 DEF Named
<1>5. \A t \in Sessions : Busy(sess'[t]) => Present(sess'[t].row)
  BY <1>1, <1>2, <1>3 DEF OwnInv, RowsKnown
<1>6. \A t \in Sessions, q \in Rows :
        Itself(sess'[t], q) => Itself(sess[t], q) /\ sess'[t].op = sess[t].op
  BY <1>2, <1>3
<1>7. \A q \in Rows : delivered[q] \in Nat /\ faults \in Nat /\ faults' \in Nat
  BY <1>1 DEF TypeOK
<1>8. \A q \in Rows : delivered'[q] + faults <= delivered[q] + faults'
  BY <1>7
<1>9. Present(r)
  BY <1>1 DEF OwnInv, SendsItself, Present
<1>10. ASSUME NEW q \in Rows, NEW t \in Sessions, Itself(sess[t], q)
       PROVE  \/ Itself(sess'[t], q) /\ rows'[q].status \in {rows[q].status, "cancelled"}
              \/ /\ ~Itself(sess'[t], q)
                 /\ delivered'[q] <= faults' \/ rows'[q].status \in {"succeeded", "cancelled"}
  <2>1. CASE t = s
    BY <1>2, <1>3, <1>10, <2>1 DEF Itself
  <2>2. CASE t # s
    <3>1. q # r
      BY <1>1, <1>10, <2>2 DEF OwnInv, SendsItself
    <3> QED BY <1>2, <1>10, <2>2, <3>1
  <2> QED BY <2>1, <2>2
<1>11. ASSUME NEW q \in Rows, \A t \in Sessions : ~Itself(sess[t], q)
       PROVE  rows'[q].status = rows[q].status
  BY <1>11
<1>12. \A q \in Rows : ~Present(q) => delivered'[q] = delivered[q]
  BY <1>9
<1> QED BY <1>1, <1>4, <1>5, <1>6, <1>8, <1>10, <1>11, <1>12, OwnStep

LEMMA OwnCreated ==
  ASSUME QueueInv, TypeOK', NEW s \in Sessions, NEW r \in Rows,
         NEW mode \in {"sync", "now", "later"}, CreateHistory(s, r, mode)
  PROVE  OwnInv'
<1> DEFINE new == [AbsentRow EXCEPT
                     !.status = IF mode = "sync" THEN "created" ELSE "queued",
                     !.next_retry_at = IF mode = "later" THEN "future" ELSE "none"]
           h == [op |-> IF mode = "sync" THEN "sync" ELSE "enqueue", row |-> r,
                 snap |-> new, prev |-> "none", stale |-> {}]
<1>1. TypeOK /\ OwnInv
  BY DEF QueueInv
<1>2. /\ sess[s].op = "idle" /\ ~Present(r) /\ rows' = [rows EXCEPT ![r] = new]
      /\ UNCHANGED <<tasks, wk, delivered, faults>>
      /\ sess' = [sess EXCEPT ![s] = h] \/ (mode = "later" /\ UNCHANGED sess)
  BY DEF CreateHistory, Hold, Present
<1>3. /\ new.status = IF mode = "sync" THEN "created" ELSE "queued"
      /\ new.attempt_count = 0
  BY DEF AbsentRow
<1>4. /\ h.row = r /\ h.stale = {} /\ h.op = IF mode = "sync" THEN "sync" ELSE "enqueue"
  OBVIOUS
<1> HIDE DEF new, h
<1>5. /\ rows'[r] = new /\ Present(r)'
      /\ \A q \in Rows \ {r} : rows'[q] = rows[q]
  BY <1>1, <1>2, <1>3 DEF TypeOK, Present
<1>6. /\ ~Named(r) /\ delivered[r] = 0
      /\ \A t \in Sessions : Busy(sess[t]) => sess[t].row # r
  BY <1>1, <1>2 DEF OwnInv, RowsKnown
<1>7. \A t \in Sessions :
        \/ sess'[t] = sess[t]
        \/ t = s /\ sess'[t] = h /\ mode # "later"
        \/ t = s /\ sess'[t] = h /\ mode = "later"
  BY <1>1, <1>2 DEF TypeOK
<1>8. mode = "later" => UNCHANGED sess
  BY DEF CreateHistory
<1>9. \A t \in Sessions : sess'[t] = sess[t] \/ (t = s /\ sess'[t] = h /\ mode # "later")
  BY <1>7, <1>8
<1>10. ASSUME NEW q \in Rows, Named(q)'
       PROVE  Named(q) \/ (q = r /\ mode = "now")
  BY <1>2, <1>4, <1>9, <1>10 DEF Named, Reading
<1>11. ASSUME NEW t \in Sessions, NEW q \in Rows, Itself(sess'[t], q)
       PROVE  \/ q # r /\ sess'[t] = sess[t]
              \/ q = r /\ t = s /\ mode = "sync"
  BY <1>4, <1>6, <1>9, <1>11 DEF Itself, Busy
<1>12. ASSUME NEW t \in Sessions, NEW q \in Rows \ {r}, Itself(sess[t], q)
       PROVE  Itself(sess'[t], q)
  BY <1>2, <1>9, <1>12 DEF Itself
<1>13. /\ faults \in Nat /\ \A q \in Rows : delivered[q] \in Nat
  BY <1>1 DEF TypeOK
<1>14. RowsKnown'
  <2>1. ASSUME NEW q \in Rows, ~Present(q)'
        PROVE  ~Named(q)' /\ delivered'[q] = 0
    <3>1. q # r /\ ~Present(q)
      BY <1>5, <2>1 DEF Present
    <3> QED BY <1>1, <1>2, <1>10, <3>1 DEF OwnInv, RowsKnown
  <2>2. ASSUME NEW t \in Sessions, Busy(sess'[t])
        PROVE  rows'[sess'[t].row].status # "absent"
    <3>1. CASE sess'[t] = h
      BY <1>4, <1>5, <3>1 DEF Present
    <3>2. CASE sess'[t] = sess[t]
      BY <1>1, <1>5, <1>6, <2>2, <3>2 DEF OwnInv, RowsKnown, Busy, TypeOK, Present
    <3> QED BY <1>9, <3>1, <3>2
  <2> QED BY <2>1, <2>2 DEF RowsKnown, Present, Busy
<1>15. ASSUME NEW q \in Rows \ {r}, Own(q)'
       PROVE  Own(q)
  BY <1>2, <1>5, <1>11, <1>15 DEF Own
<1>16. OwnUnnamed'
  <2> SUFFICES ASSUME NEW q \in Rows, Own(q)' PROVE ~Named(q)'
    BY DEF OwnUnnamed
  <2>1. CASE q # r
    BY <1>1, <1>10, <1>15, <2>1 DEF OwnInv, OwnUnnamed
  <2>2. CASE q = r
    <3>1. delivered'[r] <= faults'
      BY <1>2, <1>6, <1>13
    <3>2. mode = "sync"
      BY <1>2, <1>6, <1>11, <1>13, <2>2, <3>1 DEF Own
    <3> QED BY <1>6, <1>10, <2>2, <3>2
  <2> QED BY <2>1, <2>2
<1>17. SendsItself'
  <2> SUFFICES ASSUME NEW t \in Sessions, NEW q \in Rows, Itself(sess'[t], q)
               PROVE  /\ rows'[q].attempt_count = 0 /\ rows'[q].status \in {"created", "cancelled"}
                      /\ sess'[t].op = "sync" => delivered'[q] <= faults'
                      /\ \A u \in Sessions : Itself(sess'[u], q) => u = t
    BY DEF SendsItself, Itself
  <2>1. CASE q # r
    BY <1>1, <1>2, <1>5, <1>11, <2>1 DEF OwnInv, SendsItself
  <2>2. CASE q = r
    BY <1>2, <1>3, <1>5, <1>6, <1>11, <1>13, <2>2
  <2> QED BY <2>1, <2>2
<1>18. OwnEnds'
  <2> SUFFICES ASSUME NEW q \in Rows, rows'[q].attempt_count = 0
               PROVE  /\ delivered'[q] <= 1 + faults'
                      /\ delivered'[q] > faults' /\ (\A t \in Sessions : ~Itself(sess'[t], q)) =>
                           rows'[q].status \in {"succeeded", "cancelled"}
    BY DEF OwnEnds, Itself
  <2>1. CASE q # r
    BY <1>1, <1>2, <1>5, <1>12, <2>1 DEF OwnInv, OwnEnds
  <2>2. CASE q = r
    BY <1>2, <1>6, <1>13, <2>2
  <2> QED BY <2>1, <2>2
<1> QED BY <1>14, <1>16, <1>17, <1>18 DEF OwnInv

\* Telegram takes the message of a request's own send: one delivery more than faults, at most.
LEMMA OwnTaken ==
  ASSUME QueueInv, TypeOK', NEW s \in Sessions, SyncAccepted(s)
  PROVE  OwnInv'
<1> DEFINE r == sess[s].row
           h == [sess[s] EXCEPT !.op = "synced"]
<1>1. TypeOK /\ OwnInv
  BY DEF QueueInv
<1>2. /\ r \in Rows /\ Itself(sess[s], r) /\ sess[s].op = "sync" /\ sess' = [sess EXCEPT ![s] = h]
      /\ UNCHANGED <<rows, tasks, wk>>
      /\ h.op = "synced" /\ h.row = r /\ h.stale = sess[s].stale
  BY <1>1 DEF SyncAccepted, Itself, TypeOK, Handler
<1> HIDE DEF h
<1>3. \A t \in Sessions : sess'[t] = IF t = s THEN h ELSE sess[t]
  BY <1>1, <1>2 DEF TypeOK
<1>4. /\ faults \in Nat /\ faults' \in Nat /\ delivered[r] \in Nat /\ delivered'[r] \in Nat
      /\ faults' >= faults
      /\ delivered'[r] + faults <= delivered[r] + 1 + faults'
      /\ \A q \in Rows \ {r} : delivered'[q] = delivered[q] /\ delivered[q] \in Nat
  <2>1. /\ faults \in Nat /\ faults' \in Nat /\ delivered' \in [Rows -> Nat]
        /\ delivered \in [Rows -> Nat]
    BY <1>1 DEF TypeOK
  <2>2. \/ delivered' = [delivered EXCEPT ![r] = @ + 1] /\ faults' = faults
        \/ delivered' = [delivered EXCEPT ![r] = @ + 2] /\ faults' = faults + 1
    BY DEF SyncAccepted, Accepted, TakenBy, Fault
  <2> QED BY <1>2, <2>1, <2>2
<1>5. \A q \in Rows : Named(q)' => Named(q)
  BY <1>2, <1>3 DEF Named, Reading
<1>6. \A t \in Sessions, q \in Rows : Itself(sess'[t], q) <=> Itself(sess[t], q)
  BY <1>2, <1>3 DEF Itself
<1>7. /\ rows[r].attempt_count = 0 /\ delivered[r] <= faults
      /\ rows[r].status \in {"created", "cancelled"}
  BY <1>1, <1>2 DEF OwnInv, SendsItself
<1>8. RowsKnown'
  <2>1. \A t \in Sessions : Busy(sess'[t]) => Busy(sess[t]) /\ sess'[t].row = sess[t].row
    BY <1>2, <1>3 DEF Busy
  <2>2. Present(r)
    BY <1>7 DEF Present
  <2> QED BY <1>1, <1>2, <1>4, <1>5, <2>1, <2>2 DEF OwnInv, RowsKnown, Present, Busy
<1>9. \A q \in Rows : Own(q)' => Own(q)
  <2> SUFFICES ASSUME NEW q \in Rows, Own(q)' PROVE Own(q)
    OBVIOUS
  <2>1. CASE q = r
    BY <1>2, <1>7, <2>1 DEF Own
  <2>2. CASE q # r
    BY <1>2, <1>4, <1>6, <2>2 DEF Own
  <2> QED BY <2>1, <2>2
<1>10. OwnUnnamed'
  BY <1>1, <1>5, <1>9 DEF OwnInv, OwnUnnamed
<1>11. SendsItself'
  <2> SUFFICES ASSUME NEW t \in Sessions, NEW q \in Rows, Itself(sess'[t], q)
               PROVE  /\ rows'[q].attempt_count = 0 /\ rows'[q].status \in {"created", "cancelled"}
                      /\ sess'[t].op = "sync" => delivered'[q] <= faults'
                      /\ \A u \in Sessions : Itself(sess'[u], q) => u = t
    BY DEF SendsItself, Itself
  <2>1. /\ rows[q].attempt_count = 0 /\ rows[q].status \in {"created", "cancelled"}
        /\ sess[t].op = "sync" => delivered[q] <= faults
        /\ \A u \in Sessions : Itself(sess[u], q) => u = t
    BY <1>1, <1>6 DEF OwnInv, SendsItself
  <2>2. sess'[t].op = "sync" => delivered'[q] <= faults'
    <3>1. CASE q = r
      BY <1>2, <1>3, <1>6, <2>1, <3>1
    <3>2. CASE q # r
      <4>1. t # s
        BY <1>2, <1>6, <3>2 DEF Itself
      <4> QED BY <1>3, <1>4, <2>1, <3>2, <4>1
    <3> QED BY <3>1, <3>2
  <2> QED BY <1>2, <1>6, <2>1, <2>2
<1>12. OwnEnds'
  <2> SUFFICES ASSUME NEW q \in Rows, rows'[q].attempt_count = 0
               PROVE  /\ delivered'[q] <= 1 + faults'
                      /\ delivered'[q] > faults' /\ (\A t \in Sessions : ~Itself(sess'[t], q)) =>
                           rows'[q].status \in {"succeeded", "cancelled"}
    BY DEF OwnEnds, Itself
  <2>1. CASE q = r
    BY <1>2, <1>4, <1>6, <1>7, <2>1
  <2>2. CASE q # r
    BY <1>1, <1>2, <1>4, <1>6, <2>2 DEF OwnInv, OwnEnds
  <2> QED BY <2>1, <2>2
<1> QED BY <1>8, <1>10, <1>11, <1>12 DEF OwnInv

\* The other steps of requests, one by one.
LEMMA OwnRequests ==
  ASSUME QueueInv, TypeOK', CountsKept, NEW s \in Sessions,
         \/ \E r \in Rows : ReplayHistory(s, r) \/ ReadForCancel(s, r) \/ ReadForRetry(s, r)
         \/ ReadForRelease(s)
  PROVE  OwnInv'
<1>1. /\ TypeOK /\ OwnInv /\ faults \in Nat
  BY DEF QueueInv, TypeOK
<1>2. /\ UNCHANGED <<rows, tasks, wk, delivered, faults>> /\ sess[s].op = "idle"
      /\ \A r \in tasks' : Named(r)
      /\ faults' >= faults
  BY <1>1 DEF ReplayHistory, ReadForCancel, ReadForRetry, ReadForRelease, Named
<1>3. \A r \in Rows : Own(r) => rows'[r].status \in {rows[r].status, "cancelled"}
  BY <1>2
<1>4. ASSUME NEW r \in Rows, NEW op \in {"enqueue", "cancel", "retry"}, NEW prev,
             Hold(s, op, r, rows[r], prev),
             op = "cancel" \/ ~Own(r), Present(r)
      PROVE  OwnInv'
  <2> DEFINE h == [op |-> op, row |-> r, snap |-> rows[r], prev |-> prev, stale |-> {}]
  <2>1. sess' = [sess EXCEPT ![s] = h]
    BY <1>4 DEF Hold
  <2>2. h.op = op /\ h.row = r /\ h.stale = {}
    OBVIOUS
  <2>3. \A q \in Rows : ~Itself(h, q) /\ ~Itself(sess[s], q)
    BY <1>2, <2>2 DEF Itself
  <2> HIDE DEF h
  <2>4. Reading(h) => ~Own(h.row) /\ Present(h.row)
    BY <1>4, <2>2 DEF Reading
  <2> QED BY <1>2, <1>3, <1>4, <2>1, <2>2, <2>3, <2>4, HandlerOwn
<1>5. ASSUME NEW r \in Rows, ReplayHistory(s, r) \/ ReadForRetry(s, r)
      PROVE  ~Own(r) /\ Present(r)
  BY <1>1, <1>5, OwnStatus DEF ReplayHistory, ReadForRetry, Retryable, Present
<1>6. ASSUME NEW r \in Rows, ReadForCancel(s, r)
      PROVE  Present(r)
  BY <1>6 DEF ReadForCancel, Cancellable, Present
<1>7. CASE ReadForRelease(s)
  <2> DEFINE stale == StaleLocks({"expired", "stale"})
             h == [IdleSession EXCEPT !.op = "release", !.stale = stale]
  <2>1. sess' = [sess EXCEPT ![s] = h]
    BY <1>7 DEF ReadForRelease
  <2>2. h.op = "release" /\ h.stale = stale
    BY DEF IdleSession
  <2>3. \A r \in stale : ~Own(r) /\ Present(r)
    BY <1>1, OwnStatus DEF StaleLocks, Present
  <2> HIDE DEF h, stale
  <2>4. ~Reading(h) /\ ~Busy(h) /\ \A q \in Rows : ~Itself(h, q) /\ ~Itself(sess[s], q)
    BY <1>2, <2>2 DEF Itself, Reading, Busy
  <2> QED BY <1>2, <1>3, <2>1, <2>2, <2>3, <2>4, HandlerOwn
<1> QED BY <1>4, <1>5, <1>6, <1>7 DEF ReplayHistory, ReadForCancel, ReadForRetry

\* A handler that writes its row writes no row of a request's own, but to cancel it.
LEMMA CommitLeavesOwn ==
  ASSUME TypeOK, NEW s \in Sessions, NEW new, Commit(s, new),
         Busy(sess[s]) => ~Own(sess[s].row) \/ new.status \in {sess[s].snap.status, "cancelled"},
         Busy(sess[s])
  PROVE  /\ \A r \in Rows : Own(r) => rows'[r].status \in {rows[r].status, "cancelled"}
         /\ \A r \in Rows \ {sess[s].row} : rows'[r] = rows[r]
         /\ sess[s].row \in Rows
         /\ rows'[sess[s].row].status =
               IF new.status # sess[s].snap.status THEN new.status ELSE rows[sess[s].row].status
<1> DEFINE row == OrmWrite(rows[sess[s].row], sess[s].snap, new)
<1>1. sess[s].row \in Rows
  BY DEF TypeOK, Busy
<1>2. rows' = [rows EXCEPT ![sess[s].row] = row]
  BY DEF Commit
<1>3. row.status = IF new.status # sess[s].snap.status THEN new.status
                   ELSE rows[sess[s].row].status
  BY OrmWriteFields
<1> HIDE DEF row
<1>4. rows'[sess[s].row] = row /\ \A r \in Rows \ {sess[s].row} : rows'[r] = rows[r]
  BY <1>1, <1>2 DEF TypeOK
<1> QED BY <1>1, <1>3, <1>4

LEMMA OwnSessionSteps ==
  ASSUME QueueInv, TypeOK', CountsKept, NEW s \in Sessions,
         \/ EnqueueTask(s) \/ CommitTaskId(s) \/ CommitCancel(s) \/ CommitRetry(s)
         \/ CommitRestore(s) \/ CommitRelease(s) \/ RipenHeld(s)
  PROVE  OwnInv'
<1>1. /\ TypeOK /\ OwnInv /\ HandlerSnap(sess[s]) /\ sess[s] \in Handler /\ sess[s].snap \in Row
      /\ faults \in Nat
  BY DEF QueueInv, SnapsSound, TypeOK, Handler
<1>2. UNCHANGED <<wk, delivered, faults>> /\ faults' >= faults
  BY <1>1 DEF EnqueueTask, CommitTaskId, CommitCancel, CommitRetry, CommitRestore, CommitRelease,
              RipenHeld
<1>3. /\ Busy(sess[s]) => sess[s].row \in Rows /\ Present(sess[s].row)
      /\ Reading(sess[s]) => Named(sess[s].row) /\ ~Own(sess[s].row)
      /\ \A r \in sess[s].stale : Named(r)
  <2>1. Reading(sess[s]) => Busy(sess[s]) /\ Named(sess[s].row)
    BY DEF Reading, Busy, Named
  <2>2. \A r \in sess[s].stale : Named(r)
    BY DEF Named
  <2>3. Busy(sess[s]) => sess[s].row \in Rows /\ Present(sess[s].row)
    BY <1>1 DEF Busy, TypeOK, OwnInv, RowsKnown
  <2> QED BY <1>1, <2>1, <2>2, <2>3 DEF OwnInv, OwnUnnamed
<1>4. \A r \in tasks : Named(r)
  BY DEF Named
<1>5. /\ \A r : ~Itself(IdleSession, r)
      /\ ~Busy(IdleSession) /\ ~Reading(IdleSession) /\ IdleSession.stale = {}
  BY DEF Itself, Busy, Reading, IdleSession
<1>6. CASE EnqueueTask(s)
  <2> DEFINE h == [sess[s] EXCEPT !.op = "mark"]
  <2>1. /\ sess' = [sess EXCEPT ![s] = h] /\ UNCHANGED rows /\ tasks' = tasks \cup {sess[s].row}
        /\ sess[s].op = "enqueue" /\ h.op = "mark" /\ h.row = sess[s].row /\ h.stale = sess[s].stale
    BY <1>1, <1>6 DEF EnqueueTask, TypeOK, Handler
  <2> HIDE DEF h
  <2>2. Reading(sess[s]) /\ Busy(sess[s]) /\ \A r : ~Itself(sess[s], r) /\ ~Itself(h, r)
    BY <2>1 DEF Reading, Busy, Itself
  <2>3. \A r \in tasks' : Named(r)
    BY <1>3, <1>4, <2>1, <2>2
  <2> QED BY <1>2, <1>3, <2>1, <2>2, <2>3, HandlerOwn
<1>7. ASSUME NEW new, Commit(s, new), Reading(sess[s]) \/ new.status \in {sess[s].snap.status, "cancelled"},
             Busy(sess[s]), ~Itself(sess[s], sess[s].row), UNCHANGED tasks,
             NEW h, sess' = [sess EXCEPT ![s] = h],
             h = IdleSession \/ (Reading(h) /\ Reading(sess[s]) /\ h.row = sess[s].row /\ h.stale = {})
      PROVE  OwnInv'
  <2>1. \A r \in Rows : Own(r) => rows'[r].status \in {rows[r].status, "cancelled"}
    BY <1>1, <1>3, <1>7, CommitLeavesOwn
  <2>2. \A r : ~Itself(sess[s], r)
    BY <1>7 DEF Itself
  <2>3. \A r : ~Itself(h, r)
    BY <1>5, <1>7 DEF Itself, Reading
  <2>4. Reading(h) => Named(h.row)
    BY <1>3, <1>5, <1>7
  <2>5. \A r \in h.stale : Named(r)
    BY <1>5, <1>7
  <2>6. Busy(h) => Present(h.row)
    BY <1>3, <1>5, <1>7
  <2> QED BY <1>2, <1>4, <1>7, <2>1, <2>2, <2>3, <2>4, <2>5, <2>6, HandlerOwn
<1>8. CASE CommitTaskId(s)
  BY <1>7, <1>8 DEF CommitTaskId, Answer, Reading, Busy, Itself
<1>9. CASE CommitCancel(s)
  <2>1. MarkCancelled(sess[s].snap).status = "cancelled"
    BY <1>1, MarkFields
  <2> QED BY <1>7, <1>9, <2>1 DEF CommitCancel, Answer, Busy, Itself
<1>10. CASE CommitRetry(s)
  <2> DEFINE new == MarkRetried(sess[s].snap)
  <2>1. Commit(s, new) /\ UNCHANGED tasks /\ sess[s].op = "retry"
    BY <1>10 DEF CommitRetry
  <2>2. PICK op \in {"enqueue", "restore"}, prev \in {sess[s].prev, "none"} :
              Hold(s, op, sess[s].row, new, prev)
    BY <1>10 DEF CommitRetry
  <2> DEFINE h == [op |-> op, row |-> sess[s].row, snap |-> new, prev |-> prev, stale |-> {}]
  <2>3. /\ sess' = [sess EXCEPT ![s] = h] /\ h.op = op /\ h.row = sess[s].row /\ h.stale = {}
    BY <2>2 DEF Hold
  <2> HIDE DEF h, new
  <2>4. Reading(h) /\ Reading(sess[s]) /\ Busy(sess[s]) /\ ~Itself(sess[s], sess[s].row)
    BY <2>1, <2>3 DEF Reading, Busy, Itself
  <2> QED BY <1>7, <2>1, <2>3, <2>4
<1>11. CASE CommitRestore(s)
  <2> DEFINE new == [sess[s].snap EXCEPT !.next_retry_at = sess[s].prev]
             h == [op |-> "enqueue", row |-> sess[s].row, snap |-> new, prev |-> "none",
                   stale |-> {}]
  <2>1. Commit(s, new) /\ UNCHANGED tasks /\ sess[s].op = "restore"
    BY <1>11 DEF CommitRestore
  <2>2. sess' = [sess EXCEPT ![s] = h] \/ sess' = [sess EXCEPT ![s] = IdleSession]
    BY <1>11 DEF CommitRestore, Hold, Answer
  <2>3. h.op = "enqueue" /\ h.row = sess[s].row /\ h.stale = {}
    OBVIOUS
  <2> HIDE DEF h, new
  <2>4. Reading(h) /\ Reading(sess[s]) /\ Busy(sess[s]) /\ ~Itself(sess[s], sess[s].row)
    BY <2>1, <2>3 DEF Reading, Busy, Itself
  <2>5. CASE sess' = [sess EXCEPT ![s] = h]
    BY <1>7, <2>1, <2>3, <2>4, <2>5
  <2>6. CASE sess' = [sess EXCEPT ![s] = IdleSession]
    BY <1>7, <2>1, <2>4, <2>6
  <2> QED BY <2>2, <2>5, <2>6
<1>12. CASE CommitRelease(s)
  <2>1. /\ rows' = Released(sess[s].stale) /\ sess' = [sess EXCEPT ![s] = IdleSession]
        /\ UNCHANGED tasks /\ sess[s].op = "release"
    BY <1>12 DEF CommitRelease, Answer
  <2>2. ASSUME NEW r \in Rows, Own(r)
        PROVE  rows'[r].status = rows[r].status
    <3>1. r \notin sess[s].stale
      BY <1>1, <1>3, <2>2 DEF OwnInv, OwnUnnamed
    <3> QED BY <2>1, <3>1 DEF Released
  <2>3. \A r : ~Itself(sess[s], r)
    BY <2>1 DEF Itself
  <2> QED BY <1>2, <1>4, <1>5, <2>1, <2>2, <2>3, HandlerOwn
<1>13. CASE RipenHeld(s)
  <2> DEFINE h == [sess[s] EXCEPT !.prev = "past"]
  <2>1. /\ sess' = [sess EXCEPT ![s] = h] /\ UNCHANGED <<rows, tasks>>
        /\ h.op = sess[s].op /\ h.row = sess[s].row /\ h.stale = sess[s].stale
    BY <1>1, <1>13 DEF RipenHeld, TypeOK, Handler
  <2> HIDE DEF h
  <2>2. /\ Reading(h) <=> Reading(sess[s])
        /\ Busy(h) <=> Busy(sess[s])
        /\ \A r : Itself(h, r) <=> Itself(sess[s], r)
    BY <2>1 DEF Reading, Busy, Itself
  <2> QED BY <1>2, <1>3, <1>4, <2>1, <2>2, HandlerOwn
<1> QED BY <1>6, <1>8, <1>9, <1>10, <1>11, <1>12, <1>13

LEMMA OwnSendEnds ==
  ASSUME QueueInv, TypeOK', CountsKept, NEW s \in Sessions,
         SyncRefused(s) \/ SyncSucceeded(s) \/ SessionDies(s)
  PROVE  OwnInv'
<1> DEFINE r == sess[s].row
<1>1. /\ TypeOK /\ OwnInv /\ HandlerSnap(sess[s]) /\ sess[s].snap \in Row
      /\ faults \in Nat /\ \A q \in Rows : delivered[q] \in Nat /\ delivered'[q] \in Nat
  BY DEF QueueInv, SnapsSound, TypeOK, Handler
<1>2. UNCHANGED <<wk, tasks>> /\ Answer(s)
  BY DEF SyncRefused, SyncSucceeded, SessionDies
<1>3. Itself(sess[s], r) => /\ delivered[r] <= 1 + faults /\ Own(r) /\ Busy(sess[s])
                            /\ sess[s].op = "sync" => delivered[r] <= faults
                            /\ r \in Rows
  <2> SUFFICES ASSUME Itself(sess[s], r)
               PROVE  /\ delivered[r] <= 1 + faults /\ Own(r) /\ Busy(sess[s])
                      /\ sess[s].op = "sync" => delivered[r] <= faults
                      /\ r \in Rows
    OBVIOUS
  <2>1. r \in Rows /\ Busy(sess[s])
    BY <1>1 DEF Itself, Busy, TypeOK
  <2>2. rows[r].attempt_count = 0 /\ (sess[s].op = "sync" => delivered[r] <= faults)
    BY <1>1, <2>1 DEF OwnInv, SendsItself
  <2> QED BY <1>1, <2>1, <2>2 DEF OwnInv, OwnEnds, Own
<1>4. CASE SyncSucceeded(s)
  <2>1. /\ Itself(sess[s], r) /\ UNCHANGED <<delivered, faults>>
        /\ Commit(s, MarkSucceeded(sess[s].snap))
    BY <1>4 DEF SyncSucceeded, Itself
  <2>2. MarkSucceeded(sess[s].snap).status = "succeeded" /\ sess[s].snap.status = "created"
    BY <1>1, <1>4, MarkFields DEF SyncSucceeded, HandlerSnap
  <2>3. /\ \A q \in Rows \ {r} : rows'[q] = rows[q]
        /\ rows'[r].status = "succeeded"
    <3> DEFINE row == OrmWrite(rows[r], sess[s].snap, MarkSucceeded(sess[s].snap))
    <3>1. row.status = "succeeded"
      BY <2>2, OrmWriteFields
    <3>2. rows' = [rows EXCEPT ![r] = row]
      BY <2>1 DEF Commit
    <3> HIDE DEF row
    <3> QED BY <1>1, <1>3, <2>1, <3>1, <3>2 DEF TypeOK
  <2> QED BY <1>1, <1>2, <1>3, <2>1, <2>3, ItselfEnds
<1>5. CASE SyncRefused(s)
  <2>1. /\ Itself(sess[s], r) /\ sess[s].op = "sync" /\ Unheard(r)
        /\ Commit(s, MarkFailed(sess[s].snap))
    BY <1>5 DEF SyncRefused, Itself
  <2>2. \A q \in Rows \ {r} : rows'[q] = rows[q]
    <3> DEFINE row == OrmWrite(rows[r], sess[s].snap, MarkFailed(sess[s].snap))
    <3>1. rows' = [rows EXCEPT ![r] = row]
      BY <2>1 DEF Commit
    <3> HIDE DEF row
    <3> QED BY <1>1, <3>1 DEF TypeOK
  <2>3. /\ \A q \in Rows \ {r} : delivered'[q] = delivered[q]
        /\ faults' >= faults /\ faults' \in Nat /\ delivered'[r] + faults <= delivered[r] + faults'
    <3>1. \/ UNCHANGED <<delivered, faults>>
          \/ delivered' = [delivered EXCEPT ![r] = @ + 1] /\ faults' = faults + 1
      BY <2>1 DEF Unheard, TakenBy, Fault
    <3>2. delivered \in [Rows -> Nat] /\ r \in Rows
      BY <1>1, <1>3, <2>1 DEF TypeOK
    <3> QED BY <1>1, <3>1, <3>2
  <2>4. delivered'[r] <= faults'
    BY <1>1, <1>3, <2>1, <2>3
  <2> QED BY <1>2, <1>3, <2>1, <2>2, <2>3, <2>4, ItselfEnds
<1>6. CASE SessionDies(s)
  <2>1. UNCHANGED <<rows, delivered>> /\ faults' = faults + 1 /\ faults' >= faults
    BY <1>1, <1>6 DEF SessionDies, Fault
  <2>2. CASE Itself(sess[s], r)
    <3>1. delivered'[r] <= faults' /\ delivered'[r] + faults <= delivered[r] + faults'
      BY <1>1, <1>3, <2>1, <2>2
    <3> QED BY <1>2, <1>3, <2>1, <2>2, <3>1, ItselfEnds
  <2>3. CASE ~Itself(sess[s], r)
    <3>1. \A q : ~Itself(sess[s], q)
      BY <2>3 DEF Itself
    <3>2. /\ \A q : ~Itself(IdleSession, q)
          /\ ~Busy(IdleSession) /\ ~Reading(IdleSession) /\ IdleSession.stale = {}
      BY DEF Itself, Busy, Reading, IdleSession
    <3>3. sess' = [sess EXCEPT ![s] = IdleSession] /\ \A q \in tasks' : Named(q)
      BY <1>2 DEF Answer, Named
    <3>4. \A q \in Rows : Own(q) => rows'[q].status \in {rows[q].status, "cancelled"}
      BY <2>1
    <3> QED BY <1>2, <2>1, <3>1, <3>2, <3>3, <3>4, HandlerOwn
  <2> QED BY <2>2, <2>3
<1> QED BY <1>4, <1>5, <1>6

\* A lease takes a row that was named: no request's own.
LEMMA OwnLeased ==
  ASSUME QueueInv, TypeOK', NEW w \in Workers, NEW r \in Rows, NEW src \in {"task", "due"},
         AcquireLease(w, r, src)
  PROVE  OwnInv' /\ ~Own(r)
<1> DEFINE run == [pc |-> "leased", row |-> r, snap |-> Leased(rows[r]), src |-> src,
                   todo |-> wk[w].todo \ {r}, stale |-> {}]
<1>1. TypeOK /\ OwnInv /\ NumberingInv
  BY DEF QueueInv
<1>2. /\ wk' = [wk EXCEPT ![w] = run] /\ UNCHANGED <<tasks, sess, delivered, faults>>
      /\ rows' = [rows EXCEPT ![r] = Leased(rows[r])]
      /\ run.todo \subseteq wk[w].todo /\ run.stale = {}
  BY <1>1 DEF AcquireLease, TypeOK
<1> HIDE DEF run
<1>3. Named(r)
  BY DEF AcquireLease, Takes, Named
<1>4. ~Own(r) /\ Present(r)
  BY <1>1, <1>3 DEF OwnInv, OwnUnnamed, RowsKnown
<1>5. \A s \in Sessions : ~Itself(sess[s], r)
  BY <1>1, <1>4 DEF OwnInv, SendsItself, Own
<1>6. /\ rows'[r].attempt_count > 0 /\ Present(r)'
      /\ \A q \in Rows \ {r} : rows'[q] = rows[q]
  <2>1. Leased(rows[r]).attempt_count > 0 /\ Leased(rows[r]).status = "sending"
    BY <1>1 DEF TypeOK, Row, Leased
  <2> QED BY <1>1, <1>2, <2>1 DEF TypeOK, Present
<1>7. \A q \in Rows : Named(q)' => Named(q)
  <2> DEFINE X == {}
  <2>1. \A q \in run.todo \cup run.stale : Named(q) \/ q \in {}
    BY <1>2 DEF Named
  <2>2. \A q \in Rows : Named(q)' => Named(q) \/ q \in {}
    BY <1>1, <1>2, <2>1, RunNames
  <2> QED BY <2>2
<1>8. RowsKnown'
  <2>1. ASSUME NEW q \in Rows, ~Present(q)'
        PROVE  ~Named(q)' /\ delivered'[q] = 0
    <3>1. q # r /\ ~Present(q)
      BY <1>6, <2>1 DEF Present
    <3> QED BY <1>1, <1>2, <1>7, <3>1 DEF OwnInv, RowsKnown
  <2>2. ASSUME NEW t \in Sessions, Busy(sess[t])
        PROVE  rows'[sess[t].row].status # "absent"
    BY <1>1, <1>6, <2>2 DEF OwnInv, RowsKnown, Present, Busy, TypeOK
  <2> QED BY <1>2, <2>1, <2>2 DEF RowsKnown, Present, Busy
<1>9. \A q \in Rows : Own(q)' => Own(q) /\ q # r
  BY <1>2, <1>6 DEF Own, Itself
<1>10. OwnUnnamed'
  BY <1>1, <1>7, <1>9 DEF OwnInv, OwnUnnamed
<1>11. SendsItself'
  BY <1>1, <1>2, <1>5, <1>6 DEF OwnInv, SendsItself, Itself
<1>12. OwnEnds'
  <2> SUFFICES ASSUME NEW q \in Rows, rows'[q].attempt_count = 0
               PROVE  /\ delivered'[q] <= 1 + faults'
                      /\ delivered'[q] > faults' /\ (\A t \in Sessions : ~Itself(sess'[t], q)) =>
                           rows'[q].status \in {"succeeded", "cancelled"}
    BY DEF OwnEnds, Itself
  <2>1. q # r /\ rows'[q] = rows[q]
    BY <1>6
  <2> QED BY <1>1, <1>2, <2>1 DEF OwnInv, OwnEnds
<1> QED BY <1>4, <1>8, <1>10, <1>11, <1>12 DEF OwnInv

LEMMA RunDoneOwn ==
  ASSUME QueueInv, TypeOK', CountsKept, faults' >= faults, UNCHANGED sess,
         NEW w \in Workers, Works(wk[w]), EndRow(w) \/ EndRun(w),
         \A r \in Rows \ {wk[w].row} : rows'[r] = rows[r] /\ delivered'[r] = delivered[r]
  PROVE  OwnInv'
<1>1. PICK run : /\ wk' = [wk EXCEPT ![w] = run] /\ tasks' \subseteq tasks
                 /\ run.todo \subseteq wk[w].todo /\ run.stale \subseteq wk[w].stale
  BY RunDone DEF QueueInv
<1> QED BY <1>1, WorkOwn

\* What a run's step may do to the rows, the deliveries and the fault budget.
LEMMA WorkTouches ==
  ASSUME TypeOK, NEW w \in Workers, RunStep(w) \/ RunFault(w), Works(wk[w]),
         \A r \in Rows, src \in {"task", "due"} :
            ~AcquireLease(w, r, src) /\ ~SkipRow(w, r, src) /\ ~BotMissing(w, r, src)
  PROVE  /\ wk[w].row \in Rows /\ UNCHANGED sess
         /\ \A r \in Rows \ {wk[w].row} : rows'[r] = rows[r] /\ delivered'[r] = delivered[r]
         /\ faults' = faults \/ faults' = faults + 1
<1>1. wk[w].row \in Rows
  BY DEF TypeOK, Works
<1>2. UNCHANGED rows => \A r \in Rows \ {wk[w].row} : rows'[r] = rows[r]
  OBVIOUS
<1>3. ASSUME NEW row, rows' = [rows EXCEPT ![wk[w].row] = row]
      PROVE  \A r \in Rows \ {wk[w].row} : rows'[r] = rows[r]
  BY <1>1, <1>3 DEF TypeOK
<1>4. ASSUME NEW n, TakenBy(wk[w].row, n)
      PROVE  \A r \in Rows \ {wk[w].row} : delivered'[r] = delivered[r]
  BY <1>1, <1>4 DEF TakenBy, TypeOK
<1>5. ASSUME NEW outcome, NEW new, FinishRow(w, outcome, new)
      PROVE  \A r \in Rows \ {wk[w].row} : rows'[r] = rows[r]
  BY <1>3, <1>5 DEF FinishRow
<1>6. CASE TelegramTransient(w)
  BY <1>1, <1>4, <1>5, <1>6 DEF TelegramTransient, Unheard, Fault
<1>7. CASE TelegramPermanent(w)
  BY <1>1, <1>5, <1>7 DEF TelegramPermanent
<1>8. CASE TelegramAccepts(w)
  BY <1>1, <1>4, <1>8 DEF TelegramAccepts, Accepted, Fault
<1>9. CASE CompleteSuccess(w)
  BY <1>1, <1>3, <1>9 DEF CompleteSuccess
<1>10. CASE Notified(w)
  BY <1>1, <1>10 DEF Notified
<1>11. CASE DeferLocally(w)
  BY <1>1, <1>4, <1>5, <1>11 DEF DeferLocally, Fault
<1>12. CASE CancelledWhileNotifying(w)
  BY <1>1, <1>3, <1>12 DEF CancelledWhileNotifying, Fault
<1>13. CASE CancelledWhileSending(w)
  BY <1>1, <1>4, <1>13 DEF CancelledWhileSending, Fault
<1>14. CASE FinishFails(w) \/ WorkerDies(w)
  BY <1>1, <1>14 DEF FinishFails, WorkerDies, Fault
<1>15. ~StartDueRun(w) /\ ~CommitStaleRelease(w) /\ ~EndDueRun(w)
  BY DEF Works, StartDueRun, CommitStaleRelease, EndDueRun
<1> QED BY <1>6, <1>7, <1>8, <1>9, <1>10, <1>11, <1>12, <1>13, <1>14, <1>15 DEF RunStep, RunFault

LEMMA OwnRuns ==
  ASSUME QueueInv, TypeOK', CountsKept, NEW w \in Workers, RunStep(w) \/ RunFault(w)
  PROVE  OwnInv'
<1>1. TypeOK /\ OwnInv /\ wk[w] \in Run /\ faults \in Nat
  BY DEF QueueInv, TypeOK
<1>2. CASE Works(wk[w])
  <2>1. /\ wk[w].row \in Rows /\ UNCHANGED sess
        /\ \A r \in Rows \ {wk[w].row} : rows'[r] = rows[r] /\ delivered'[r] = delivered[r]
        /\ faults' >= faults
    BY <1>1, <1>2, WorkTouches DEF Works, AcquireLease, SkipRow, BotMissing, Takes
  <2>2. CASE EndRow(w) \/ EndRun(w)
    BY <1>2, <2>1, <2>2, RunDoneOwn
  <2>3. CASE TelegramAccepts(w) \/ CompleteSuccess(w) \/ WorkerDies(w)
    <3> DEFINE new == MarkSucceeded(wk[w].snap)
               accepted == [wk[w] EXCEPT !.pc = "accepted"]
               notifying == [wk[w] EXCEPT !.pc = "notifying", !.snap = new]
    <3>1. /\ accepted.todo = wk[w].todo /\ accepted.stale = wk[w].stale
          /\ notifying.todo = wk[w].todo /\ notifying.stale = wk[w].stale
          /\ IdleWorker.todo = {} /\ IdleWorker.stale = {}
      BY <1>1 DEF Run, IdleWorker
    <3>2. /\ tasks' \subseteq tasks
          /\ \/ wk' = [wk EXCEPT ![w] = accepted]
             \/ wk' = [wk EXCEPT ![w] = notifying]
             \/ wk' = [wk EXCEPT ![w] = IdleWorker]
      BY <1>1, <2>3 DEF TelegramAccepts, CompleteSuccess, WorkerDies, TypeOK
    <3> HIDE DEF accepted, notifying
    <3> QED BY <1>2, <2>1, <3>1, <3>2, WorkOwn
  <2>4. \/ EndRow(w) \/ EndRun(w)
        \/ TelegramAccepts(w) \/ CompleteSuccess(w) \/ WorkerDies(w)
    BY <1>2 DEF RunStep, RunFault, StartDueRun, CommitStaleRelease, EndDueRun, AcquireLease, SkipRow,
                BotMissing, Takes, Works, TelegramTransient, TelegramPermanent, FinishRow,
                Notified, DeferLocally, CancelledWhileNotifying, CancelledWhileSending, FinishFails
  <2> QED BY <2>2, <2>3, <2>4
<1>3. CASE StartDueRun(w)
  <2> DEFINE run == [IdleWorker EXCEPT !.pc = "releasing", !.stale = StaleLocks({"stale"})]
  <2>1. /\ wk' = [wk EXCEPT ![w] = run] /\ UNCHANGED <<rows, tasks, sess, delivered, faults>>
        /\ run.todo = {} /\ run.stale = StaleLocks({"stale"})
    BY <1>3 DEF StartDueRun, IdleWorker
  <2>2. \A r \in StaleLocks({"stale"}) : ~Own(r) /\ Present(r)
    BY <1>1, OwnStatus DEF StaleLocks, Present
  <2> HIDE DEF run
  <2>3. /\ \A r \in run.todo \cup run.stale : Named(r) \/ (~Own(r) /\ Present(r))
        /\ faults' >= faults /\ tasks' \subseteq tasks
    BY <1>1, <2>1, <2>2
  <2> QED BY <2>1, <2>3, RunOwn
<1>4. CASE CommitStaleRelease(w)
  <2> DEFINE run == [IdleWorker EXCEPT !.pc = "looping", !.todo = ReadyRows']
  <2>1. /\ wk' = [wk EXCEPT ![w] = run] /\ UNCHANGED <<tasks, sess, delivered, faults>>
        /\ rows' = Released(wk[w].stale)
        /\ run.todo = ReadyRows' /\ run.stale = {}
    BY <1>4 DEF CommitStaleRelease, IdleWorker
  <2> HIDE DEF run
  <2>2. \A r \in wk[w].stale : Named(r)
    BY DEF Named
  <2>3. ASSUME NEW r \in Rows, Own(r)
        PROVE  rows'[r] = rows[r]
    <3>1. r \notin wk[w].stale
      BY <1>1, <2>2, <2>3 DEF OwnInv, OwnUnnamed
    <3> QED BY <2>1, <3>1 DEF Released
  <2>4. ASSUME NEW r \in run.todo
        PROVE  Named(r) \/ (~Own(r) /\ Present(r))
    <3>1. r \in Rows /\ rows'[r].status \in Ready
      BY <2>1, <2>4 DEF ReadyRows
    <3>2. CASE r \in wk[w].stale
      BY <2>2, <3>2
    <3>3. CASE r \notin wk[w].stale
      <4>1. rows'[r] = rows[r]
        BY <2>1, <3>1, <3>3 DEF Released
      <4> QED BY <1>1, <3>1, <4>1, OwnStatus DEF Ready, Present
    <3> QED BY <3>2, <3>3
  <2>5. /\ \A r \in run.todo \cup run.stale : Named(r) \/ (~Own(r) /\ Present(r))
        /\ faults' >= faults /\ tasks' \subseteq tasks
    BY <1>1, <2>1, <2>4
  <2> QED BY <2>1, <2>3, <2>5, RunOwn
<1>5. ASSUME NEW run, wk' = [wk EXCEPT ![w] = run], tasks' \subseteq tasks,
             run.todo \subseteq wk[w].todo, run.stale \subseteq wk[w].stale,
             UNCHANGED <<rows, sess, delivered>>, faults' >= faults
      PROVE  OwnInv'
  <2>1. \A r \in run.todo \cup run.stale : Named(r)
    BY <1>5 DEF Named
  <2> QED BY <1>5, <2>1, RunOwn
<1>6. IdleWorker.todo = {} /\ IdleWorker.stale = {}
  BY DEF IdleWorker
<1>7. CASE ~Works(wk[w]) /\ (EndDueRun(w) \/ WorkerDies(w))
  <2>1. /\ wk' = [wk EXCEPT ![w] = IdleWorker] /\ UNCHANGED <<rows, tasks, sess, delivered>>
        /\ faults' >= faults
    BY <1>1, <1>7 DEF EndDueRun, WorkerDies, Fault
  <2> QED BY <1>5, <1>6, <2>1
<1>8. ASSUME NEW r \in Rows, NEW src \in {"task", "due"}, BotMissing(w, r, src)
      PROVE  OwnInv'
  <2>1. /\ wk' = [wk EXCEPT ![w] = IdleWorker] /\ UNCHANGED <<rows, sess, delivered, faults>>
        /\ tasks' \subseteq tasks /\ faults' >= faults
    BY <1>1, <1>8 DEF BotMissing
  <2>2. IdleWorker.todo \subseteq wk[w].todo /\ IdleWorker.stale \subseteq wk[w].stale
    BY <1>6
  <2> QED BY <1>5, <2>1, <2>2
<1>9. ASSUME NEW r \in Rows, NEW src \in {"task", "due"}, SkipRow(w, r, src)
      PROVE  OwnInv'
  <2> DEFINE run == [wk[w] EXCEPT !.todo = @ \ {r}]
  <2>1. /\ wk' = [wk EXCEPT ![w] = wk[w]] \/ wk' = [wk EXCEPT ![w] = run]
        /\ UNCHANGED <<rows, sess, delivered, faults>>
        /\ tasks' \subseteq tasks
    BY <1>1, <1>9 DEF SkipRow, TypeOK
  <2>2. run.todo \subseteq wk[w].todo /\ run.stale = wk[w].stale
    BY <1>1 DEF Run
  <2> HIDE DEF run
  <2> QED BY <1>1, <1>5, <2>1, <2>2
<1>10. ASSUME NEW r \in Rows, NEW src \in {"task", "due"}, AcquireLease(w, r, src)
       PROVE  OwnInv'
  BY <1>10, OwnLeased
<1> QED BY <1>2, <1>3, <1>4, <1>7, <1>8, <1>9, <1>10
        DEF RunStep, RunFault, TelegramTransient, TelegramPermanent, TelegramAccepts, CompleteSuccess,
            Notified, DeferLocally, CancelledWhileNotifying, CancelledWhileSending, FinishFails,
            InFlight, Works

LEMMA OwnInvStep == QueueInv /\ [Next]_vars => OwnInv'
<1> SUFFICES ASSUME QueueInv, [Next]_vars PROVE OwnInv'
  OBVIOUS
<1>1. TypeOK' /\ TypeOK /\ OwnInv /\ AbsentUncounted
  BY TypeStep DEF QueueInv, NumberingInv
<1>2. CASE \E w \in Workers, r \in Rows, src \in {"task", "due"} : AcquireLease(w, r, src)
  BY <1>1, <1>2, OwnLeased
<1>3. CASE CountsKept
  <2>1. ASSUME NEW s \in Sessions, Request(s) \/ SessionStep(s) \/ SessionDies(s) \/ RipenHeld(s)
        PROVE  OwnInv'
    BY <1>1, <1>3, <2>1, OwnCreated, OwnTaken, OwnRequests, OwnSessionSteps, OwnSendEnds
       DEF Request, SessionStep
  <2>2. ASSUME NEW w \in Workers, RunStep(w) \/ RunFault(w)
        PROVE  OwnInv'
    BY <1>1, <1>3, <2>2, OwnRuns
  <2>3. ASSUME UNCHANGED <<wk, sess, tasks, delivered, faults>>,
               \A r \in Rows : rows'[r].status = rows[r].status
        PROVE  OwnInv'
    <3>1. \A r : Named(r)' <=> Named(r)
      BY <2>3 DEF Named
    <3>2. \A r \in Rows : Own(r)' <=> Own(r)
      BY <1>3, <2>3 DEF Own, Itself, CountsKept
    <3>3. \A r \in Rows : Present(r)' <=> Present(r)
      BY <2>3 DEF Present
    <3>4. RowsKnown'
      <4>1. \A s \in Sessions : Busy(sess[s]) => sess[s].row \in Rows
        BY <1>1 DEF TypeOK, Busy
      <4> QED BY <1>1, <2>3, <3>1, <3>3, <4>1 DEF OwnInv, RowsKnown, Busy, Present
    <3>5. OwnUnnamed'
      BY <1>1, <3>1, <3>2 DEF OwnInv, OwnUnnamed
    <3>6. SendsItself' /\ OwnEnds'
      BY <1>1, <1>3, <2>3 DEF OwnInv, SendsItself, OwnEnds, Itself, CountsKept
    <3> QED BY <3>4, <3>5, <3>6 DEF OwnInv
  <2>4. ASSUME NEW r \in Rows, LeaseAges(r) \/ Ripen(r) \/ DeactivateBot(r)
        PROVE  OwnInv'
    <3>1. \A q \in Rows : rows'[q].status = rows[q].status
      <4>1. CASE DeactivateBot(r)
        BY <4>1 DEF DeactivateBot
      <4>2. CASE LeaseAges(r) \/ Ripen(r)
        <5>1. \E row : /\ rows' = [rows EXCEPT ![r] = row]
                       /\ row.status = rows[r].status
          BY <1>1, <4>2 DEF LeaseAges, Ripen, TypeOK, Row
        <5> QED BY <1>1, <5>1 DEF TypeOK
      <4> QED BY <2>4, <4>1, <4>2
    <3> QED BY <2>3, <2>4, <3>1 DEF LeaseAges, Ripen, DeactivateBot
  <2>5. CASE UNCHANGED vars
    BY <2>3, <2>5 DEF vars
  <2> QED BY <2>1, <2>2, <2>4, <2>5 DEF Next
<1> QED BY <1>1, <1>2, <1>3, CountsStep

-----------------------------------------------------------------------------
(* The journal.                                                            *)

\* A row that has been leased: its journal, its runs and its deliveries agree up to faults.
AccountInv ==
  \A r \in Rows : rows[r].attempt_count > 0 =>
    /\ Cardinality(AttemptsTaken(r)) <= delivered[r]
    /\ delivered[r] <= Cardinality(AttemptsTaken(r)) + faults

\* The successes a journal tells of, and those in hand.
Told(entries) ==
  {entries[i].attempt : i \in {j \in DOMAIN entries : entries[j].outcome = "succeeded"}}
Holding(r) == {Attempt(w) : w \in {v \in Workers : wk[v].pc = "accepted" /\ wk[v].row = r}}

LEMMA TakenParts == \A r : AttemptsTaken(r) = Told(log[r]) \cup Holding(r)
BY DEF AttemptsTaken, Told, Holding

LEMMA ToldMore ==
  ASSUME NEW S, NEW entries \in Seq(S), NEW entry
  PROVE  Told(Append(entries, entry)) =
           IF entry.outcome = "succeeded" THEN Told(entries) \cup {entry.attempt} ELSE Told(entries)
<1> DEFINE more == Append(entries, entry)
<1>1. /\ DOMAIN entries = 1 .. Len(entries) /\ Len(entries) \in Nat
      /\ DOMAIN more = 1 .. (Len(entries) + 1)
      /\ more[Len(entries) + 1] = entry
      /\ \A i \in 1 .. Len(entries) : more[i] = entries[i]
  OBVIOUS
<1> HIDE DEF more
<1>2. \A i \in DOMAIN more : i \in DOMAIN entries \/ i = Len(entries) + 1
  BY <1>1
<1>3. DOMAIN entries \subseteq DOMAIN more /\ Len(entries) + 1 \in DOMAIN more
  BY <1>1
<1>4. \A n : n \in Told(more) <=>
              n \in Told(entries) \/ (entry.outcome = "succeeded" /\ n = entry.attempt)
  BY <1>1, <1>2, <1>3 DEF Told
<1>5. Told(more) = IF entry.outcome = "succeeded" THEN Told(entries) \cup {entry.attempt}
                   ELSE Told(entries)
  BY <1>4
<1> QED BY <1>5 DEF more

\* Attempts Telegram accepted are numbers given out, so there are finitely many.
LEMMA TakenFinite ==
  ASSUME TypeOK, NumbersGiven, NumbersStart, NEW r \in Rows
  PROVE  /\ AttemptsTaken(r) \subseteq 1 .. rows[r].attempt_count
         /\ IsFiniteSet(AttemptsTaken(r)) /\ Cardinality(AttemptsTaken(r)) \in Nat
         /\ rows[r].attempt_count = 0 => AttemptsTaken(r) = {} /\ Cardinality(AttemptsTaken(r)) = 0
<1>1. rows[r].attempt_count \in Nat
  BY DEF TypeOK, Row
<1>2. \A i \in DOMAIN log[r] : log[r][i].attempt \in 1 .. rows[r].attempt_count
  <2>1. \A i \in DOMAIN log[r] : log[r][i] \in [attempt : Nat, outcome : Outcome]
    BY EntryType DEF TypeOK
  <2> QED BY <1>1, <2>1 DEF NumbersGiven, NumbersStart
<1>3. ASSUME NEW w \in Workers, wk[w].pc = "accepted", wk[w].row = r
      PROVE  Attempt(w) \in 1 .. rows[r].attempt_count
  BY <1>1, <1>3 DEF NumbersGiven, NumbersStart, InFlight, TypeOK, Run, Row, Attempt
<1>4. AttemptsTaken(r) \subseteq 1 .. rows[r].attempt_count
  BY <1>2, <1>3 DEF AttemptsTaken
<1>5. IsFiniteSet(1 .. rows[r].attempt_count)
  BY <1>1, FS_Interval
<1>6. IsFiniteSet(AttemptsTaken(r))
  BY <1>4, <1>5, FS_Subset
<1>7. rows[r].attempt_count = 0 => AttemptsTaken(r) = {}
  BY <1>4
<1> QED BY <1>4, <1>6, <1>7, FS_CardinalityType, FS_EmptySet

\* A working run goes on with its row and its number; a row's deliveries grow by n, but for faults.
Runs ==
  \A w \in Workers : Works(wk'[w]) =>
    Works(wk[w]) /\ wk'[w].row = wk[w].row /\ Attempt(w)' = Attempt(w)
Delivers(r, n) ==
  /\ delivered'[r] >= delivered[r] + n
  /\ delivered'[r] + faults <= delivered[r] + n + faults'

LEMMA NumbersStartKept ==
  ASSUME TypeOK, NumbersStart, CountsKept, Runs,
         UNCHANGED log \/ \E w \in Workers : \E o : InFlight(w) /\ RecordAttempt(w, o)
  PROVE  NumbersStart'
<1>1. ASSUME NEW w \in Workers, Works(wk'[w])
      PROVE  rows'[wk'[w].row].attempt_count > 0 /\ Attempt(w)' > 0
  <2>1. Works(wk[w]) /\ wk'[w].row = wk[w].row /\ Attempt(w)' = Attempt(w)
    BY <1>1 DEF Runs
  <2>2. wk[w].row \in Rows
    BY <2>1 DEF TypeOK, Works
  <2> QED BY <2>1, <2>2 DEF NumbersStart, CountsKept, Works
<1>2. ASSUME NEW r \in Rows, NEW i \in DOMAIN log'[r]
      PROVE  log'[r][i].attempt > 0
  <2>1. CASE UNCHANGED log
    BY <1>2, <2>1 DEF NumbersStart
  <2>2. ASSUME NEW w \in Workers, NEW o, InFlight(w), RecordAttempt(w, o)
        PROVE  log'[r][i].attempt > 0
    <3> DEFINE entry == [attempt |-> Attempt(w), outcome |-> o]
    <3>1. wk[w].row \in Rows /\ entry.attempt > 0
      BY <2>2 DEF NumbersStart, TypeOK, InFlight
    <3>2. log' = [log EXCEPT ![wk[w].row] = Append(@, entry)]
      BY <2>2 DEF RecordAttempt
    <3> HIDE DEF entry
    <3>3. log'[r] = log[r] \/ log'[r] = Append(log[r], entry)
      BY <3>1, <3>2 DEF TypeOK
    <3>4. \A j \in DOMAIN log[r] : log[r][j].attempt > 0
      BY DEF NumbersStart
    <3>5. log[r] \in Seq([attempt : Nat, outcome : Outcome])
      BY DEF TypeOK
    <3>6. CASE log'[r] = log[r]
      BY <1>2, <3>4, <3>6
    <3>7. CASE log'[r] = Append(log[r], entry)
      <4>1. /\ i \in DOMAIN log[r] \/ i = Len(log[r]) + 1
            /\ i \in DOMAIN log[r] => log'[r][i] = log[r][i]
            /\ i = Len(log[r]) + 1 => log'[r][i] = entry
        BY <1>2, <3>5, <3>7
      <4> QED BY <3>1, <3>4, <4>1
    <3> QED BY <3>3, <3>6, <3>7
  <2> QED BY <1>2, <2>1, <2>2 DEF NumbersStart
<1> QED BY <1>1, <1>2 DEF NumbersStart, Works

\* Deliveries against the attempts accepted: as before, one more, or one lost to a fault.
LEMMA Balance ==
  ASSUME NEW S, NEW T, IsFiniteSet(S), NEW d \in Nat, NEW e \in Nat, NEW f \in Nat, NEW g \in Nat,
         Cardinality(S) <= d, d <= Cardinality(S) + f,
         \/ T = S /\ e >= d /\ e + f <= d + g
         \/ (\E n : n \notin S /\ T = S \cup {n}) /\ e >= d + 1 /\ e + f <= d + 1 + g
         \/ (\E n : T \subseteq S /\ S \subseteq T \cup {n}) /\ e = d /\ g = f + 1
  PROVE  Cardinality(T) <= e /\ e <= Cardinality(T) + g
<1>1. Cardinality(S) \in Nat
  BY FS_CardinalityType
<1>2. CASE T = S /\ e >= d /\ e + f <= d + g
  BY <1>1, <1>2
<1>3. CASE (\E n : n \notin S /\ T = S \cup {n}) /\ e >= d + 1 /\ e + f <= d + 1 + g
  <2>1. Cardinality(T) = Cardinality(S) + 1
    BY <1>3, FS_AddElement
  <2> QED BY <1>1, <1>3, <2>1
<1>4. CASE (\E n : T \subseteq S /\ S \subseteq T \cup {n}) /\ e = d /\ g = f + 1
  <2>1. PICK n : T \subseteq S /\ S \subseteq T \cup {n}
    BY <1>4
  <2>2. IsFiniteSet(T) /\ Cardinality(T) <= Cardinality(S)
    BY <2>1, FS_Subset
  <2>3. Cardinality(T) \in Nat
    BY <2>2, FS_CardinalityType
  <2>4. CASE n \in T
    <3>1. S = T
      BY <2>1, <2>4
    <3> QED BY <1>1, <1>4, <3>1
  <2>5. CASE n \notin T
    <3>1. IsFiniteSet(T \cup {n}) /\ Cardinality(T \cup {n}) = Cardinality(T) + 1
      BY <2>2, <2>5, FS_AddElement
    <3>2. Cardinality(S) <= Cardinality(T \cup {n})
      BY <2>1, <3>1, FS_Subset
    <3> QED BY <1>1, <1>4, <2>2, <2>3, <3>1, <3>2
  <2> QED BY <2>4, <2>5
<1> QED BY <1>2, <1>3, <1>4

\* What a step does to one row's account.
Balanced(r) ==
  \/ AttemptsTaken(r)' = AttemptsTaken(r) /\ Delivers(r, 0)
  \/ /\ \E n : n \notin AttemptsTaken(r) /\ AttemptsTaken(r)' = AttemptsTaken(r) \cup {n}
     /\ Delivers(r, 1)
  \/ /\ \E n : /\ AttemptsTaken(r)' \subseteq AttemptsTaken(r)
               /\ AttemptsTaken(r) \subseteq AttemptsTaken(r)' \cup {n}
     /\ delivered'[r] = delivered[r] /\ faults' = faults + 1

LEMMA AccountKept ==
  ASSUME TypeOK, TypeOK', NumbersGiven, NumbersStart, AccountInv, CountsKept,
         \A r \in Rows : rows[r].attempt_count > 0 => Balanced(r)
  PROVE  AccountInv'
<1> SUFFICES ASSUME NEW r \in Rows, rows'[r].attempt_count > 0
             PROVE  /\ Cardinality(AttemptsTaken(r)') <= delivered'[r]
                    /\ delivered'[r] <= Cardinality(AttemptsTaken(r)') + faults'
  BY DEF AccountInv, AttemptsTaken
<1>1. IsFiniteSet(AttemptsTaken(r)) /\ rows[r].attempt_count > 0
  BY TakenFinite DEF CountsKept
<1>2. /\ delivered[r] \in Nat /\ delivered'[r] \in Nat /\ faults \in Nat /\ faults' \in Nat
      /\ Cardinality(AttemptsTaken(r)) <= delivered[r]
      /\ delivered[r] <= Cardinality(AttemptsTaken(r)) + faults
  BY <1>1 DEF TypeOK, AccountInv
<1>3. Balanced(r)
  BY <1>1
<1>4. \/ AttemptsTaken(r)' = AttemptsTaken(r) /\ delivered'[r] >= delivered[r]
         /\ delivered'[r] + faults <= delivered[r] + faults'
      \/ /\ \E n : n \notin AttemptsTaken(r) /\ AttemptsTaken(r)' = AttemptsTaken(r) \cup {n}
         /\ delivered'[r] >= delivered[r] + 1
         /\ delivered'[r] + faults <= delivered[r] + 1 + faults'
      \/ /\ \E n : /\ AttemptsTaken(r)' \subseteq AttemptsTaken(r)
                   /\ AttemptsTaken(r) \subseteq AttemptsTaken(r)' \cup {n}
         /\ delivered'[r] = delivered[r] /\ faults' = faults + 1
  BY <1>2, <1>3 DEF Balanced, Delivers
<1> DEFINE S == AttemptsTaken(r)
           T == AttemptsTaken(r)'
<1> HIDE DEF S, T
<1>5. Cardinality(T) <= delivered'[r] /\ delivered'[r] <= Cardinality(T) + faults'
  BY <1>1, <1>2, <1>4, Balance DEF S, T
<1> QED BY <1>5 DEF T

\* The attempts accepted, apart from one run, and in that run's hand.
HeldElse(w, r) ==
  {Attempt(v) : v \in {u \in Workers \ {w} : wk[u].pc = "accepted" /\ wk[u].row = r}}
HandOf(run, r) ==
  IF run.pc = "accepted" /\ run.row = r THEN {run.snap.attempt_count} ELSE {}

LEMMA TakenOfRun ==
  ASSUME TypeOK, NEW w \in Workers, NEW run, wk' = [wk EXCEPT ![w] = run], NEW r \in Rows
  PROVE  /\ AttemptsTaken(r) = Told(log[r]) \cup HeldElse(w, r) \cup HandOf(wk[w], r)
         /\ AttemptsTaken(r)' = Told(log'[r]) \cup HeldElse(w, r) \cup HandOf(run, r)
<1>1. wk'[w] = run /\ \A v \in Workers \ {w} : wk'[v] = wk[v]
  BY DEF TypeOK
<1>2. Holding(r) = HeldElse(w, r) \cup HandOf(wk[w], r)
  BY DEF Holding, HeldElse, HandOf, Attempt
<1>3. Holding(r)' = HeldElse(w, r) \cup HandOf(run, r)
  <2>1. \A n : n \in Holding(r)' <=> n \in HeldElse(w, r) \/ n \in HandOf(run, r)
    BY <1>1 DEF Holding, HeldElse, HandOf, Attempt
  <2> QED BY <2>1
<1>4. AttemptsTaken(r)' = Told(log'[r]) \cup Holding(r)'
  BY DEF AttemptsTaken, Told, Holding
<1> QED BY <1>2, <1>3, <1>4, TakenParts

LEMMA ToldRecords ==
  ASSUME TypeOK, NEW w \in Workers, wk[w].row \in Rows, NEW outcome, RecordAttempt(w, outcome),
         NEW r \in Rows
  PROVE  Told(log'[r]) = IF outcome = "succeeded" /\ r = wk[w].row
                         THEN Told(log[r]) \cup {Attempt(w)} ELSE Told(log[r])
<1> DEFINE entry == [attempt |-> Attempt(w), outcome |-> outcome]
<1>1. log' = [log EXCEPT ![wk[w].row] = Append(@, entry)]
  BY DEF RecordAttempt
<1>2. entry.attempt = Attempt(w) /\ entry.outcome = outcome
  OBVIOUS
<1>3. log[r] \in Seq([attempt : Nat, outcome : Outcome])
  BY DEF TypeOK
<1> HIDE DEF entry
<1>4. log'[r] = IF r = wk[w].row THEN Append(log[r], entry) ELSE log[r]
  BY <1>1 DEF TypeOK
<1> QED BY <1>2, <1>3, <1>4, ToldMore

\* What the calls and the faults do to the deliveries.
LEMMA CallsDeliver ==
  ASSUME TypeOK, NEW q \in Rows
  PROVE  /\ Accepted(q) => \A r \in Rows : Delivers(r, IF r = q THEN 1 ELSE 0)
         /\ Unheard(q) => \A r \in Rows : Delivers(r, 0)
         /\ (UNCHANGED delivered \/ TakenBy(q, 1)) /\ Fault => \A r \in Rows : Delivers(r, 0)
         /\ UNCHANGED delivered /\ (UNCHANGED faults \/ Fault) => \A r \in Rows : Delivers(r, 0)
<1>1. faults \in Nat /\ \A r \in Rows : delivered[r] \in Nat
  BY DEF TypeOK
<1>2. UNCHANGED delivered /\ (UNCHANGED faults \/ Fault) => \A r \in Rows : Delivers(r, 0)
  BY <1>1 DEF Delivers, Fault
<1>3. \A n : TakenBy(q, n) =>
        \A r \in Rows : delivered'[r] = IF r = q THEN delivered[r] + n ELSE delivered[r]
  BY DEF TakenBy, TypeOK
<1>4. TakenBy(q, 1) /\ Fault => \A r \in Rows : Delivers(r, 0)
  BY <1>1, <1>3 DEF Delivers, Fault
<1>5. TakenBy(q, 1) /\ UNCHANGED faults => \A r \in Rows : Delivers(r, IF r = q THEN 1 ELSE 0)
  BY <1>1, <1>3 DEF Delivers
<1>6. TakenBy(q, 2) /\ Fault => \A r \in Rows : Delivers(r, IF r = q THEN 1 ELSE 0)
  BY <1>1, <1>3 DEF Delivers, Fault
<1> QED BY <1>2, <1>4, <1>5, <1>6 DEF Accepted, Unheard

\* A run's step that leaves the successes as they are.
LEMMA RunBalanced ==
  ASSUME TypeOK, NEW w \in Workers, NEW run, wk' = [wk EXCEPT ![w] = run], NEW r \in Rows,
         Told(log'[r]) \cup HandOf(run, r) = Told(log[r]) \cup HandOf(wk[w], r), Delivers(r, 0)
  PROVE  Balanced(r)
<1>1. /\ AttemptsTaken(r) = Told(log[r]) \cup HandOf(wk[w], r) \cup HeldElse(w, r)
      /\ AttemptsTaken(r)' = Told(log'[r]) \cup HandOf(run, r) \cup HeldElse(w, r)
  <2>1. /\ AttemptsTaken(r) = Told(log[r]) \cup HeldElse(w, r) \cup HandOf(wk[w], r)
        /\ AttemptsTaken(r)' = Told(log'[r]) \cup HeldElse(w, r) \cup HandOf(run, r)
    BY TakenOfRun
  <2>2. \A A, B, C : A \cup B \cup C = A \cup C \cup B
    OBVIOUS
  <2> QED BY <2>1, <2>2
<1> QED BY <1>1 DEF Balanced

LEMMA RunsGoOn ==
  ASSUME TypeOK, NEW w \in Workers, NEW run, wk' = [wk EXCEPT ![w] = run],
         Works(run) => Works(wk[w]) /\ run.row = wk[w].row
                       /\ run.snap.attempt_count = wk[w].snap.attempt_count
  PROVE  Runs
<1>1. \A v \in Workers : wk'[v] = IF v = w THEN run ELSE wk[v]
  BY DEF TypeOK
<1> QED BY <1>1 DEF Runs, Attempt

\* The lease opens the account of a row that nobody delivers any more but workers.
LEMMA LeaseJournal ==
  ASSUME QueueInv, AccountInv, TypeOK', NEW w \in Workers, NEW q \in Rows,
         NEW src \in {"task", "due"}, AcquireLease(w, q, src)
  PROVE  NumbersStart' /\ AccountInv'
<1> DEFINE run == [pc |-> "leased", row |-> q, snap |-> Leased(rows[q]), src |-> src,
                   todo |-> wk[w].todo \ {q}, stale |-> {}]
<1>1. TypeOK /\ NumbersGiven /\ NumbersStart
  BY DEF QueueInv, NumberingInv
<1>2. /\ rows' = [rows EXCEPT ![q] = Leased(rows[q])] /\ wk' = [wk EXCEPT ![w] = run]
      /\ UNCHANGED <<log, delivered, faults>>
  BY DEF AcquireLease
<1>3. /\ Leased(rows[q]).attempt_count = rows[q].attempt_count + 1
      /\ rows[q].attempt_count \in Nat
  BY <1>1 DEF Leased, TypeOK, Row
<1>4. run.pc = "leased" /\ run.row = q /\ run.snap = Leased(rows[q])
  OBVIOUS
<1>5. wk[w].pc \in {"idle", "looping"}
  BY DEF AcquireLease, Takes
<1> HIDE DEF run
<1>6. \A r \in Rows : rows'[r].attempt_count =
                        IF r = q THEN rows[q].attempt_count + 1 ELSE rows[r].attempt_count
  BY <1>1, <1>2, <1>3 DEF TypeOK
<1>7. NumbersStart'
  <2>1. ASSUME NEW v \in Workers, Works(wk'[v])
        PROVE  rows'[wk'[v].row].attempt_count > 0 /\ Attempt(v)' > 0
    <3>1. CASE v = w
      <4>1. wk'[v] = run
        BY <1>1, <1>2, <3>1 DEF TypeOK
      <4> QED BY <1>3, <1>4, <1>6, <4>1 DEF Attempt
    <3>2. CASE v # w
      <4>1. wk'[v] = wk[v] /\ wk[v].row \in Rows /\ rows[wk[v].row].attempt_count \in Nat
        BY <1>1, <1>2, <2>1, <3>2 DEF TypeOK, Works, Row
      <4>2. rows[wk[v].row].attempt_count > 0 /\ Attempt(v) > 0
        BY <1>1, <2>1, <4>1 DEF NumbersStart, Works
      <4> QED BY <1>3, <1>6, <4>1, <4>2 DEF Attempt
    <3> QED BY <3>1, <3>2
  <2> QED BY <1>1, <1>2, <2>1 DEF NumbersStart, Works
<1>8. ASSUME NEW r \in Rows
      PROVE  AttemptsTaken(r)' = AttemptsTaken(r)
  <2>1. HandOf(run, r) = {} /\ HandOf(wk[w], r) = {}
    BY <1>4, <1>5 DEF HandOf
  <2>2. /\ AttemptsTaken(r) = Told(log[r]) \cup HeldElse(w, r) \cup HandOf(wk[w], r)
        /\ AttemptsTaken(r)' = Told(log'[r]) \cup HeldElse(w, r) \cup HandOf(run, r)
    BY <1>1, <1>2, TakenOfRun
  <2>3. Told(log'[r]) = Told(log[r])
    BY <1>2
  <2> QED BY <2>1, <2>2, <2>3
<1>9. AccountInv'
  <2> SUFFICES ASSUME NEW r \in Rows, rows'[r].attempt_count > 0
               PROVE  /\ Cardinality(AttemptsTaken(r)) <= delivered[r]
                      /\ delivered[r] <= Cardinality(AttemptsTaken(r)) + faults
    BY <1>2, <1>8 DEF AccountInv
  <2>1. CASE rows[r].attempt_count > 0
    BY <2>1 DEF AccountInv
  <2>2. CASE rows[r].attempt_count = 0
    <3>1. Cardinality(AttemptsTaken(r)) = 0
      BY <1>1, <2>2, TakenFinite
    <3>2. r = q
      BY <1>6, <2>2
    <3>3. ~Own(r)
      BY <3>2, OwnLeased
    <3>4. delivered[r] \in Nat /\ faults \in Nat
      BY <1>1 DEF TypeOK
    <3> QED BY <2>2, <3>1, <3>3, <3>4 DEF Own
  <2>3. rows[r].attempt_count \in Nat
    BY <1>1 DEF TypeOK, Row
  <2> QED BY <2>1, <2>2, <2>3
<1> QED BY <1>7, <1>9

\* A run that works on a row: what it records, what it delivers, what it has in hand.
LEMMA WorkJournal ==
  ASSUME QueueInv, TypeOK', NEW w \in Workers, Works(wk[w]), RunStep(w) \/ RunFault(w)
  PROVE  /\ Runs /\ (UNCHANGED log \/ \E v \in Workers : \E o : InFlight(v) /\ RecordAttempt(v, o))
         /\ \A r \in Rows : Balanced(r)
<1> DEFINE q == wk[w].row
           n == Attempt(w)
<1>1. /\ TypeOK /\ NumberingInv /\ q \in Rows /\ wk[w] \in Run /\ wk[w].snap \in Row
      /\ n = wk[w].snap.attempt_count
  BY DEF QueueInv, TypeOK, Works, Attempt, Run
<1>2. \A r \in Rows : UNCHANGED log => Told(log'[r]) = Told(log[r])
  OBVIOUS
<1>3. ASSUME NEW o, o # "succeeded", RecordAttempt(w, o)
      PROVE  \A r \in Rows : Told(log'[r]) = Told(log[r])
  BY <1>1, <1>3, ToldRecords
<1>4. ASSUME NEW run, ~Works(run)
      PROVE  \A r \in Rows : HandOf(run, r) = {}
  BY <1>4 DEF HandOf, Works
<1>5. ASSUME wk[w].pc # "accepted"
      PROVE  \A r \in Rows : HandOf(wk[w], r) = {}
  BY <1>5 DEF HandOf
<1>6. ASSUME NEW run, wk' = [wk EXCEPT ![w] = run], ~Works(run)
      PROVE  Runs
  BY <1>1, <1>6, RunsGoOn
<1>7. EndRow(w) \/ EndRun(w) \/ WorkerDies(w) =>
        \E run : wk' = [wk EXCEPT ![w] = run] /\ ~Works(run)
  <2>1. ~Works(IdleWorker)
    BY DEF Works, IdleWorker
  <2> QED BY <1>1, <2>1, RunDone DEF WorkerDies
<1>8. ASSUME wk[w].pc # "accepted", EndRow(w) \/ EndRun(w) \/ WorkerDies(w),
             \A r \in Rows : Told(log'[r]) = Told(log[r]) /\ Delivers(r, 0)
      PROVE  Runs /\ \A r \in Rows : Balanced(r)
  <2>1. PICK run : wk' = [wk EXCEPT ![w] = run] /\ ~Works(run)
    BY <1>7, <1>8
  <2>2. \A r \in Rows : Told(log'[r]) \cup HandOf(run, r) = Told(log[r]) \cup HandOf(wk[w], r)
    BY <1>4, <1>5, <1>8, <2>1
  <2> QED BY <1>1, <1>6, <1>8, <2>1, <2>2, RunBalanced
<1>9. CASE TelegramTransient(w) \/ TelegramPermanent(w) \/ DeferLocally(w) \/ CancelledWhileSending(w)
  <2>1. PICK o : /\ RecordAttempt(w, o) /\ (EndRow(w) \/ EndRun(w))
                 /\ o \in {"dead_letter", "deferred", "blocked", "interrupted"}
    BY <1>9 DEF TelegramTransient, TelegramPermanent, DeferLocally, CancelledWhileSending, FinishRow
  <2>2. wk[w].pc = "leased"
    BY <1>9 DEF TelegramTransient, TelegramPermanent, DeferLocally, CancelledWhileSending
  <2>3. \/ Unheard(q) \/ (UNCHANGED delivered /\ UNCHANGED faults)
        \/ (UNCHANGED delivered \/ TakenBy(q, 1)) /\ Fault
    BY <1>9 DEF TelegramTransient, TelegramPermanent, DeferLocally, CancelledWhileSending
  <2>4. \A r \in Rows : Delivers(r, 0)
    BY <1>1, <2>3, CallsDeliver
  <2>5. \A r \in Rows : Told(log'[r]) = Told(log[r])
    BY <1>3, <2>1
  <2> QED BY <1>8, <2>1, <2>2, <2>4, <2>5 DEF InFlight
<1>10. CASE Notified(w) \/ CancelledWhileNotifying(w)
  <2>1. wk[w].pc = "notifying" /\ UNCHANGED log /\ (EndRow(w) \/ EndRun(w))
    BY <1>1, <1>10 DEF Notified, CancelledWhileNotifying, RecordSuccessOnce, NumberingInv, SuccessLogged
  <2>2. UNCHANGED delivered /\ (UNCHANGED faults \/ Fault)
    BY <1>10 DEF Notified, CancelledWhileNotifying
  <2>3. \A r \in Rows : Delivers(r, 0)
    BY <1>1, <2>2, CallsDeliver
  <2> QED BY <1>2, <1>8, <2>1, <2>3
<1>11. CASE FinishFails(w) \/ WorkerDies(w)
  <2>1. UNCHANGED <<log, delivered>> /\ Fault /\ (EndRun(w) \/ WorkerDies(w))
    BY <1>11 DEF FinishFails, WorkerDies
  <2>2. CASE wk[w].pc # "accepted"
    <3>1. \A r \in Rows : Delivers(r, 0)
      BY <1>1, <2>1, CallsDeliver
    <3> QED BY <1>2, <1>8, <2>1, <2>2, <3>1
  <2>3. CASE wk[w].pc = "accepted"
    <3>1. PICK run : wk' = [wk EXCEPT ![w] = run] /\ ~Works(run)
      BY <1>7, <2>1
    <3>2. ASSUME NEW r \in Rows
          PROVE  Balanced(r)
      <4>1. /\ AttemptsTaken(r) = Told(log[r]) \cup HeldElse(w, r) \cup HandOf(wk[w], r)
            /\ AttemptsTaken(r)' = Told(log'[r]) \cup HeldElse(w, r) \cup HandOf(run, r)
        <5>1. TypeOK /\ wk' = [wk EXCEPT ![w] = run]
          BY <1>1, <3>1
        <5> QED BY <5>1, TakenOfRun
      <4>2. HandOf(run, r) = {} /\ HandOf(wk[w], r) \subseteq {n} /\ Told(log'[r]) = Told(log[r])
        BY <1>1, <1>4, <2>1, <3>1 DEF HandOf
      <4>3. /\ AttemptsTaken(r)' \subseteq AttemptsTaken(r)
            /\ AttemptsTaken(r) \subseteq AttemptsTaken(r)' \cup {n}
        BY <4>1, <4>2
      <4>4. delivered'[r] = delivered[r] /\ faults' = faults + 1
        BY <2>1 DEF Fault
      <4> QED BY <4>3, <4>4 DEF Balanced
    <3> QED BY <1>6, <2>1, <3>1, <3>2
  <2> QED BY <2>2, <2>3
<1>12. CASE TelegramAccepts(w)
  <2> DEFINE run == [wk[w] EXCEPT !.pc = "accepted"]
  <2>1. /\ wk[w].pc = "leased" /\ wk' = [wk EXCEPT ![w] = run] /\ UNCHANGED log /\ Accepted(q)
    BY <1>1, <1>12 DEF TelegramAccepts, TypeOK
  <2>2. run.pc = "accepted" /\ run.row = q /\ run.snap = wk[w].snap
    BY <1>1 DEF Run
  <2> HIDE DEF run
  <2>3. Runs
    BY <1>1, <2>1, <2>2, RunsGoOn DEF Works
  <2>4. ASSUME NEW r \in Rows
        PROVE  Balanced(r)
    <3>1. /\ AttemptsTaken(r) = Told(log[r]) \cup HeldElse(w, r) \cup HandOf(wk[w], r)
          /\ AttemptsTaken(r)' = Told(log'[r]) \cup HeldElse(w, r) \cup HandOf(run, r)
      BY <1>1, <2>1, TakenOfRun
    <3>2. Told(log'[r]) = Told(log[r]) /\ HandOf(wk[w], r) = {}
      BY <1>5, <2>1
    <3>3. Delivers(r, IF r = q THEN 1 ELSE 0)
      BY <1>1, <2>1, CallsDeliver
    <3>4. CASE r # q
      <4>1. HandOf(run, r) = {}
        BY <2>2, <3>4 DEF HandOf
      <4> QED BY <3>1, <3>2, <3>3, <3>4, <4>1 DEF Balanced
    <3>5. CASE r = q
      <4>1. HandOf(run, r) = {n}
        BY <1>1, <2>2, <3>5 DEF HandOf
      <4>2. n \notin Told(log[r])
        BY <1>1, <2>1, <3>5 DEF NumberingInv, NumbersUnused, InFlight, Told
      <4>3. n \notin HeldElse(w, r)
        BY <1>1, <2>1, <3>5 DEF NumberingInv, AttemptsDistinct, InFlight, HeldElse
      <4>4. n \notin AttemptsTaken(r) /\ AttemptsTaken(r)' = AttemptsTaken(r) \cup {n}
        BY <3>1, <3>2, <4>1, <4>2, <4>3
      <4> QED BY <3>3, <3>5, <4>4 DEF Balanced
    <3> QED BY <3>4, <3>5
  <2> QED BY <2>1, <2>3, <2>4
<1>13. CASE CompleteSuccess(w)
  <2> DEFINE new == MarkSucceeded(wk[w].snap)
             run == [wk[w] EXCEPT !.pc = "notifying", !.snap = new]
  <2>1. /\ wk[w].pc = "accepted" /\ wk' = [wk EXCEPT ![w] = run] /\ RecordSuccessOnce(w)
        /\ UNCHANGED <<delivered, faults>>
    BY <1>1, <1>13 DEF CompleteSuccess, TypeOK
  <2>2. new.attempt_count = n
    BY <1>1, MarksKeepCount
  <2> HIDE DEF new
  <2>3. run.pc = "notifying" /\ run.row = q /\ run.snap = new
    BY <1>1 DEF Run
  <2> HIDE DEF run
  <2>4. RecordAttempt(w, "succeeded")
    <3>1. \A i \in DOMAIN log[wk[w].row] : log[wk[w].row][i].attempt # Attempt(w)
      BY <1>1, <2>1 DEF NumberingInv, NumbersUnused, InFlight
    <3> QED BY <2>1, <3>1 DEF RecordSuccessOnce
  <2>5. Runs
    BY <1>1, <2>1, <2>2, <2>3, RunsGoOn DEF Works
  <2>6. ASSUME NEW r \in Rows
        PROVE  Balanced(r)
    <3>1. Delivers(r, 0)
      BY <1>1, <2>1, CallsDeliver
    <3>2. /\ HandOf(run, r) = {}
          /\ HandOf(wk[w], r) = IF r = q THEN {n} ELSE {}
      BY <1>1, <2>1, <2>3 DEF HandOf
    <3>3. Told(log'[r]) = IF r = q THEN Told(log[r]) \cup {n} ELSE Told(log[r])
      BY <1>1, <2>4, ToldRecords
    <3>4. Told(log'[r]) \cup HandOf(run, r) = Told(log[r]) \cup HandOf(wk[w], r)
      BY <3>2, <3>3
    <3> QED BY <1>1, <2>1, <3>1, <3>4, RunBalanced
  <2> QED BY <2>1, <2>4, <2>5, <2>6 DEF InFlight
<1>14. \/ TelegramTransient(w) \/ TelegramPermanent(w) \/ DeferLocally(w) \/ CancelledWhileSending(w)
       \/ Notified(w) \/ CancelledWhileNotifying(w) \/ FinishFails(w) \/ WorkerDies(w)
       \/ TelegramAccepts(w) \/ CompleteSuccess(w)
  BY DEF RunStep, RunFault, StartDueRun, CommitStaleRelease, EndDueRun, AcquireLease, SkipRow,
         BotMissing, Takes, Works
<1> QED BY <1>9, <1>10, <1>11, <1>12, <1>13, <1>14

LEMMA JournalStep == QueueInv /\ AccountInv /\ [Next]_vars => NumbersStart' /\ AccountInv'
<1> SUFFICES ASSUME QueueInv, AccountInv, [Next]_vars PROVE NumbersStart' /\ AccountInv'
  OBVIOUS
<1>1. TypeOK' /\ TypeOK /\ NumbersGiven /\ AbsentUncounted /\ NumbersStart /\ OwnInv
  BY TypeStep DEF QueueInv, NumberingInv
<1>2. CASE \E w \in Workers, r \in Rows, src \in {"task", "due"} : AcquireLease(w, r, src)
  BY <1>1, <1>2, LeaseJournal
<1>3. CASE CountsKept
  <2>1. SUFFICES /\ Runs
                 /\ UNCHANGED log \/ \E w \in Workers : \E o : InFlight(w) /\ RecordAttempt(w, o)
                 /\ \A r \in Rows : rows[r].attempt_count > 0 => Balanced(r)
    BY <1>1, <1>3, NumbersStartKept, AccountKept
  <2>2. ASSUME UNCHANGED <<wk, log>>,
               \A r \in Rows : rows[r].attempt_count > 0 => Delivers(r, 0)
        PROVE  /\ Runs /\ UNCHANGED log
               /\ \A r \in Rows : rows[r].attempt_count > 0 => Balanced(r)
    BY <2>2 DEF Runs, Attempt, Balanced, AttemptsTaken
  <2>3. UNCHANGED delivered /\ (UNCHANGED faults \/ Fault) => \A r \in Rows : Delivers(r, 0)
    BY <1>1, CallsDeliver
  <2>4. ASSUME NEW s \in Sessions, SyncAccepted(s) \/ SyncRefused(s)
        PROVE  \A r \in Rows : rows[r].attempt_count > 0 => Delivers(r, 0)
    <3> DEFINE q == sess[s].row
    <3>1. q \in Rows /\ Itself(sess[s], q)
      BY <1>1, <2>4 DEF SyncAccepted, SyncRefused, TypeOK, Itself
    <3>2. rows[q].attempt_count = 0
      BY <1>1, <3>1 DEF OwnInv, SendsItself
    <3>3. Accepted(q) \/ Unheard(q)
      BY <2>4 DEF SyncAccepted, SyncRefused
    <3>4. \A r \in Rows : r # q => Delivers(r, 0)
      BY <1>1, <3>1, <3>3, CallsDeliver
    <3> QED BY <3>2, <3>4
  <2>5. ASSUME NEW s \in Sessions, Request(s) \/ SessionStep(s) \/ SessionDies(s) \/ RipenHeld(s)
        PROVE  /\ UNCHANGED <<wk, log>>
               /\ SyncAccepted(s) \/ SyncRefused(s) \/ (UNCHANGED delivered /\ (UNCHANGED faults \/ Fault))
    BY <2>5 DEF Request, CreateHistory, ReplayHistory, ReadForCancel, ReadForRetry,
                ReadForRelease, SessionStep, EnqueueTask, CommitTaskId, SyncAccepted,
                SyncRefused, SyncSucceeded, CommitCancel, CommitRetry, CommitRestore,
                CommitRelease, SessionDies, RipenHeld
  <2>6. CASE \E s \in Sessions : Request(s) \/ SessionStep(s) \/ SessionDies(s) \/ RipenHeld(s)
    BY <2>2, <2>3, <2>4, <2>5, <2>6
  <2>7. CASE \E r \in Rows : LeaseAges(r) \/ Ripen(r) \/ DeactivateBot(r)
    BY <2>2, <2>3, <2>7 DEF LeaseAges, Ripen, DeactivateBot
  <2>8. CASE UNCHANGED vars
    BY <2>2, <2>3, <2>8 DEF vars
  <2>9. ASSUME NEW w \in Workers, Works(wk[w]), RunStep(w) \/ RunFault(w)
        PROVE  /\ Runs
               /\ UNCHANGED log \/ \E v \in Workers : \E o : InFlight(v) /\ RecordAttempt(v, o)
               /\ \A r \in Rows : rows[r].attempt_count > 0 => Balanced(r)
    BY <1>1, <2>9, WorkJournal
  <2>10. ASSUME NEW w \in Workers, ~Works(wk[w]), RunStep(w) \/ RunFault(w)
         PROVE  /\ Runs /\ UNCHANGED log
                /\ \A r \in Rows : rows[r].attempt_count > 0 => Balanced(r)
    <3>1. \/ StartDueRun(w) \/ CommitStaleRelease(w) \/ EndDueRun(w) \/ WorkerDies(w)
          \/ \E r \in Rows, src \in {"task", "due"} :
               AcquireLease(w, r, src) \/ SkipRow(w, r, src) \/ BotMissing(w, r, src)
      BY <2>10 DEF RunStep, RunFault, TelegramTransient, TelegramPermanent, TelegramAccepts,
                   CompleteSuccess, Notified, DeferLocally, CancelledWhileNotifying,
                   CancelledWhileSending, FinishFails, InFlight, Works
    <3>2. ~\E r \in Rows, src \in {"task", "due"} : AcquireLease(w, r, src)
      <4>1. SUFFICES ASSUME NEW r \in Rows, rows' = [rows EXCEPT ![r] = Leased(rows[r])]
                     PROVE  FALSE
        BY DEF AcquireLease
      <4>2. rows[r].attempt_count \in Nat /\ rows'[r] = Leased(rows[r])
        BY <1>1, <4>1 DEF TypeOK, Row
      <4>3. Leased(rows[r]).attempt_count = rows[r].attempt_count + 1
        BY <1>1 DEF Leased, TypeOK, Row
      <4> QED BY <1>3, <4>2, <4>3 DEF CountsKept
    <3>3. UNCHANGED <<log, delivered>> /\ (UNCHANGED faults \/ Fault)
      BY <3>1, <3>2 DEF StartDueRun, CommitStaleRelease, EndDueRun, WorkerDies, SkipRow, BotMissing
    <3>4. \A r \in Rows : Delivers(r, 0) /\ Told(log'[r]) = Told(log[r])
      BY <2>3, <3>3
    <3>5. \E run : wk' = [wk EXCEPT ![w] = run] /\ run.pc \in {"idle", "releasing", "looping"}
      <4>1. CASE StartDueRun(w) \/ CommitStaleRelease(w) \/ EndDueRun(w) \/ WorkerDies(w)
        <5> DEFINE releasing == [IdleWorker EXCEPT !.pc = "releasing",
                                                   !.stale = StaleLocks({"stale"})]
                   looping == [IdleWorker EXCEPT !.pc = "looping", !.todo = ReadyRows']
        <5>1. releasing.pc = "releasing" /\ looping.pc = "looping" /\ IdleWorker.pc = "idle"
          BY DEF IdleWorker
        <5>2. \/ wk' = [wk EXCEPT ![w] = releasing] \/ wk' = [wk EXCEPT ![w] = looping]
              \/ wk' = [wk EXCEPT ![w] = IdleWorker]
          BY <4>1 DEF StartDueRun, CommitStaleRelease, EndDueRun, WorkerDies
        <5> HIDE DEF releasing, looping
        <5> QED BY <5>1, <5>2
      <4>2. CASE \E r \in Rows, src \in {"task", "due"} : SkipRow(w, r, src) \/ BotMissing(w, r, src)
        <5>1. PICK r \in Rows, src \in {"task", "due"} : SkipRow(w, r, src) \/ BotMissing(w, r, src)
          BY <4>2
        <5> DEFINE skipping == [wk[w] EXCEPT !.todo = @ \ {r}]
        <5>2. skipping.pc = wk[w].pc /\ wk[w].pc \in {"idle", "looping"} /\ IdleWorker.pc = "idle"
          BY <1>1, <5>1 DEF SkipRow, BotMissing, Takes, IdleWorker, TypeOK, Run
        <5>3. \/ wk' = [wk EXCEPT ![w] = wk[w]] \/ wk' = [wk EXCEPT ![w] = skipping]
              \/ wk' = [wk EXCEPT ![w] = IdleWorker]
          BY <1>1, <5>1 DEF SkipRow, BotMissing, TypeOK
        <5> HIDE DEF skipping
        <5> QED BY <5>2, <5>3
      <4> QED BY <3>1, <3>2, <4>1, <4>2
    <3>6. PICK run : wk' = [wk EXCEPT ![w] = run] /\ run.pc \in {"idle", "releasing", "looping"}
      BY <3>5
    <3>7. ~Works(run) /\ \A r \in Rows : HandOf(run, r) = {} /\ HandOf(wk[w], r) = {}
      BY <2>10, <3>6 DEF Works, HandOf
    <3>8. Runs
      BY <1>1, <3>6, <3>7, RunsGoOn
    <3>9. \A r \in Rows : Told(log'[r]) \cup HandOf(run, r) = Told(log[r]) \cup HandOf(wk[w], r)
      BY <3>4, <3>7
    <3> QED BY <1>1, <3>3, <3>4, <3>6, <3>8, <3>9, RunBalanced
  <2> QED BY <2>6, <2>7, <2>8, <2>9, <2>10 DEF Next
<1> QED BY <1>1, <1>2, <1>3, CountsStep

LEMMA JournalInit == Init => QueueInv /\ AccountInv
<1> SUFFICES ASSUME Init PROVE QueueInv /\ AccountInv
  OBVIOUS
<1>1. /\ \A r \in Rows : rows[r].status = "absent" /\ rows[r].attempt_count = 0
                         /\ delivered[r] = 0 /\ log[r] = <<>>
      /\ \A s \in Sessions : sess[s].op = "idle" /\ sess[s].stale = {}
      /\ \A w \in Workers : wk[w].pc = "idle" /\ wk[w].todo = {} /\ wk[w].stale = {}
      /\ tasks = {} /\ faults = 0
  BY DEF Init, AbsentRow, IdleSession, IdleWorker
<1>2. TypeOK /\ SnapsSound /\ NumberingInv
  BY InitSound DEF Init, NumberingInv, AttemptsDistinct, AbsentUncounted, NumbersGiven,
                   NumbersUnused, SuccessLogged, InFlight, IdleWorker, AbsentRow
<1>3. NumbersStart /\ AccountInv
  BY <1>1 DEF NumbersStart, AccountInv
<1>4. OwnInv
  BY <1>1 DEF OwnInv, RowsKnown, OwnUnnamed, SendsItself, OwnEnds, Named, Own, Itself, Busy, Reading
<1> QED BY <1>2, <1>3, <1>4 DEF QueueInv

(***************************************************************************)
(* In every environment the journal tells what Telegram took.  Besides the *)
(* numbering, two things must be kept: a row its request sends itself is   *)
(* named by no stream message, handler or run, so no worker leases it      *)
(* (OwnInv); and a step that makes Telegram take a message either gives    *)
(* the run an attempt number nobody used, or happens to such a row, or is  *)
(* paid for by a fault (AccountInv).                                       *)
(***************************************************************************)
THEOREM JournalIsTrue == Spec => []JournalTells
<1>1. QueueInv /\ AccountInv /\ [Next]_vars => QueueInv' /\ AccountInv'
  <2>1. QueueInv /\ AccountInv /\ [Next]_vars => TypeOK' /\ SnapsSound' /\ NumberingInv' /\ OwnInv'
    BY TypeStep, SnapsStep, NumberingStep, OwnInvStep DEF QueueInv
  <2> QED BY <2>1, JournalStep DEF QueueInv
<1>2. QueueInv /\ AccountInv => JournalTells
  <2> SUFFICES ASSUME QueueInv, AccountInv PROVE JournalTells
    OBVIOUS
  <2>1. TypeOK /\ NumbersGiven /\ NumbersStart /\ AttemptsDistinct /\ OwnEnds
    BY DEF QueueInv, NumberingInv, OwnInv
  <2>2. ASSUME NEW r \in Rows
        PROVE  /\ AttemptsTaken(r) \subseteq 1 .. rows[r].attempt_count
               /\ Cardinality(AttemptsTaken(r)) <= delivered[r]
               /\ delivered[r] <= Cardinality(AttemptsTaken(r))
                                    + (IF rows[r].attempt_count = 0 THEN 1 ELSE 0) + faults
    <3>1. /\ rows[r].attempt_count \in Nat /\ delivered[r] \in Nat /\ faults \in Nat
          /\ Cardinality(AttemptsTaken(r)) \in Nat
          /\ AttemptsTaken(r) \subseteq 1 .. rows[r].attempt_count
      BY <2>1, TakenFinite DEF TypeOK, Row
    <3>2. CASE rows[r].attempt_count = 0
      <4>1. Cardinality(AttemptsTaken(r)) = 0 /\ delivered[r] <= 1 + faults
        BY <2>1, <3>2, TakenFinite DEF OwnEnds
      <4> QED BY <3>1, <3>2, <4>1
    <3>3. CASE rows[r].attempt_count > 0
      BY <3>1, <3>3 DEF AccountInv
    <3> QED BY <3>1, <3>2, <3>3
  <2> QED BY <2>1, <2>2 DEF JournalTells, DeliveriesAccounted
<1> QED BY <1>1, <1>2, JournalInit, PTL DEF Spec

=============================================================================
