------------------------- MODULE SendQueueDelivery -------------------------
(***************************************************************************)
(* Proof that the database and Telegram agree, in the environments where a *)
(* row has one worker: duplicates have their faults, and the final status  *)
(* tells what Telegram took.                                               *)
(*                                                                         *)
(* What makes it inductive is where an acceptance beyond the faults may    *)
(* sit: with a sender that has been answered, or in a row that succeeded   *)
(* or was cancelled.  Nobody sends such a row again.                       *)
(*                                                                         *)
(* And proof that a row waits for the delay Telegram asked for, unless a   *)
(* retry request restores an old delay over it.                            *)
(***************************************************************************)
EXTENDS SendQueueExclusion

-----------------------------------------------------------------------------
(* The inductive invariant.                                                *)

\* A worker, or the request that created the row, is calling for it; has been answered.
Calling(r) ==
  \/ \E w \in Workers : wk[w].pc = "leased" /\ wk[w].row = r
  \/ \E s \in Sessions : sess[s].op = "sync" /\ sess[s].row = r
Taken(r) ==
  \/ \E w \in Workers : wk[w].pc = "accepted" /\ wk[w].row = r
  \/ \E s \in Sessions : sess[s].op = "synced" /\ sess[s].row = r

Final == {"succeeded", "cancelled"}
Spare(r) == ~Calling(r) /\ (Taken(r) \/ rows[r].status \in Final)

DeliveriesBounded ==
  \A r \in Rows : /\ delivered[r] <= 1 + faults
                  /\ ~Spare(r) => delivered[r] <= faults
SuccessesReal ==
  \A r \in Rows : Taken(r) \/ rows[r].status = "succeeded" => delivered[r] > 0

DeliveryInv == ExclusionInv /\ DeliveriesBounded /\ SuccessesReal

\* What a step does to a row: nothing that matters, it ends unsent, or it ends sent.
Kept(r) ==
  /\ delivered'[r] = delivered[r]
  /\ Spare(r) => Spare(r)'
  /\ Taken(r)' => Taken(r)
  /\ rows'[r].status = rows[r].status \/ rows'[r].status = "cancelled"
Unsent(r) ==
  /\ rows[r].status # "succeeded" /\ rows'[r].status # "succeeded"
  /\ ~Taken(r)' /\ delivered'[r] <= faults'
Sent(r) ==
  /\ rows[r].status # "succeeded"
  /\ Spare(r)' /\ 0 < delivered'[r] /\ delivered'[r] <= 1 + faults'
Accounted == \A r \in Rows : Kept(r) \/ Unsent(r) \/ Sent(r)

LEMMA AccountedStep ==
  ASSUME TypeOK, TypeOK', DeliveriesBounded, SuccessesReal, Accounted,
         faults' \in {faults, faults + 1}
  PROVE  DeliveriesBounded' /\ SuccessesReal'
<1> SUFFICES ASSUME NEW r \in Rows
             PROVE  /\ delivered'[r] <= 1 + faults'
                    /\ ~Spare(r)' => delivered'[r] <= faults'
                    /\ Taken(r)' \/ rows'[r].status = "succeeded" => delivered'[r] > 0
  BY DEF DeliveriesBounded, SuccessesReal
<1>1. /\ delivered[r] \in Nat /\ delivered'[r] \in Nat /\ faults \in Nat /\ faults' \in Nat
  BY DEF TypeOK
<1>2. CASE Kept(r)
  BY <1>1, <1>2 DEF Kept, DeliveriesBounded, SuccessesReal
<1>3. CASE Unsent(r)
  BY <1>1, <1>3 DEF Unsent
<1>4. CASE Sent(r)
  BY <1>1, <1>4 DEF Sent
<1> QED BY <1>2, <1>3, <1>4 DEF Accounted

-----------------------------------------------------------------------------
(* Who has a row in hand.                                                  *)

\* A step of one run, or of one handler, moves only the rows it has in hand.
LEMMA RunHands ==
  ASSUME TypeOK, NEW w \in Workers, NEW run, wk' = [wk EXCEPT ![w] = run], UNCHANGED sess,
         NEW r, InFlight(w) => wk[w].row # r, run.pc \in {"leased", "accepted"} => run.row # r
  PROVE  (Calling(r)' <=> Calling(r)) /\ (Taken(r)' <=> Taken(r))
<1>1. /\ wk'[w] = run /\ \A v \in Workers \ {w} : wk'[v] = wk[v]
  BY DEF TypeOK
<1> QED BY <1>1 DEF Calling, Taken, InFlight

LEMMA HandlerHands ==
  ASSUME TypeOK, NEW s \in Sessions, NEW h, sess' = [sess EXCEPT ![s] = h], UNCHANGED wk,
         NEW r, Syncing(sess[s]) => sess[s].row # r, Syncing(h) => h.row # r
  PROVE  (Calling(r)' <=> Calling(r)) /\ (Taken(r)' <=> Taken(r))
<1>1. /\ sess'[s] = h /\ \A t \in Sessions \ {s} : sess'[t] = sess[t]
  BY DEF TypeOK
<1> QED BY <1>1 DEF Calling, Taken, Syncing

\* The row of a run in flight is in no other hand.
LEMMA HeldAlone ==
  ASSUME ExclusionInv, NEW w \in Workers, InFlight(w)
  PROVE  /\ wk[w].row \in Rows /\ rows[wk[w].row].status \in {"sending", "cancelled"}
         /\ \A v \in Workers : InFlight(v) /\ wk[v].row = wk[w].row => v = w
         /\ \A s \in Sessions : Syncing(sess[s]) => sess[s].row # wk[w].row
<1>1. wk[w].row \in Rows /\ Held(wk[w].row)
  BY DEF ExclusionInv, TypeOK, InFlight, Held
<1>2. rows[wk[w].row].status \in {"sending", "cancelled"}
  BY DEF ExclusionInv, LeaseHeld, Leasing
<1>3. \A v \in Workers : InFlight(v) /\ wk[v].row = wk[w].row => v = w
  BY DEF ExclusionInv, WorkerExclusion
<1>4. \A s \in Sessions : Syncing(sess[s]) => sess[s].row # wk[w].row
  BY <1>1 DEF ExclusionInv, HandlersSound, HandlerRow, Syncing
<1> QED BY <1>1, <1>2, <1>3, <1>4

\* Nor is the row of a request that sends it itself.
LEMMA SyncAlone ==
  ASSUME ExclusionInv, NEW s \in Sessions, Syncing(sess[s])
  PROVE  /\ sess[s].row \in Rows /\ rows[sess[s].row].status \in {"created", "cancelled"}
         /\ \A w \in Workers : InFlight(w) => wk[w].row # sess[s].row
         /\ \A t \in Sessions : Syncing(sess[t]) /\ sess[t].row = sess[s].row => t = s
<1>1. sess[s].row \in Rows
  BY DEF ExclusionInv, TypeOK, Syncing
<1>2. rows[sess[s].row].status \in {"created", "cancelled"} /\ ~Held(sess[s].row)
  BY DEF ExclusionInv, HandlersSound, HandlerRow, Syncing
<1>3. \A t \in Sessions : Syncing(sess[t]) /\ sess[t].row = sess[s].row => t = s
  BY DEF ExclusionInv, HandlersSound, SyncDistinct
<1> QED BY <1>1, <1>2, <1>3 DEF Held

\* A row in any other status is in nobody's hand, and every acceptance has its fault.
LEMMA Loose ==
  ASSUME DeliveryInv, NEW r \in Rows, rows[r].status \notin {"sending", "created", "cancelled"}
  PROVE  /\ ~Calling(r) /\ ~Taken(r)
         /\ rows[r].status # "succeeded" => delivered[r] <= faults
<1>1. \A w \in Workers : InFlight(w) => wk[w].row # r
  BY HeldAlone DEF DeliveryInv
<1>2. \A s \in Sessions : Syncing(sess[s]) => sess[s].row # r
  BY SyncAlone DEF DeliveryInv
<1>3. ~Calling(r) /\ ~Taken(r)
  BY <1>1, <1>2 DEF Calling, Taken, InFlight, Syncing
<1> QED BY <1>3 DEF DeliveryInv, DeliveriesBounded, Spare, Final

LEMMA SameKept ==
  ASSUME NEW r, delivered'[r] = delivered[r],
         rows'[r].status = rows[r].status \/ rows'[r].status = "cancelled",
         Calling(r)' <=> Calling(r), Taken(r)' <=> Taken(r)
  PROVE  Kept(r)
BY DEF Kept, Spare, Final

-----------------------------------------------------------------------------
(* Steps of those that have no row in hand.                                *)

\* What they may do to the status of a row.
Steered(r) ==
  \/ rows'[r].status = rows[r].status \/ rows'[r].status = "cancelled"
  \/ /\ rows[r].status \in {"failed", "blocked", "dead_letter", "absent"}
     /\ rows'[r].status # "succeeded"
  \/ rows[r].status = "sending" /\ ~Held(r) /\ rows'[r].status = "queued"

LEMMA Steering ==
  ASSUME DeliveryInv, UNCHANGED delivered, faults' \in {faults, faults + 1},
         \A r \in Rows : (Calling(r)' <=> Calling(r)) /\ (Taken(r)' <=> Taken(r)),
         \A r \in Rows : Steered(r)
  PROVE  Accounted
<1>1. TypeOK /\ ExclusionInv
  BY DEF DeliveryInv, ExclusionInv
<1>2. ASSUME NEW r \in Rows, ~Calling(r), ~Taken(r), rows[r].status \notin Final,
             rows'[r].status # "succeeded"
      PROVE  Unsent(r)
  <2>1. delivered[r] <= faults /\ delivered[r] \in Nat /\ faults \in Nat
    BY <1>1, <1>2 DEF DeliveryInv, DeliveriesBounded, Spare, TypeOK
  <2> QED BY <1>2, <2>1 DEF Unsent, Final
<1>3. ASSUME NEW r \in Rows, rows[r].status \in {"failed", "blocked", "dead_letter", "absent"},
             rows'[r].status # "succeeded"
      PROVE  Unsent(r)
  BY <1>2, <1>3, Loose DEF Final
<1>4. ASSUME NEW r \in Rows, rows[r].status = "sending", ~Held(r), rows'[r].status = "queued"
      PROVE  Unsent(r)
  <2>1. ~Calling(r) /\ ~Taken(r)
    BY <1>1, <1>4, SyncAlone DEF Held, InFlight, Calling, Taken, Syncing
  <2> QED BY <1>2, <1>4, <2>1 DEF Final
<1>5. ASSUME NEW r \in Rows, rows'[r].status = rows[r].status \/ rows'[r].status = "cancelled"
      PROVE  Kept(r)
  BY <1>5, SameKept
<1> QED BY <1>3, <1>4, <1>5 DEF Accounted, Steered

LEMMA HandlerIdles ==
  ASSUME DeliveryInv, NEW s \in Sessions, ~Syncing(sess[s]), NEW h,
         sess' = [sess EXCEPT ![s] = h], ~Syncing(h), UNCHANGED <<wk, delivered>>,
         \A r \in Rows : Steered(r), faults' \in {faults, faults + 1}
  PROVE  Accounted
<1>1. \A r \in Rows : (Calling(r)' <=> Calling(r)) /\ (Taken(r)' <=> Taken(r))
  BY HandlerHands DEF DeliveryInv, ExclusionInv
<1> QED BY <1>1, Steering

LEMMA RunIdles ==
  ASSUME DeliveryInv, NEW w \in Workers, ~InFlight(w), NEW run, wk' = [wk EXCEPT ![w] = run],
         run.pc \notin {"leased", "accepted"}, UNCHANGED <<sess, delivered>>,
         \A r \in Rows : Steered(r), faults' \in {faults, faults + 1}
  PROVE  Accounted
<1>1. \A r \in Rows : (Calling(r)' <=> Calling(r)) /\ (Taken(r)' <=> Taken(r))
  BY RunHands DEF DeliveryInv, ExclusionInv
<1> QED BY <1>1, Steering

-----------------------------------------------------------------------------
(* Calls.                                                                  *)

\* A call that failed: if Telegram took the message all the same, that is a fault.
Failed(r) ==
  \/ UNCHANGED <<delivered, faults>>
  \/ Fault /\ (UNCHANGED delivered \/ TakenBy(r, 1))

LEMMA FailedCall ==
  ASSUME TypeOK, NEW r \in Rows, Failed(r)
  PROVE  /\ faults' \in {faults, faults + 1}
         /\ delivered[r] <= faults => delivered'[r] <= faults'
         /\ \A q \in Rows \ {r} : delivered'[q] = delivered[q]
<1>1. delivered[r] \in Nat /\ faults \in Nat
  BY DEF TypeOK
<1> QED BY <1>1 DEF Failed, Fault, TakenBy, TypeOK

LEMMA AnsweredCall ==
  ASSUME TypeOK, NEW r \in Rows, Accepted(r), delivered[r] <= faults
  PROVE  /\ faults' \in {faults, faults + 1}
         /\ 0 < delivered'[r] /\ delivered'[r] <= 1 + faults'
         /\ \A q \in Rows \ {r} : delivered'[q] = delivered[q]
<1>1. delivered[r] \in Nat /\ faults \in Nat
  BY DEF TypeOK
<1> QED BY <1>1 DEF Accepted, Fault, TakenBy, TypeOK

-----------------------------------------------------------------------------
(* Runs.                                                                   *)

\* A run puts its row down, with or without a write.
LEMMA RunPutsDown ==
  ASSUME DeliveryInv, NEW w \in Workers, InFlight(w), NEW run, wk' = [wk EXCEPT ![w] = run],
         run.pc \notin {"leased", "accepted"}, UNCHANGED sess, NEW r \in Rows, wk[w].row = r
  PROVE  /\ ~Calling(r)' /\ ~Taken(r)'
         /\ \A q \in Rows \ {r} : (Calling(q)' <=> Calling(q)) /\ (Taken(q)' <=> Taken(q))
<1>1. TypeOK /\ ExclusionInv
  BY DEF DeliveryInv, ExclusionInv
<1>2. wk'[w] = run /\ \A v \in Workers \ {w} : wk'[v] = wk[v]
  BY <1>1 DEF TypeOK
<1>3. ~Calling(r)' /\ ~Taken(r)'
  BY <1>1, <1>2, HeldAlone DEF Calling, Taken, InFlight, Syncing
<1>4. \A q \in Rows \ {r} : (Calling(q)' <=> Calling(q)) /\ (Taken(q)' <=> Taken(q))
  BY <1>1, RunHands
<1> QED BY <1>3, <1>4

LEMMA CallingCounted ==
  ASSUME DeliveryInv, NEW r \in Rows, Calling(r)
  PROVE  delivered[r] <= faults
BY DEF DeliveryInv, DeliveriesBounded, Spare

\* The call failed, or the run ends without an answer: the outcome may be written or lost.
LEMMA RunGivesUp ==
  ASSUME DeliveryInv, NEW w \in Workers, wk[w].pc = "leased", Failed(wk[w].row), UNCHANGED sess,
         NEW run, wk' = [wk EXCEPT ![w] = run], run.pc \notin {"leased", "accepted"},
         \/ UNCHANGED rows
         \/ \E new : /\ rows' = [rows EXCEPT ![wk[w].row] = OrmWrite(@, wk[w].snap, new)]
                     /\ new.status \notin {"sending", "succeeded"}
  PROVE  Accounted /\ faults' \in {faults, faults + 1}
<1>1. TypeOK /\ ExclusionInv /\ InFlight(w)
  BY DEF DeliveryInv, ExclusionInv, InFlight
<1> PICK r \in Rows : r = wk[w].row
  BY <1>1, HeldAlone
<1>2. rows[r].status \in {"sending", "cancelled"} /\ Calling(r)
  BY <1>1, HeldAlone DEF Calling
<1>3. rows'[r].status # "succeeded" /\ \A q \in Rows \ {r} : rows'[q] = rows[q]
  <2>1. CASE UNCHANGED rows
    BY <1>2, <2>1
  <2>2. ASSUME NEW new, rows' = [rows EXCEPT ![wk[w].row] = OrmWrite(@, wk[w].snap, new)],
               new.status \notin {"sending", "succeeded"}
        PROVE  rows'[r].status # "succeeded" /\ \A q \in Rows \ {r} : rows'[q] = rows[q]
    BY <1>1, <1>2, <2>2, OrmWriteFields DEF TypeOK
  <2> QED BY <2>1, <2>2
<1>4. /\ faults' \in {faults, faults + 1} /\ delivered'[r] <= faults'
      /\ \A q \in Rows \ {r} : delivered'[q] = delivered[q]
  BY <1>1, <1>2, FailedCall, CallingCounted
<1>5. /\ ~Calling(r)' /\ ~Taken(r)'
      /\ \A q \in Rows \ {r} : (Calling(q)' <=> Calling(q)) /\ (Taken(q)' <=> Taken(q))
  BY <1>1, RunPutsDown
<1>6. Unsent(r)
  BY <1>2, <1>3, <1>4, <1>5 DEF Unsent
<1>7. \A q \in Rows \ {r} : Kept(q)
  BY <1>3, <1>4, <1>5, SameKept
<1> QED BY <1>4, <1>6, <1>7 DEF Accounted

\* A run that dies or whose commit fails after the answer: that is the fault.
LEMMA RunForgets ==
  ASSUME DeliveryInv, NEW w \in Workers, InFlight(w), Fault, UNCHANGED <<rows, sess, delivered>>,
         NEW run, wk' = [wk EXCEPT ![w] = run], run.pc \notin {"leased", "accepted"}
  PROVE  Accounted /\ faults' \in {faults, faults + 1}
<1>1. TypeOK /\ ExclusionInv
  BY DEF DeliveryInv, ExclusionInv
<1> PICK r \in Rows : r = wk[w].row
  BY <1>1, HeldAlone
<1>2. rows[r].status \in {"sending", "cancelled"}
  BY <1>1, HeldAlone
<1>3. delivered[r] \in Nat /\ faults \in Nat /\ delivered[r] <= 1 + faults
  BY <1>1, <1>2 DEF TypeOK, DeliveryInv, DeliveriesBounded
<1>4. faults' = faults + 1 /\ delivered'[r] <= faults'
  BY <1>3 DEF Fault
<1>5. /\ ~Calling(r)' /\ ~Taken(r)'
      /\ \A q \in Rows \ {r} : (Calling(q)' <=> Calling(q)) /\ (Taken(q)' <=> Taken(q))
  BY <1>1, RunPutsDown
<1>6. Unsent(r)
  BY <1>2, <1>4, <1>5 DEF Unsent
<1>7. \A q \in Rows \ {r} : Kept(q)
  BY <1>5, SameKept
<1> QED BY <1>4, <1>6, <1>7 DEF Accounted

\* Telegram answers, and the run that is in flight has one acceptance to write.
LEMMA RunAnswered ==
  ASSUME DeliveryInv, TypeOK', NEW w \in Workers, TelegramAccepts(w)
  PROVE  Accounted /\ faults' \in {faults, faults + 1}
<1>1. TypeOK /\ ExclusionInv /\ InFlight(w)
  BY DEF DeliveryInv, ExclusionInv, InFlight, TelegramAccepts
<1> PICK r \in Rows : r = wk[w].row
  BY <1>1, HeldAlone
<1>2. rows[r].status \in {"sending", "cancelled"} /\ Calling(r)
  BY <1>1, HeldAlone DEF Calling, TelegramAccepts
<1>3. /\ faults' \in {faults, faults + 1}
      /\ 0 < delivered'[r] /\ delivered'[r] <= 1 + faults'
      /\ \A q \in Rows \ {r} : delivered'[q] = delivered[q]
  BY <1>1, <1>2, AnsweredCall, CallingCounted DEF TelegramAccepts
<1> DEFINE run == [wk[w] EXCEPT !.pc = "accepted"]
<1>4. wk' = [wk EXCEPT ![w] = run] /\ UNCHANGED <<rows, sess>>
  BY <1>1 DEF TelegramAccepts, TypeOK
<1>5. run.pc = "accepted" /\ run.row = r
  BY <1>1 DEF TypeOK, Run
<1> HIDE DEF run
<1>6. wk'[w] = run /\ \A v \in Workers \ {w} : wk'[v] = wk[v]
  BY <1>1, <1>4 DEF TypeOK
<1>7. Taken(r)' /\ ~Calling(r)'
  BY <1>1, <1>4, <1>5, <1>6, HeldAlone DEF Calling, Taken, InFlight, Syncing
<1>8. \A q \in Rows \ {r} : (Calling(q)' <=> Calling(q)) /\ (Taken(q)' <=> Taken(q))
  BY <1>1, <1>4, <1>5, RunHands
<1>9. Sent(r)
  BY <1>2, <1>3, <1>7 DEF Sent, Spare
<1>10. \A q \in Rows \ {r} : Kept(q)
  BY <1>3, <1>4, <1>8, SameKept
<1> QED BY <1>3, <1>9, <1>10 DEF Accounted

\* The success is written, whatever has happened to the row since it was leased.
LEMMA RunCompletes ==
  ASSUME DeliveryInv, NEW w \in Workers, CompleteSuccess(w)
  PROVE  Accounted /\ UNCHANGED faults
<1>1. TypeOK /\ ExclusionInv /\ InFlight(w) /\ wk[w].snap \in Row
      /\ wk[w].snap.status = "sending"
  BY DEF DeliveryInv, ExclusionInv, InFlight, CompleteSuccess, TypeOK, Run, SnapsSound, RunSnap
<1> PICK r \in Rows : r = wk[w].row
  BY <1>1, HeldAlone
<1>2. rows[r].status \in {"sending", "cancelled"} /\ Taken(r)
  BY <1>1, HeldAlone DEF Taken, CompleteSuccess
<1>3. 0 < delivered[r] /\ delivered[r] <= 1 + faults
  BY <1>2 DEF DeliveryInv, SuccessesReal, DeliveriesBounded
<1> DEFINE new == MarkSucceeded(wk[w].snap)
           run == [wk[w] EXCEPT !.pc = "notifying", !.snap = new]
<1>4. /\ wk' = [wk EXCEPT ![w] = run] /\ UNCHANGED <<sess, delivered, faults>>
      /\ rows' = [rows EXCEPT ![r] = OrmWrite(@, wk[w].snap, new)]
  BY <1>1 DEF CompleteSuccess, TypeOK
<1>5. run.pc = "notifying" /\ new.status = "succeeded"
  BY <1>1, MarkFields DEF TypeOK, Run
<1> HIDE DEF new, run
<1>6. rows'[r].status = "succeeded" /\ \A q \in Rows \ {r} : rows'[q] = rows[q]
  BY <1>1, <1>4, <1>5, OrmWriteFields DEF TypeOK
<1>7. /\ ~Calling(r)' /\ ~Taken(r)'
      /\ \A q \in Rows \ {r} : (Calling(q)' <=> Calling(q)) /\ (Taken(q)' <=> Taken(q))
  BY <1>1, <1>4, <1>5, RunPutsDown
<1>8. Sent(r)
  BY <1>2, <1>3, <1>4, <1>6, <1>7 DEF Sent, Spare, Final
<1>9. \A q \in Rows \ {r} : Kept(q)
  BY <1>4, <1>6, <1>7, SameKept
<1> QED BY <1>4, <1>8, <1>9 DEF Accounted

\* A row that is leased has every acceptance accounted for: nobody sends a taken one again.
LEMMA RunLeases ==
  ASSUME DeliveryInv, NEW w \in Workers, NEW r \in Rows, NEW src \in {"task", "due"},
         AcquireLease(w, r, src)
  PROVE  Accounted /\ UNCHANGED faults
<1>1. TypeOK /\ ExclusionInv
  BY DEF DeliveryInv, ExclusionInv
<1>2. Entered(r)
  BY <1>1 DEF AcquireLease, Takes, ExclusionInv, RunsSound, RunRows
<1>3. rows[r].status \in {"queued", "deferred"}
  BY <1>2 DEF AcquireLease, CanLease, Leasable, Entered
<1>4. ~Calling(r) /\ ~Taken(r) /\ delivered[r] <= faults
  BY <1>3, Loose
<1> DEFINE run == [pc |-> "leased", row |-> r, snap |-> Leased(rows[r]), src |-> src,
                   todo |-> wk[w].todo \ {r}, stale |-> {}]
<1>5. /\ wk' = [wk EXCEPT ![w] = run] /\ run.pc = "leased" /\ run.row = r /\ ~InFlight(w)
      /\ rows' = [rows EXCEPT ![r] = Leased(rows[r])] /\ UNCHANGED <<sess, delivered, faults>>
  BY DEF AcquireLease, Takes, InFlight
<1> HIDE DEF run
<1>6. rows'[r].status = "sending" /\ \A q \in Rows \ {r} : rows'[q] = rows[q]
  BY <1>1, <1>5, MarkFields DEF TypeOK
<1>7. wk'[w] = run /\ \A v \in Workers \ {w} : wk'[v] = wk[v]
  BY <1>1, <1>5 DEF TypeOK
<1>8. ~Taken(r)'
  BY <1>4, <1>5, <1>7 DEF Taken
<1>9. \A q \in Rows \ {r} : (Calling(q)' <=> Calling(q)) /\ (Taken(q)' <=> Taken(q))
  BY <1>1, <1>5, RunHands
<1>10. Unsent(r)
  BY <1>3, <1>4, <1>5, <1>6, <1>8 DEF Unsent
<1>11. \A q \in Rows \ {r} : Kept(q)
  BY <1>5, <1>6, <1>9, SameKept
<1> QED BY <1>5, <1>10, <1>11 DEF Accounted

-----------------------------------------------------------------------------
(* Requests.                                                               *)

LEMMA HandlerPutsDown ==
  ASSUME DeliveryInv, NEW s \in Sessions, Syncing(sess[s]), Answer(s), UNCHANGED wk,
         NEW r \in Rows, sess[s].row = r
  PROVE  /\ ~Calling(r)' /\ ~Taken(r)'
         /\ \A q \in Rows \ {r} : (Calling(q)' <=> Calling(q)) /\ (Taken(q)' <=> Taken(q))
<1>1. TypeOK /\ ExclusionInv
  BY DEF DeliveryInv, ExclusionInv
<1>2. sess'[s] = IdleSession /\ \A t \in Sessions \ {s} : sess'[t] = sess[t]
  BY <1>1 DEF Answer, TypeOK
<1>3. ~Calling(r)' /\ ~Taken(r)'
  BY <1>1, <1>2, SyncAlone DEF Calling, Taken, InFlight, Syncing, IdleSession
<1>4. \A q \in Rows \ {r} : (Calling(q)' <=> Calling(q)) /\ (Taken(q)' <=> Taken(q))
  BY <1>1, IdleIsQuiet, HandlerHands DEF Answer
<1> QED BY <1>3, <1>4

\* The request's own call fails.
LEMMA SyncGivesUp ==
  ASSUME DeliveryInv, NEW s \in Sessions, SyncRefused(s)
  PROVE  Accounted /\ faults' \in {faults, faults + 1}
<1>1. TypeOK /\ ExclusionInv /\ Syncing(sess[s]) /\ sess[s].snap \in Row
  BY DEF DeliveryInv, ExclusionInv, SyncRefused, Syncing, TypeOK, Handler
<1> PICK r \in Rows : r = sess[s].row
  BY <1>1, SyncAlone
<1>2. rows[r].status \in {"created", "cancelled"} /\ Calling(r)
  BY <1>1, SyncAlone DEF Calling, SyncRefused
<1>3. Failed(r)
  BY DEF SyncRefused, Unheard, Failed
<1>4. /\ faults' \in {faults, faults + 1} /\ delivered'[r] <= faults'
      /\ \A q \in Rows \ {r} : delivered'[q] = delivered[q]
  BY <1>1, <1>2, <1>3, FailedCall, CallingCounted
<1>5. /\ ~Calling(r)' /\ ~Taken(r)'
      /\ \A q \in Rows \ {r} : (Calling(q)' <=> Calling(q)) /\ (Taken(q)' <=> Taken(q))
  BY <1>1, HandlerPutsDown DEF SyncRefused
<1>6. rows'[r].status # "succeeded" /\ \A q \in Rows \ {r} : rows'[q] = rows[q]
  <2> DEFINE new == MarkFailed(sess[s].snap)
  <2>1. new.status = "failed"
    BY <1>1, MarkFields
  <2>2. rows' = [rows EXCEPT ![r] = OrmWrite(@, sess[s].snap, new)]
    BY DEF SyncRefused, Commit
  <2> HIDE DEF new
  <2> QED BY <1>1, <1>2, <2>1, <2>2, OrmWriteFields DEF TypeOK
<1>7. Unsent(r)
  BY <1>2, <1>4, <1>5, <1>6 DEF Unsent
<1>8. \A q \in Rows \ {r} : Kept(q)
  BY <1>4, <1>5, <1>6, SameKept
<1> QED BY <1>4, <1>7, <1>8 DEF Accounted

LEMMA SyncAnswered ==
  ASSUME DeliveryInv, NEW s \in Sessions, SyncAccepted(s)
  PROVE  Accounted /\ faults' \in {faults, faults + 1}
<1>1. TypeOK /\ ExclusionInv /\ Syncing(sess[s])
  BY DEF DeliveryInv, ExclusionInv, SyncAccepted, Syncing
<1> PICK r \in Rows : r = sess[s].row
  BY <1>1, SyncAlone
<1>2. rows[r].status \in {"created", "cancelled"} /\ Calling(r)
  BY <1>1, SyncAlone DEF Calling, SyncAccepted
<1>3. /\ faults' \in {faults, faults + 1}
      /\ 0 < delivered'[r] /\ delivered'[r] <= 1 + faults'
      /\ \A q \in Rows \ {r} : delivered'[q] = delivered[q]
  BY <1>1, <1>2, AnsweredCall, CallingCounted DEF SyncAccepted
<1> DEFINE h == [sess[s] EXCEPT !.op = "synced"]
<1>4. sess' = [sess EXCEPT ![s] = h] /\ UNCHANGED <<rows, wk>>
  BY <1>1 DEF SyncAccepted, TypeOK
<1>5. h.op = "synced" /\ h.row = r
  BY <1>1 DEF TypeOK, Handler
<1> HIDE DEF h
<1>6. sess'[s] = h /\ \A t \in Sessions \ {s} : sess'[t] = sess[t]
  BY <1>1, <1>4 DEF TypeOK
<1>7. Taken(r)' /\ ~Calling(r)'
  BY <1>1, <1>4, <1>5, <1>6, SyncAlone DEF Calling, Taken, InFlight, Syncing
<1>8. \A q \in Rows \ {r} : (Calling(q)' <=> Calling(q)) /\ (Taken(q)' <=> Taken(q))
  BY <1>1, <1>4, <1>5, HandlerHands
<1>9. Sent(r)
  BY <1>2, <1>3, <1>7 DEF Sent, Spare
<1>10. \A q \in Rows \ {r} : Kept(q)
  BY <1>3, <1>4, <1>8, SameKept
<1> QED BY <1>3, <1>9, <1>10 DEF Accounted

LEMMA SyncCompletes ==
  ASSUME DeliveryInv, NEW s \in Sessions, SyncSucceeded(s)
  PROVE  Accounted /\ UNCHANGED faults
<1>1. TypeOK /\ ExclusionInv /\ Syncing(sess[s]) /\ sess[s].snap \in Row
      /\ sess[s].snap.status = "created"
  BY DEF DeliveryInv, ExclusionInv, SyncSucceeded, Syncing, TypeOK, Handler, SnapsSound,
         HandlerSnap
<1> PICK r \in Rows : r = sess[s].row
  BY <1>1, SyncAlone
<1>2. rows[r].status \in {"created", "cancelled"} /\ Taken(r)
  BY <1>1, SyncAlone DEF Taken, SyncSucceeded
<1>3. 0 < delivered[r] /\ delivered[r] <= 1 + faults
  BY <1>2 DEF DeliveryInv, SuccessesReal, DeliveriesBounded
<1>4. UNCHANGED <<delivered, faults, wk>>
  BY DEF SyncSucceeded
<1>5. rows'[r].status = "succeeded" /\ \A q \in Rows \ {r} : rows'[q] = rows[q]
  <2> DEFINE new == MarkSucceeded(sess[s].snap)
  <2>1. new.status = "succeeded"
    BY <1>1, MarkFields
  <2>2. rows' = [rows EXCEPT ![r] = OrmWrite(@, sess[s].snap, new)]
    BY DEF SyncSucceeded, Commit
  <2> HIDE DEF new
  <2> QED BY <1>1, <1>2, <2>1, <2>2, OrmWriteFields DEF TypeOK
<1>6. /\ ~Calling(r)' /\ ~Taken(r)'
      /\ \A q \in Rows \ {r} : (Calling(q)' <=> Calling(q)) /\ (Taken(q)' <=> Taken(q))
  BY <1>1, HandlerPutsDown DEF SyncSucceeded
<1>7. Sent(r)
  BY <1>2, <1>3, <1>4, <1>5, <1>6 DEF Sent, Spare, Final
<1>8. \A q \in Rows \ {r} : Kept(q)
  BY <1>4, <1>5, <1>6, SameKept
<1> QED BY <1>4, <1>7, <1>8 DEF Accounted

LEMMA RequestMade ==
  ASSUME DeliveryInv, NEW s \in Sessions, NEW r \in Rows, NEW mode \in {"sync", "now", "later"},
         CreateHistory(s, r, mode)
  PROVE  Accounted /\ UNCHANGED faults
<1> DEFINE new == [AbsentRow EXCEPT
                     !.status = IF mode = "sync" THEN "created" ELSE "queued",
                     !.next_retry_at = IF mode = "later" THEN "future" ELSE "none"]
<1>1. TypeOK /\ ExclusionInv /\ rows[r].status = "absent" /\ ~Syncing(sess[s])
  BY DEF DeliveryInv, ExclusionInv, CreateHistory, Syncing
<1>2. ~Calling(r) /\ ~Taken(r) /\ delivered[r] <= faults
  BY <1>1, Loose
<1>3. new.status \in {"created", "queued"}
  BY DEF AbsentRow
<1>4. /\ rows' = [rows EXCEPT ![r] = new] /\ UNCHANGED <<wk, delivered, faults>>
      /\ \/ Hold(s, "sync", r, new, "none") \/ Hold(s, "enqueue", r, new, "none")
         \/ UNCHANGED sess
  BY DEF CreateHistory
<1> HIDE DEF new
<1>5. rows'[r].status # "succeeded" /\ \A q \in Rows \ {r} : rows'[q] = rows[q]
  BY <1>1, <1>3, <1>4 DEF TypeOK
<1>6. \A q \in Rows \ {r} : (Calling(q)' <=> Calling(q)) /\ (Taken(q)' <=> Taken(q))
  <2>1. CASE UNCHANGED sess
    BY <1>4, <2>1 DEF Calling, Taken
  <2>2. ASSUME NEW op, Hold(s, op, r, new, "none")
        PROVE  \A q \in Rows \ {r} : (Calling(q)' <=> Calling(q)) /\ (Taken(q)' <=> Taken(q))
    <3> DEFINE h == [op |-> op, row |-> r, snap |-> new, prev |-> "none", stale |-> {}]
    <3>1. sess' = [sess EXCEPT ![s] = h] /\ h.row = r
      BY <2>2 DEF Hold
    <3> HIDE DEF h
    <3> QED BY <1>1, <1>4, <3>1, HandlerHands
  <2> QED BY <1>4, <2>1, <2>2
<1>7. ~Taken(r)'
  <2>1. \A t \in Sessions : sess'[t] = sess[t] \/ sess'[t].op \in {"sync", "enqueue"}
    BY <1>1, <1>4 DEF Hold, TypeOK
  <2> QED BY <1>2, <1>4, <2>1 DEF Taken
<1>8. Unsent(r)
  BY <1>1, <1>2, <1>4, <1>5, <1>7 DEF Unsent
<1>9. \A q \in Rows \ {r} : Kept(q)
  BY <1>4, <1>5, <1>6, SameKept
<1> QED BY <1>4, <1>8, <1>9 DEF Accounted

\* A request that dies while it sends its row is a fault.
LEMMA SyncForgets ==
  ASSUME DeliveryInv, NEW s \in Sessions, Syncing(sess[s]), SessionDies(s)
  PROVE  Accounted /\ faults' \in {faults, faults + 1}
<1>1. TypeOK /\ ExclusionInv
  BY DEF DeliveryInv, ExclusionInv
<1> PICK r \in Rows : r = sess[s].row
  BY <1>1, SyncAlone
<1>2. rows[r].status \in {"created", "cancelled"}
  BY <1>1, SyncAlone
<1>3. delivered[r] \in Nat /\ faults \in Nat /\ delivered[r] <= 1 + faults
  BY <1>1 DEF TypeOK, DeliveryInv, DeliveriesBounded
<1>4. UNCHANGED <<rows, wk, delivered>> /\ Answer(s) /\ faults' = faults + 1
  BY DEF SessionDies, Fault
<1>5. /\ ~Calling(r)' /\ ~Taken(r)'
      /\ \A q \in Rows \ {r} : (Calling(q)' <=> Calling(q)) /\ (Taken(q)' <=> Taken(q))
  BY <1>1, <1>4, HandlerPutsDown
<1>6. Unsent(r)
  BY <1>2, <1>3, <1>4, <1>5 DEF Unsent
<1>7. \A q \in Rows \ {r} : Kept(q)
  BY <1>4, <1>5, SameKept
<1> QED BY <1>4, <1>6, <1>7 DEF Accounted

\* The commits of cancel, retry, restore, task id and release, and what precedes them.
LEMMA HandlerSteps ==
  ASSUME DeliveryInv, NEW s \in Sessions,
         \/ \E r \in Rows : ReplayHistory(s, r) \/ ReadForCancel(s, r) \/ ReadForRetry(s, r)
         \/ ReadForRelease(s) \/ EnqueueTask(s) \/ CommitTaskId(s) \/ CommitCancel(s)
         \/ CommitRetry(s) \/ CommitRestore(s) \/ CommitRelease(s) \/ RipenHeld(s)
         \/ SessionDies(s) /\ ~Syncing(sess[s])
  PROVE  Accounted /\ faults' \in {faults, faults + 1}
<1>1. /\ TypeOK /\ ExclusionInv /\ HandlerSnap(sess[s]) /\ HandlerRow(sess[s])
      /\ sess[s] \in Handler /\ sess[s].snap \in Row
      /\ sess[s].op \notin {"idle", "release"} => sess[s].row \in Rows
  BY DEF DeliveryInv, ExclusionInv, SnapsSound, HandlersSound, TypeOK, Handler
<1>2. /\ UNCHANGED <<wk, delivered>> /\ faults' \in {faults, faults + 1}
  BY DEF ReplayHistory, ReadForCancel, ReadForRetry, ReadForRelease, EnqueueTask, CommitTaskId,
         CommitCancel, CommitRetry, CommitRestore, CommitRelease, RipenHeld, SessionDies, Fault
<1>3. ASSUME NEW new, sess[s].row \in Rows, Commit(s, new), new.status = sess[s].snap.status
      PROVE  \A r \in Rows : Steered(r)
  BY <1>1, <1>3, OrmWriteFields DEF Commit, TypeOK, Steered
<1>4. ASSUME NEW h, sess' = [sess EXCEPT ![s] = h], ~Syncing(h), ~Syncing(sess[s]),
             \A r \in Rows : Steered(r)
      PROVE  Accounted
  BY <1>2, <1>4, HandlerIdles
<1>5. CASE RipenHeld(s)
  <2> DEFINE h == [sess[s] EXCEPT !.prev = "past"]
  <2>1. sess' = [sess EXCEPT ![s] = h] /\ UNCHANGED rows
    BY <1>1, <1>5 DEF RipenHeld, TypeOK
  <2>2. h.op = sess[s].op /\ h.row = sess[s].row
    BY <1>1 DEF Handler
  <2> HIDE DEF h
  <2>3. sess'[s] = h /\ \A t \in Sessions \ {s} : sess'[t] = sess[t]
    BY <1>1, <2>1 DEF TypeOK
  <2>4. \A r \in Rows : (Calling(r)' <=> Calling(r)) /\ (Taken(r)' <=> Taken(r))
    BY <1>2, <2>2, <2>3 DEF Calling, Taken
  <2> QED BY <1>2, <2>1, <2>4, SameKept DEF Accounted
<1>6. CASE \E r \in Rows : ReplayHistory(s, r) \/ ReadForCancel(s, r) \/ ReadForRetry(s, r)
  <2>1. (\A r \in Rows : Steered(r)) /\ ~Syncing(sess[s])
    BY <1>6 DEF ReplayHistory, ReadForCancel, ReadForRetry, Syncing, Steered
  <2>2. PICK op, r, snap, prev :
            op \in {"enqueue", "cancel", "retry"} /\ Hold(s, op, r, snap, prev)
    BY <1>6 DEF ReplayHistory, ReadForCancel, ReadForRetry
  <2> DEFINE h == [op |-> op, row |-> r, snap |-> snap, prev |-> prev, stale |-> {}]
  <2>3. sess' = [sess EXCEPT ![s] = h] /\ ~Syncing(h)
    BY <2>2 DEF Hold, Syncing
  <2> HIDE DEF h
  <2> QED BY <1>2, <1>4, <2>1, <2>3
<1>7. CASE ReadForRelease(s)
  <2> DEFINE h == [IdleSession EXCEPT !.op = "release", !.stale = StaleLocks({"expired", "stale"})]
  <2>1. /\ sess' = [sess EXCEPT ![s] = h] /\ ~Syncing(h) /\ ~Syncing(sess[s])
        /\ \A r \in Rows : Steered(r)
    BY <1>7 DEF ReadForRelease, Syncing, IdleSession, Steered
  <2> HIDE DEF h
  <2> QED BY <1>2, <1>4, <2>1
<1>8. CASE EnqueueTask(s)
  <2> DEFINE h == [sess[s] EXCEPT !.op = "mark"]
  <2>1. /\ sess' = [sess EXCEPT ![s] = h] /\ ~Syncing(sess[s])
        /\ \A r \in Rows : Steered(r)
    BY <1>1, <1>8 DEF EnqueueTask, Syncing, TypeOK, Steered
  <2>2. ~Syncing(h)
    BY <1>1 DEF Syncing, Handler
  <2> HIDE DEF h
  <2> QED BY <1>2, <1>4, <2>1, <2>2
<1>9. CASE CommitTaskId(s)
  <2> DEFINE new == MarkQueued(sess[s].snap)
  <2>1. new.status = sess[s].snap.status /\ sess[s].row \in Rows /\ ~Syncing(sess[s])
    BY <1>1, <1>9, MarkFields DEF CommitTaskId, HandlerSnap, Syncing
  <2>2. Commit(s, new) /\ sess' = [sess EXCEPT ![s] = IdleSession]
    BY <1>9 DEF CommitTaskId, Answer
  <2> HIDE DEF new
  <2>3. \A r \in Rows : Steered(r)
    BY <1>3, <2>1, <2>2
  <2> QED BY <1>2, <1>4, <2>1, <2>2, <2>3, IdleIsQuiet
<1>10. CASE CommitCancel(s)
  <2> DEFINE new == MarkCancelled(sess[s].snap)
  <2>1. /\ new.status = "cancelled" /\ sess[s].snap.status # "cancelled"
        /\ sess[s].row \in Rows /\ ~Syncing(sess[s])
    BY <1>1, <1>10, MarkFields DEF CommitCancel, HandlerSnap, Cancellable, Syncing
  <2>2. /\ rows' = [rows EXCEPT ![sess[s].row] = OrmWrite(@, sess[s].snap, new)]
        /\ sess' = [sess EXCEPT ![s] = IdleSession]
    BY <1>10 DEF CommitCancel, Commit, Answer
  <2> HIDE DEF new
  <2>3. \A r \in Rows : Steered(r)
    BY <1>1, <2>1, <2>2, OrmWriteFields DEF TypeOK, Steered
  <2> QED BY <1>2, <1>4, <2>1, <2>2, <2>3, IdleIsQuiet
<1>11. CASE CommitRetry(s)
  <2> DEFINE new == MarkRetried(sess[s].snap)
  <2>1. /\ new.status = "queued" /\ sess[s].snap.status # "queued"
        /\ sess[s].row \in Rows /\ ~Syncing(sess[s])
        /\ rows[sess[s].row].status \in {"failed", "blocked", "dead_letter"}
    BY <1>1, <1>11, MarkFields DEF CommitRetry, HandlerSnap, HandlerRow, Retryable, Syncing
  <2>2. rows' = [rows EXCEPT ![sess[s].row] = OrmWrite(@, sess[s].snap, new)]
    BY <1>11 DEF CommitRetry, Commit
  <2>3. PICK op, prev :
            op \in {"enqueue", "restore"} /\ Hold(s, op, sess[s].row, new, prev)
    BY <1>11 DEF CommitRetry
  <2> DEFINE h == [op |-> op, row |-> sess[s].row, snap |-> new, prev |-> prev, stale |-> {}]
  <2>4. sess' = [sess EXCEPT ![s] = h] /\ ~Syncing(h)
    BY <2>3 DEF Hold, Syncing
  <2> HIDE DEF new, h
  <2>5. \A r \in Rows : Steered(r)
    BY <1>1, <2>1, <2>2, OrmWriteFields DEF TypeOK, Steered
  <2> QED BY <1>2, <1>4, <2>1, <2>4, <2>5
<1>12. CASE CommitRestore(s)
  <2> DEFINE new == [sess[s].snap EXCEPT !.next_retry_at = sess[s].prev]
             h == [op |-> "enqueue", row |-> sess[s].row, snap |-> new, prev |-> "none",
                   stale |-> {}]
  <2>1. new.status = sess[s].snap.status /\ sess[s].row \in Rows /\ ~Syncing(sess[s])
    BY <1>1, <1>12 DEF CommitRestore, Syncing, Row
  <2>2. Commit(s, new)
    BY <1>12 DEF CommitRestore
  <2>3. ~Syncing(h) /\ (sess' = [sess EXCEPT ![s] = h] \/ sess' = [sess EXCEPT ![s] = IdleSession])
    BY <1>12 DEF CommitRestore, Hold, Answer, Syncing
  <2> HIDE DEF new, h
  <2>4. \A r \in Rows : Steered(r)
    BY <1>3, <2>1, <2>2
  <2> QED BY <1>2, <1>4, <2>1, <2>3, <2>4, IdleIsQuiet
<1>13. CASE CommitRelease(s)
  <2>1. /\ sess[s].stale \in SUBSET Rows /\ ~Syncing(sess[s])
        /\ \A r \in sess[s].stale : rows[r].status = "sending" /\ ~Held(r)
    BY <1>1, <1>13 DEF CommitRelease, HandlerRow, Handler, Syncing
  <2>2. rows' = Released(sess[s].stale) /\ sess' = [sess EXCEPT ![s] = IdleSession]
    BY <1>13 DEF CommitRelease, Answer
  <2>3. /\ \A r \in Rows \ sess[s].stale : rows'[r] = rows[r]
        /\ \A r \in sess[s].stale : rows'[r].status = "queued"
    BY <1>1, <2>1, <2>2, ReleasedRows
  <2>4. \A r \in Rows : Steered(r)
    BY <2>1, <2>3 DEF Steered
  <2> QED BY <1>2, <1>4, <2>1, <2>2, <2>4, IdleIsQuiet
<1>14. CASE SessionDies(s) /\ ~Syncing(sess[s])
  <2>1. \A r \in Rows : Steered(r)
    BY <1>14 DEF SessionDies, Steered
  <2> QED BY <1>2, <1>4, <1>14, <2>1, IdleIsQuiet DEF SessionDies, Answer
<1> QED BY <1>5, <1>6, <1>7, <1>8, <1>9, <1>10, <1>11, <1>12, <1>13, <1>14

-----------------------------------------------------------------------------
(* Every step, and the theorems.                                           *)

\* How a run's record looks when the run ends, or goes on to its next row.
LEMMA RunEnds ==
  ASSUME NEW w \in Workers, EndRun(w) \/ EndRow(w)
  PROVE  \E run : wk' = [wk EXCEPT ![w] = run] /\ run.pc \notin {"leased", "accepted"}
<1>1. IdleWorker.pc \notin {"leased", "accepted"}
  BY DEF IdleWorker
<1>2. [IdleWorker EXCEPT !.pc = "looping", !.todo = wk[w].todo].pc = "looping"
  BY DEF IdleWorker
<1> QED BY <1>1, <1>2 DEF EndRun, EndRow

LEMMA RunFaults ==
  ASSUME DeliveryInv, NEW w \in Workers, RunFault(w)
  PROVE  Accounted /\ faults' \in {faults, faults + 1}
<1>1. TypeOK /\ ExclusionInv /\ wk[w].snap \in Row
  BY DEF DeliveryInv, ExclusionInv, TypeOK, Run
<1>2. Fault /\ faults' \in {faults, faults + 1} /\ UNCHANGED sess
  BY DEF RunFault, DeferLocally, CancelledWhileNotifying, CancelledWhileSending, FinishFails,
         WorkerDies, Fault
<1>3. PICK run : wk' = [wk EXCEPT ![w] = run] /\ run.pc \notin {"leased", "accepted"}
  <2>1. EndRun(w) \/ EndRow(w) \/ wk' = [wk EXCEPT ![w] = IdleWorker]
    BY DEF RunFault, DeferLocally, CancelledWhileNotifying, CancelledWhileSending, FinishFails,
           WorkerDies, FinishRow
  <2>2. IdleWorker.pc \notin {"leased", "accepted"}
    BY DEF IdleWorker
  <2> QED BY <2>1, <2>2, RunEnds
<1>4. CASE DeferLocally(w)
  <2> DEFINE new == MarkDeferred(wk[w].snap, RetryDue)
  <2>1. new.status = "deferred" /\ rows' = [rows EXCEPT ![wk[w].row] = OrmWrite(@, wk[w].snap, new)]
    BY <1>1, <1>4, MarkFields DEF DeferLocally, FinishRow
  <2>2. wk[w].pc = "leased" /\ Failed(wk[w].row)
    BY <1>2, <1>4 DEF DeferLocally, Failed
  <2> HIDE DEF new
  <2> QED BY <1>2, <1>3, <2>1, <2>2, RunGivesUp
<1>5. CASE CancelledWhileSending(w)
  <2>1. wk[w].pc = "leased" /\ Failed(wk[w].row) /\ UNCHANGED rows
    BY <1>2, <1>5 DEF CancelledWhileSending, Failed
  <2> QED BY <1>2, <1>3, <2>1, RunGivesUp
<1>6. CASE InFlight(w) /\ (FinishFails(w) \/ WorkerDies(w))
  <2>1. InFlight(w) /\ UNCHANGED <<rows, sess, delivered>>
    BY <1>6 DEF FinishFails, WorkerDies
  <2> QED BY <1>2, <1>3, <2>1, RunForgets
<1>7. CASE WorkerDies(w) /\ ~InFlight(w)
  <2>1. UNCHANGED <<sess, delivered>> /\ \A r \in Rows : Steered(r)
    BY <1>7 DEF WorkerDies, Steered
  <2> QED BY <1>2, <1>3, <1>7, <2>1, RunIdles
<1>8. CASE CancelledWhileNotifying(w)
  <2> DEFINE new == MarkSucceeded(wk[w].snap)
  <2>1. new.status = wk[w].snap.status /\ wk[w].row \in Rows /\ ~InFlight(w)
    BY <1>1, <1>8, MarkFields
       DEF CancelledWhileNotifying, ExclusionInv, SnapsSound, RunSnap, TypeOK, InFlight
  <2>2. rows' = [rows EXCEPT ![wk[w].row] = OrmWrite(@, wk[w].snap, new)] /\ UNCHANGED delivered
    BY <1>8 DEF CancelledWhileNotifying
  <2> HIDE DEF new
  <2>3. \A r \in Rows : Steered(r)
    BY <1>1, <2>1, <2>2, OrmWriteFields DEF Steered, TypeOK
  <2> QED BY <1>2, <1>3, <2>1, <2>2, <2>3, RunIdles
<1>9. FinishFails(w) => InFlight(w)
  BY DEF FinishFails
<1> QED BY <1>4, <1>5, <1>6, <1>7, <1>8, <1>9 DEF RunFault

LEMMA RunSteps ==
  ASSUME DeliveryInv, TypeOK', NEW w \in Workers, RunStep(w)
  PROVE  Accounted /\ faults' \in {faults, faults + 1}
<1>1. TypeOK /\ ExclusionInv /\ wk[w].snap \in Row
  BY DEF DeliveryInv, ExclusionInv, TypeOK, Run
<1>2. ASSUME ~InFlight(w), UNCHANGED <<sess, delivered, faults>>, \A r \in Rows : Steered(r),
             NEW run, wk' = [wk EXCEPT ![w] = run], run.pc \notin {"leased", "accepted"}
      PROVE  Accounted /\ faults' \in {faults, faults + 1}
  BY <1>2, RunIdles
<1>3. UNCHANGED rows => \A r \in Rows : Steered(r)
  BY DEF Steered
<1>4. CASE StartDueRun(w)
  <2> DEFINE run == [IdleWorker EXCEPT !.pc = "releasing", !.stale = StaleLocks({"stale"})]
  <2>1. /\ wk' = [wk EXCEPT ![w] = run] /\ run.pc \notin {"leased", "accepted"}
        /\ ~InFlight(w) /\ UNCHANGED <<rows, sess, delivered, faults>>
    BY <1>4 DEF StartDueRun, InFlight, IdleWorker
  <2> HIDE DEF run
  <2> QED BY <1>2, <1>3, <2>1
<1>5. CASE CommitStaleRelease(w)
  <2> DEFINE stale == wk[w].stale
             run == [IdleWorker EXCEPT !.pc = "looping", !.todo = ReadyRows']
  <2>1. /\ wk[w].pc = "releasing" /\ stale \in SUBSET Rows
        /\ \A r \in stale : rows[r].status = "sending" /\ ~Held(r)
    BY <1>1, <1>5 DEF CommitStaleRelease, ExclusionInv, RunsSound, RunRows, TypeOK, Run
  <2>2. /\ rows' = Released(stale) /\ wk' = [wk EXCEPT ![w] = run] /\ ~InFlight(w)
        /\ run.pc \notin {"leased", "accepted"} /\ UNCHANGED <<sess, delivered, faults>>
    BY <1>5, <2>1 DEF CommitStaleRelease, InFlight, IdleWorker
  <2> HIDE DEF stale, run
  <2>3. /\ \A r \in Rows \ stale : rows'[r] = rows[r]
        /\ \A r \in stale : rows'[r].status = "queued"
    BY <1>1, <2>1, <2>2, ReleasedRows
  <2>4. \A r \in Rows : Steered(r)
    BY <2>1, <2>3 DEF Steered
  <2> QED BY <1>2, <2>2, <2>4
<1>6. CASE EndDueRun(w)
  <2>1. /\ wk' = [wk EXCEPT ![w] = IdleWorker] /\ IdleWorker.pc \notin {"leased", "accepted"}
        /\ ~InFlight(w) /\ UNCHANGED <<rows, sess, delivered, faults>>
    BY <1>6 DEF EndDueRun, InFlight, IdleWorker
  <2> QED BY <1>2, <1>3, <2>1
<1>7. ASSUME NEW r \in Rows, NEW src \in {"task", "due"}, AcquireLease(w, r, src)
      PROVE  Accounted /\ faults' \in {faults, faults + 1}
  BY <1>7, RunLeases
<1>8. ASSUME NEW r \in Rows, NEW src \in {"task", "due"}, SkipRow(w, r, src)
      PROVE  Accounted /\ faults' \in {faults, faults + 1}
  <2>1. UNCHANGED <<rows, sess, delivered, faults>> /\ ~InFlight(w)
    BY <1>8 DEF SkipRow, Takes, InFlight
  <2>2. /\ \A v \in Workers : wk'[v].pc = wk[v].pc /\ wk'[v].row = wk[v].row
    BY <1>1, <1>8 DEF SkipRow, TypeOK, Run
  <2>3. \A q \in Rows : (Calling(q)' <=> Calling(q)) /\ (Taken(q)' <=> Taken(q))
    BY <2>1, <2>2 DEF Calling, Taken
  <2>4. \A q \in Rows : Steered(q)
    BY <1>3, <2>1
  <2> QED BY <2>1, <2>3, <2>4, Steering
<1>9. ASSUME NEW r \in Rows, NEW src \in {"task", "due"}, BotMissing(w, r, src)
      PROVE  Accounted /\ faults' \in {faults, faults + 1}
  <2>1. /\ wk' = [wk EXCEPT ![w] = IdleWorker] /\ IdleWorker.pc \notin {"leased", "accepted"}
        /\ ~InFlight(w) /\ UNCHANGED <<rows, sess, delivered, faults>>
    BY <1>9 DEF BotMissing, Takes, InFlight, IdleWorker
  <2> QED BY <1>2, <1>3, <2>1
<1>10. CASE Notified(w)
  <2>1. PICK run : wk' = [wk EXCEPT ![w] = run] /\ run.pc \notin {"leased", "accepted"}
    BY <1>10, RunEnds DEF Notified
  <2>2. ~InFlight(w) /\ UNCHANGED <<rows, sess, delivered, faults>>
    BY <1>10 DEF Notified, InFlight
  <2> QED BY <1>2, <1>3, <2>1, <2>2
<1>11. ASSUME wk[w].pc = "leased", Failed(wk[w].row), UNCHANGED sess, NEW new, NEW outcome,
              FinishRow(w, outcome, new), new.status \notin {"sending", "succeeded"}
       PROVE  Accounted /\ faults' \in {faults, faults + 1}
  <2>1. PICK run : wk' = [wk EXCEPT ![w] = run] /\ run.pc \notin {"leased", "accepted"}
    BY <1>11, RunEnds DEF FinishRow
  <2>2. rows' = [rows EXCEPT ![wk[w].row] = OrmWrite(@, wk[w].snap, new)]
    BY <1>11 DEF FinishRow
  <2> QED BY <1>11, <2>1, <2>2, RunGivesUp
<1>12. CASE TelegramTransient(w)
  <2>1. wk[w].pc = "leased" /\ Failed(wk[w].row) /\ UNCHANGED sess
    BY <1>12 DEF TelegramTransient, Unheard, Failed
  <2>2. \/ FinishRow(w, "dead_letter", MarkDeadLetter(wk[w].snap))
        \/ FinishRow(w, "deferred", MarkDeferred(wk[w].snap, RetryDue))
    BY <1>12 DEF TelegramTransient
  <2>3. /\ MarkDeadLetter(wk[w].snap).status = "dead_letter"
        /\ MarkDeferred(wk[w].snap, RetryDue).status = "deferred"
    BY <1>1, MarkFields
  <2> QED BY <1>11, <2>1, <2>2, <2>3
<1>13. CASE TelegramPermanent(w)
  <2>1. wk[w].pc = "leased" /\ Failed(wk[w].row) /\ UNCHANGED sess
    BY <1>13 DEF TelegramPermanent, Failed
  <2>2. FinishRow(w, "blocked", MarkBlocked(wk[w].snap)) /\ MarkBlocked(wk[w].snap).status = "blocked"
    BY <1>1, <1>13, MarkFields DEF TelegramPermanent
  <2> QED BY <1>11, <2>1, <2>2
<1> QED BY <1>4, <1>5, <1>6, <1>7, <1>8, <1>9, <1>10, <1>12, <1>13, RunAnswered, RunCompletes
        DEF RunStep

LEMMA DeliveryStep ==
  ASSUME LeasesOutliveRuns, DeliveryInv, [Next]_vars
  PROVE  DeliveryInv' /\ Accounted
<1>1. ExclusionInv' /\ TypeOK /\ TypeOK'
  BY ExclusionStep DEF DeliveryInv, ExclusionInv
<1>2. ASSUME NEW s \in Sessions, Request(s) \/ SessionStep(s) \/ SessionDies(s) \/ RipenHeld(s)
      PROVE  Accounted /\ faults' \in {faults, faults + 1}
  BY <1>2, RequestMade, HandlerSteps, SyncGivesUp, SyncAnswered, SyncCompletes, SyncForgets
     DEF Request, SessionStep
<1>3. ASSUME NEW w \in Workers, RunStep(w) \/ RunFault(w)
      PROVE  Accounted /\ faults' \in {faults, faults + 1}
  BY <1>1, <1>3, RunSteps, RunFaults
<1>4. ASSUME UNCHANGED <<wk, sess, delivered, faults>>, \A r \in Rows : Steered(r)
      PROVE  Accounted /\ faults' \in {faults, faults + 1}
  <2>1. \A r \in Rows : (Calling(r)' <=> Calling(r)) /\ (Taken(r)' <=> Taken(r))
    BY <1>4 DEF Calling, Taken
  <2> QED BY <1>4, <2>1, Steering
<1>5. ASSUME NEW r \in Rows, LeaseAges(r) \/ Ripen(r) \/ DeactivateBot(r)
      PROVE  Accounted /\ faults' \in {faults, faults + 1}
  <2>1. UNCHANGED <<wk, sess, delivered, faults>>
    BY <1>5 DEF LeaseAges, Ripen, DeactivateBot
  <2>2. \A q \in Rows : rows'[q].status = rows[q].status
    <3>1. CASE LeaseAges(r)
      <4> DEFINE age == Older[rows[r].lock_expires_at]
      <4>1. rows' = [rows EXCEPT ![r] = [rows[r] EXCEPT !.lock_expires_at = age]]
        BY <1>1, <3>1 DEF LeaseAges, TypeOK
      <4> HIDE DEF age
      <4> QED BY <1>1, <4>1 DEF TypeOK, Row
    <3>2. CASE Ripen(r)
      <4>1. rows' = [rows EXCEPT ![r] = [rows[r] EXCEPT !.next_retry_at = "past"]]
        BY <1>1, <3>2 DEF Ripen, TypeOK
      <4> QED BY <1>1, <4>1 DEF TypeOK, Row
    <3> QED BY <1>5, <3>1, <3>2 DEF DeactivateBot
  <2>3. \A q \in Rows : Steered(q)
    BY <2>2 DEF Steered
  <2> QED BY <1>4, <2>1, <2>3
<1>6. ASSUME UNCHANGED vars
      PROVE  Accounted /\ faults' \in {faults, faults + 1}
  <2>1. UNCHANGED <<wk, sess, delivered, faults>> /\ \A r \in Rows : Steered(r)
    BY <1>6 DEF vars, Steered
  <2> QED BY <1>4, <2>1
<1>7. Accounted /\ faults' \in {faults, faults + 1}
  BY <1>2, <1>3, <1>5, <1>6 DEF Next
<1>8. DeliveriesBounded' /\ SuccessesReal'
  BY <1>1, <1>7, AccountedStep DEF DeliveryInv
<1> QED BY <1>1, <1>7, <1>8 DEF DeliveryInv

LEMMA DeliveryHolds ==
  ASSUME LeasesOutliveRuns
  PROVE  Spec => []DeliveryInv
<1>1. Init => DeliveriesBounded /\ SuccessesReal
  BY DEF Init, DeliveriesBounded, SuccessesReal, Taken, IdleWorker, IdleSession, AbsentRow
<1>2. DeliveryInv /\ [Next]_vars => DeliveryInv'
  BY DeliveryStep
<1>3. Init /\ ExclusionInv => DeliveryInv
  BY <1>1 DEF DeliveryInv
<1> QED BY <1>2, <1>3, ExclusionHolds, PTL DEF Spec

(***************************************************************************)
(* For any number of rows, workers, requests and faults: a message that    *)
(* Telegram took more often than once was taken again because of a fault,  *)
(* one for each time.  Retries, redeliveries, replays and cancellations    *)
(* that race with a send do not repeat it.                                 *)
(***************************************************************************)
THEOREM DuplicatesHaveFaults ==
  ASSUME LeasesOutliveRuns
  PROVE  Spec => []DuplicatesExplained
<1>1. DeliveryInv => DuplicatesExplained
  BY DEF DeliveryInv, DeliveriesBounded, DuplicatesExplained
<1> QED BY <1>1, DeliveryHolds, PTL

(***************************************************************************)
(* For any number of rows, workers and requests: "succeeded" means that    *)
(* Telegram took the message, and without a fault a message it took is     *)
(* not left in a status that will be sent again.                           *)
(***************************************************************************)
THEOREM StatusIsTrue ==
  ASSUME LeasesOutliveRuns
  PROVE  Spec => []StatusTellsDelivery
<1>1. DeliveryInv => StatusTellsDelivery
  <2> SUFFICES ASSUME DeliveryInv, NEW r \in Rows
               PROVE  /\ rows[r].status = "succeeded" => delivered[r] > 0
                      /\ faults = 0 /\ delivered[r] > 0 /\ ~InHand(r) =>
                           rows[r].status \in {"succeeded", "cancelled"}
    BY DEF StatusTellsDelivery
  <2>1. delivered[r] \in Nat
    BY DEF DeliveryInv, ExclusionInv, TypeOK
  <2>2. ASSUME faults = 0, delivered[r] > 0
        PROVE  Spare(r)
    BY <2>1, <2>2 DEF DeliveryInv, DeliveriesBounded
  <2>3. Taken(r) => InHand(r)
    BY DEF Taken, InHand, InFlight
  <2> QED BY <2>2, <2>3 DEF DeliveryInv, SuccessesReal, Spare, Final
<1> QED BY <1>1, DeliveryHolds, PTL

-----------------------------------------------------------------------------
(* Telegram's delay.                                                       *)

\* The second commit of a retry request puts an old delay over the one Telegram just asked for.
RestoresOver ==
  \E s \in Sessions : CommitRestore(s) /\ sess[s].row \in cooling /\ sess[s].prev = "past"

\* A row that cools off waits for its delay, or was cancelled; nobody is sending it, and
\* whoever sends a row writes a delay over what he read.
Waits(row) == row.status = "deferred" /\ row.next_retry_at = "future"
DelayKept ==
  /\ \A r \in cooling : Waits(rows[r]) \/ rows[r].status = "cancelled"
  /\ \A w \in Workers : InFlight(w) =>
       wk[w].row \notin cooling /\ wk[w].snap.next_retry_at # "future"
  /\ \A s \in Sessions : Syncing(sess[s]) => sess[s].row \notin cooling

DelayInv == ExclusionInv /\ DelayKept

\* A step that makes no row cool off, cancels the cooling ones at most, and takes up no such row.
DelayUntouched ==
  /\ cooling' \subseteq cooling
  /\ \A r \in cooling' :
       \/ /\ rows'[r].status = rows[r].status
          /\ rows'[r].next_retry_at \in {rows[r].next_retry_at, "future"}
       \/ rows'[r].status = "cancelled"
  /\ \A w \in Workers : InFlight(w)' =>
       \/ InFlight(w) /\ wk'[w].row = wk[w].row /\ wk'[w].snap = wk[w].snap
       \/ wk'[w].row \notin cooling /\ wk'[w].snap.next_retry_at # "future"
  /\ \A s \in Sessions : Syncing(sess'[s]) =>
       \/ Syncing(sess[s]) /\ sess'[s].row = sess[s].row
       \/ sess'[s].row \notin cooling

LEMMA UntouchedKept == ASSUME DelayKept, DelayUntouched PROVE DelayKept'
BY DEF DelayKept, DelayUntouched, Waits

\* Rows in other statuses than deferred and cancelled do not cool off.
LEMMA NotCooling ==
  ASSUME DelayKept, NEW r, rows[r].status \notin {"deferred", "cancelled"}
  PROVE  r \notin cooling
BY DEF DelayKept, Waits

\* A write reaches next_retry_at and status only where the session changed them.
LEMMA OrmWriteDelay ==
  ASSUME NEW db, NEW read, NEW new
  PROVE  OrmWrite(db, read, new).next_retry_at =
           IF new.next_retry_at # read.next_retry_at THEN new.next_retry_at ELSE db.next_retry_at
BY DEF OrmWrite, Column

\* Runs: what they write goes to rows that do not cool off.
LEMMA UntouchedRun ==
  ASSUME DelayInv, UNCHANGED <<sess, cooling>>, NEW w \in Workers, NEW run,
         wk' = [wk EXCEPT ![w] = run], run.pc \notin {"leased", "accepted"},
         \A r \in cooling : rows'[r] = rows[r]
  PROVE  DelayKept'
<1>1. \A v \in Workers : wk'[v] = wk[v] \/ (v = w /\ wk'[v] = run)
  BY DEF DelayInv, ExclusionInv, TypeOK
<1>2. \A v \in Workers : InFlight(v)' =>
        InFlight(v) /\ wk'[v].row = wk[v].row /\ wk'[v].snap = wk[v].snap
  BY <1>1 DEF InFlight
<1>3. DelayUntouched
  BY <1>2 DEF DelayUntouched
<1> QED BY <1>3, UntouchedKept DEF DelayInv

\* A run that ends or goes on to its next row holds no row.
LEMMA RunLetsGo ==
  ASSUME DelayInv, NEW w \in Workers, EndRun(w) \/ EndRow(w)
  PROVE  \E run : wk' = [wk EXCEPT ![w] = run] /\ run.pc \notin {"leased", "accepted"}
<1>1. CASE EndRun(w)
  <2>1. PICK run : run = IdleWorker
    OBVIOUS
  <2>2. wk' = [wk EXCEPT ![w] = run] /\ run.pc = "idle"
    BY <1>1, <2>1 DEF EndRun, IdleWorker
  <2> QED BY <2>2
<1>2. CASE EndRow(w)
  <2>1. [IdleWorker EXCEPT !.pc = "looping", !.todo = wk[w].todo].pc = "looping"
    BY DEF IdleWorker
  <2>2. IdleWorker.pc = "idle"
    BY DEF IdleWorker
  <2> QED BY <1>2, <2>1, <2>2 DEF EndRow
<1> QED BY <1>1, <1>2

LEMMA RunsKeepDelay ==
  ASSUME DelayInv, NEW w \in Workers,
         \/ StartDueRun(w) \/ CommitStaleRelease(w) \/ EndDueRun(w)
         \/ \E r \in Rows, src \in {"task", "due"} : SkipRow(w, r, src) \/ BotMissing(w, r, src)
         \/ Notified(w) \/ WorkerDies(w) \/ FinishFails(w) \/ CancelledWhileSending(w)
  PROVE  DelayKept'
<1>0. DelayKept /\ wk \in [Workers -> Run] /\ wk[w] \in Run /\ cooling \subseteq Rows
  BY DEF DelayInv, ExclusionInv, TypeOK
<1>1. UNCHANGED <<sess, cooling>>
  BY DEF StartDueRun, CommitStaleRelease, EndDueRun, SkipRow, BotMissing, Notified, WorkerDies,
         FinishFails, CancelledWhileSending
<1>2. CASE CommitStaleRelease(w)
  <2>1. wk[w].pc = "releasing" /\ rows' = Released(wk[w].stale)
    BY <1>2 DEF CommitStaleRelease
  <2>2. \A r \in wk[w].stale : rows[r].status = "sending"
    BY <2>1 DEF DelayInv, ExclusionInv, RunsSound, RunRows
  <2>3. \A r \in cooling : rows'[r] = rows[r]
    BY <1>0, <2>1, <2>2, NotCooling DEF Released
  <2>4. PICK run : run = [IdleWorker EXCEPT !.pc = "looping", !.todo = ReadyRows']
    OBVIOUS
  <2>5. wk' = [wk EXCEPT ![w] = run] /\ run.pc = "looping"
    BY <1>2, <2>4 DEF CommitStaleRelease, IdleWorker
  <2> QED BY <1>1, <2>3, <2>5, UntouchedRun
<1>3. CASE StartDueRun(w)
  <2>1. PICK run : run = [IdleWorker EXCEPT !.pc = "releasing", !.stale = StaleLocks({"stale"})]
    OBVIOUS
  <2>2. wk' = [wk EXCEPT ![w] = run] /\ run.pc = "releasing" /\ UNCHANGED rows
    BY <1>3, <2>1 DEF StartDueRun, IdleWorker
  <2> QED BY <1>1, <2>2, UntouchedRun
<1>4. ASSUME NEW r \in Rows, NEW src \in {"task", "due"}, SkipRow(w, r, src)
      PROVE  DelayKept'
  <2>1. UNCHANGED rows /\ wk[w].pc \in {"idle", "looping"}
    BY <1>4 DEF SkipRow, Takes
  <2>2. PICK run : run = [wk[w] EXCEPT !.todo = @ \ {r}]
    OBVIOUS
  <2>3. run.pc = wk[w].pc
    BY <1>0, <2>2 DEF Run
  <2>4. wk' = [wk EXCEPT ![w] = run] \/ wk' = [wk EXCEPT ![w] = wk[w]]
    BY <1>0, <1>4, <2>2 DEF SkipRow
  <2> QED BY <1>1, <2>1, <2>3, <2>4, UntouchedRun
<1>5. CASE EndDueRun(w) \/ WorkerDies(w)
           \/ \E r \in Rows, src \in {"task", "due"} : BotMissing(w, r, src)
  <2>1. wk' = [wk EXCEPT ![w] = IdleWorker] /\ UNCHANGED rows
    BY <1>5 DEF EndDueRun, WorkerDies, BotMissing
  <2> QED BY <1>1, <2>1, UntouchedRun DEF IdleWorker
<1>6. CASE Notified(w) \/ FinishFails(w) \/ CancelledWhileSending(w)
  <2>1. UNCHANGED rows /\ (EndRun(w) \/ EndRow(w))
    BY <1>6 DEF Notified, FinishFails, CancelledWhileSending
  <2> QED BY <1>1, <2>1, RunLetsGo, UntouchedRun
<1> QED BY <1>2, <1>3, <1>4, <1>5, <1>6

LEMMA WorkersKeepDelay ==
  ASSUME DelayInv, NEW w \in Workers,
         \/ TelegramPermanent(w) \/ TelegramAccepts(w) \/ CompleteSuccess(w)
         \/ DeferLocally(w) \/ CancelledWhileNotifying(w)
  PROVE  DelayKept'
<1>0. /\ DelayKept /\ wk \in [Workers -> Run] /\ wk[w] \in Run /\ cooling \subseteq Rows
      /\ rows \in [Rows -> Row] /\ wk[w].snap \in Row
  BY DEF DelayInv, ExclusionInv, TypeOK, Run
<1>1. UNCHANGED <<sess, cooling>>
  BY DEF TelegramPermanent, TelegramAccepts, CompleteSuccess, DeferLocally,
         CancelledWhileNotifying
<1>2. InFlight(w) => wk[w].row \notin cooling
  BY DEF DelayInv, DelayKept
<1>3. CASE TelegramPermanent(w) \/ DeferLocally(w)
  <2>1. PICK new, outcome : InFlight(w) /\ FinishRow(w, outcome, new)
    BY <1>3 DEF TelegramPermanent, DeferLocally, InFlight
  <2>2. \A r \in cooling : rows'[r] = rows[r]
    BY <1>0, <1>2, <2>1 DEF FinishRow
  <2>3. EndRow(w)
    BY <2>1 DEF FinishRow
  <2> QED BY <1>1, <2>2, <2>3, RunLetsGo, UntouchedRun
<1>4. CASE TelegramAccepts(w)
  <2>1. /\ InFlight(w) /\ UNCHANGED rows
        /\ \A v \in Workers : wk'[v] = IF v = w THEN [wk[w] EXCEPT !.pc = "accepted"] ELSE wk[v]
    BY <1>0, <1>4 DEF TelegramAccepts, InFlight
  <2>2. wk'[w].row = wk[w].row /\ wk'[w].snap = wk[w].snap
    BY <1>0, <2>1 DEF Run
  <2>3. \A v \in Workers : InFlight(v)' =>
          InFlight(v) /\ wk'[v].row = wk[v].row /\ wk'[v].snap = wk[v].snap
    BY <2>1, <2>2 DEF InFlight
  <2>4. DelayUntouched
    BY <1>1, <2>1, <2>3 DEF DelayUntouched
  <2> QED BY <2>4, <1>0, UntouchedKept
<1>5. CASE CompleteSuccess(w)
  <2>1. PICK new : new = MarkSucceeded(wk[w].snap)
    OBVIOUS
  <2>2. /\ InFlight(w)
        /\ rows' = [rows EXCEPT ![wk[w].row] = OrmWrite(rows[wk[w].row], wk[w].snap, new)]
        /\ wk' = [wk EXCEPT ![w] = [wk[w] EXCEPT !.pc = "notifying", !.snap = new]]
    BY <1>0, <1>5, <2>1 DEF CompleteSuccess, InFlight
  <2>3. \A r \in cooling : rows'[r] = rows[r]
    BY <1>0, <1>2, <2>2
  <2>4. PICK run : run = [wk[w] EXCEPT !.pc = "notifying", !.snap = new]
    OBVIOUS
  <2>5. run.pc = "notifying"
    BY <1>0, <2>4 DEF Run
  <2> QED BY <1>1, <2>2, <2>3, <2>4, <2>5, UntouchedRun
<1>6. CASE CancelledWhileNotifying(w)
  <2>1. /\ wk[w].pc = "notifying" /\ wk[w].row \in Rows
        /\ wk[w].snap.status = "succeeded" /\ wk[w].snap.lock_expires_at = "none"
    BY <1>6 DEF CancelledWhileNotifying, DelayInv, ExclusionInv, SnapsSound, RunSnap, TypeOK
  <2>2. MarkSucceeded(wk[w].snap) = wk[w].snap
    BY <1>0, <2>1 DEF MarkSucceeded, Marked, Row
  <2>3. OrmWrite(rows[wk[w].row], wk[w].snap, wk[w].snap) = rows[wk[w].row]
    BY <1>0, <2>1 DEF OrmWrite, Column, Row
  <2>4. UNCHANGED rows
    BY <1>0, <1>6, <2>1, <2>2, <2>3 DEF CancelledWhileNotifying
  <2>5. EndRun(w)
    BY <1>6 DEF CancelledWhileNotifying
  <2> QED BY <1>1, <2>4, <2>5, RunLetsGo, UntouchedRun
<1> QED BY <1>3, <1>4, <1>5, <1>6

\* A lease takes a row that is due.
LEMMA LeaseKeepsDelay ==
  ASSUME DelayInv, NEW w \in Workers, NEW r \in Rows, NEW src, AcquireLease(w, r, src)
  PROVE  DelayKept' /\ r \notin cooling
<1>0. DelayKept /\ wk \in [Workers -> Run] /\ rows \in [Rows -> Row] /\ rows[r] \in Row
  BY DEF DelayInv, ExclusionInv, TypeOK
<1>1. r \notin cooling
  BY <1>0 DEF AcquireLease, CanLease, Leasable, DelayKept, Waits
<1>2. /\ UNCHANGED <<sess, cooling>> /\ \A q \in Rows \ {r} : rows'[q] = rows[q]
      /\ rows[r].next_retry_at # "future"
  BY <1>0 DEF AcquireLease, CanLease
<1>3. Leased(rows[r]).next_retry_at # "future"
  BY <1>0, <1>2 DEF Leased, Row
<1>4. /\ wk'[w].row = r /\ wk'[w].snap = Leased(rows[r])
      /\ \A v \in Workers \ {w} : wk'[v] = wk[v]
  BY <1>0 DEF AcquireLease
<1>5. \A v \in Workers : InFlight(v)' =>
        \/ InFlight(v) /\ wk'[v].row = wk[v].row /\ wk'[v].snap = wk[v].snap
        \/ wk'[v].row \notin cooling /\ wk'[v].snap.next_retry_at # "future"
  BY <1>1, <1>3, <1>4 DEF InFlight
<1>6. DelayUntouched
  BY <1>1, <1>2, <1>5 DEF DelayUntouched, DelayInv, ExclusionInv, TypeOK
<1> QED BY <1>0, <1>1, <1>6, UntouchedKept

\* The one step that makes a row cool off writes its delay, and the row's only worker lets go.
LEMMA TransientSetsDelay ==
  ASSUME DelayInv, NEW w \in Workers, TelegramTransient(w)
  PROVE  DelayKept'
<1>0. /\ DelayKept /\ wk \in [Workers -> Run] /\ cooling \subseteq Rows
      /\ rows \in [Rows -> Row] /\ wk[w].snap \in Row
  BY DEF DelayInv, ExclusionInv, TypeOK, Run
<1>1. /\ wk[w].pc = "leased" /\ InFlight(w) /\ wk[w].row \in Rows /\ UNCHANGED sess
      /\ wk[w].row \notin cooling /\ wk[w].snap.next_retry_at # "future"
      /\ wk[w].snap.status = "sending"
  BY DEF TelegramTransient, InFlight, DelayInv, DelayKept, ExclusionInv, TypeOK, SnapsSound,
         RunSnap
<1>2. PICK run : wk' = [wk EXCEPT ![w] = run] /\ run.pc \notin {"leased", "accepted"}
  BY RunLetsGo DEF TelegramTransient, FinishRow
<1>3. CASE UNCHANGED cooling
  <2>1. \A r \in cooling : rows'[r] = rows[r]
    BY <1>0, <1>1 DEF TelegramTransient, FinishRow
  <2> QED BY <1>1, <1>2, <1>3, <2>1, UntouchedRun
<1>4. CASE FinishRow(w, "deferred", MarkDeferred(wk[w].snap, RetryDue))
           /\ cooling' = cooling \cup {wk[w].row}
  <2> DEFINE r == wk[w].row
             new == MarkDeferred(wk[w].snap, RetryDue)
  <2>1. new.status = "deferred" /\ new.next_retry_at = "future"
    BY <1>0 DEF MarkDeferred, Marked, RetryDue, Row
  <2>2. /\ rows'[r] = OrmWrite(rows[r], wk[w].snap, new)
        /\ \A q \in Rows \ {r} : rows'[q] = rows[q]
    BY <1>0, <1>1, <1>4 DEF FinishRow
  <2>3. Waits(rows'[r])
    BY <1>1, <2>1, <2>2, OrmWriteFields, OrmWriteDelay DEF Waits
  <2> HIDE DEF new
  <2>4. \A q \in cooling' : Waits(rows'[q]) \/ rows'[q].status = "cancelled"
    BY <1>0, <1>1, <1>4, <2>2, <2>3 DEF DelayKept
  <2>5. ASSUME NEW v \in Workers, InFlight(v)'
        PROVE  wk'[v].row \notin cooling' /\ wk'[v].snap.next_retry_at # "future"
    <3>1. v # w /\ wk'[v] = wk[v] /\ InFlight(v)
      BY <1>0, <1>2, <2>5 DEF InFlight
    <3>2. wk[v].row # r
      BY <1>1, <3>1 DEF DelayInv, ExclusionInv, WorkerExclusion
    <3> QED BY <1>0, <1>4, <3>1, <3>2 DEF DelayKept
  <2>6. ASSUME NEW s \in Sessions, Syncing(sess'[s])
        PROVE  sess'[s].row \notin cooling'
    <3>1. Syncing(sess[s]) /\ sess'[s] = sess[s]
      BY <1>1, <2>6
    <3>2. sess[s].row # r
      BY <1>1, <3>1 DEF DelayInv, ExclusionInv, HandlersSound, HandlerRow, Syncing, Held
    <3> QED BY <1>0, <1>4, <3>1, <3>2 DEF DelayKept
  <2> QED BY <2>4, <2>5, <2>6 DEF DelayKept
<1> QED BY <1>3, <1>4 DEF TelegramTransient

\* Requests: a handler that ends or holds on, with a row that does not cool off if it sends.
LEMMA UntouchedHandler ==
  ASSUME DelayInv, UNCHANGED <<wk, cooling>>, NEW s \in Sessions, NEW h,
         sess' = [sess EXCEPT ![s] = h],
         Syncing(h) => h.row \notin cooling,
         \A r \in cooling :
           \/ /\ rows'[r].status = rows[r].status
              /\ rows'[r].next_retry_at \in {rows[r].next_retry_at, "future"}
           \/ rows'[r].status = "cancelled"
  PROVE  DelayKept'
<1>1. \A t \in Sessions : sess'[t] = sess[t] \/ (t = s /\ sess'[t] = h)
  BY DEF DelayInv, ExclusionInv, TypeOK
<1>2. \A v \in Workers : InFlight(v)' = InFlight(v)
  BY DEF InFlight
<1>3. DelayUntouched
  BY <1>1, <1>2 DEF DelayUntouched
<1> QED BY <1>3, UntouchedKept DEF DelayInv

LEMMA HoldsRow ==
  ASSUME NEW s \in Sessions, NEW op, NEW r, NEW snap, NEW prev, Hold(s, op, r, snap, prev)
  PROVE  \E h : sess' = [sess EXCEPT ![s] = h] /\ h.op = op /\ h.row = r
<1>1. PICK h : h = [op |-> op, row |-> r, snap |-> snap, prev |-> prev, stale |-> {}]
  OBVIOUS
<1>2. h.op = op /\ h.row = r
  BY <1>1
<1> QED BY <1>1, <1>2 DEF Hold

LEMMA RequestsKeepDelay ==
  ASSUME DelayInv, NEW s \in Sessions, Request(s)
  PROVE  DelayKept'
<1>0. DelayKept /\ rows \in [Rows -> Row] /\ cooling \subseteq Rows
  BY DEF DelayInv, ExclusionInv, TypeOK
<1>1. ASSUME NEW r \in Rows, NEW mode \in {"sync", "now", "later"}, CreateHistory(s, r, mode)
      PROVE  DelayKept'
  <2>1. r \notin cooling
    BY <1>0, <1>1, NotCooling DEF CreateHistory
  <2>2. \A q \in cooling : rows'[q] = rows[q]
    BY <1>0, <1>1, <2>1 DEF CreateHistory
  <2>3. UNCHANGED <<wk, cooling>>
    BY <1>1 DEF CreateHistory
  <2>4. \E h : sess' = [sess EXCEPT ![s] = h] /\ (Syncing(h) => h.row \notin cooling)
    <3>1. CASE UNCHANGED sess
      <4>1. sess' = [sess EXCEPT ![s] = sess[s]]
        BY <3>1 DEF DelayInv, ExclusionInv, TypeOK
      <4> QED BY <1>0, <4>1 DEF DelayKept
    <3>2. ASSUME NEW op, NEW snap, Hold(s, op, r, snap, "none")
          PROVE  \E h : sess' = [sess EXCEPT ![s] = h] /\ (Syncing(h) => h.row \notin cooling)
      BY <2>1, <3>2, HoldsRow
    <3> QED BY <1>1, <3>1, <3>2 DEF CreateHistory
  <2> QED BY <2>2, <2>3, <2>4, UntouchedHandler
<1>2. CASE \/ \E r \in Rows : ReplayHistory(s, r) \/ ReadForCancel(s, r) \/ ReadForRetry(s, r)
           \/ ReadForRelease(s)
  <2>1. UNCHANGED <<rows, wk, cooling>>
    BY <1>2 DEF ReplayHistory, ReadForCancel, ReadForRetry, ReadForRelease
  <2>2. ASSUME NEW r \in Rows, ReplayHistory(s, r) \/ ReadForCancel(s, r) \/ ReadForRetry(s, r)
        PROVE  DelayKept'
    <3>1. PICK op, snap, prev : Hold(s, op, r, snap, prev) /\ op \notin {"sync", "synced"}
      BY <2>2 DEF ReplayHistory, ReadForCancel, ReadForRetry
    <3>2. PICK h : sess' = [sess EXCEPT ![s] = h] /\ ~Syncing(h)
      BY <3>1, HoldsRow DEF Syncing
    <3> QED BY <2>1, <3>2, UntouchedHandler
  <2>3. CASE ReadForRelease(s)
    <3>1. PICK h : h = [IdleSession EXCEPT !.op = "release", !.stale = StaleLocks({"expired", "stale"})]
      OBVIOUS
    <3>2. sess' = [sess EXCEPT ![s] = h] /\ ~Syncing(h)
      BY <2>3, <3>1 DEF ReadForRelease, IdleSession, Syncing
    <3> QED BY <2>1, <3>2, UntouchedHandler
  <2> QED BY <1>2, <2>2, <2>3
<1> QED BY <1>1, <1>2 DEF Request

LEMMA SessionsKeepDelay ==
  ASSUME DelayInv, NEW s \in Sessions, ~RestoresOver,
         SessionStep(s) \/ SessionDies(s) \/ RipenHeld(s)
  PROVE  DelayKept'
<1>0. /\ DelayKept /\ rows \in [Rows -> Row] /\ cooling \subseteq Rows
      /\ sess[s] \in Handler /\ sess[s].snap \in Row /\ sess \in [Sessions -> Handler]
      /\ HandlerRow(sess[s]) /\ HandlerSnap(sess[s])
      /\ sess[s].op \notin {"idle", "release"} => sess[s].row \in Rows
      /\ Syncing(sess[s]) => sess[s].row \notin cooling
  BY DEF DelayInv, DelayKept, ExclusionInv, TypeOK, HandlersSound, SnapsSound, Handler
<1>1. UNCHANGED <<wk, cooling>>
  BY DEF SessionStep, EnqueueTask, CommitTaskId, SyncAccepted, SyncRefused, SyncSucceeded,
         CommitCancel, CommitRetry, CommitRestore, CommitRelease, SessionDies, RipenHeld
<1>2. ASSUME Answer(s)
      PROVE  \E h : sess' = [sess EXCEPT ![s] = h] /\ ~Syncing(h)
  <2>1. PICK h : h = IdleSession
    OBVIOUS
  <2>2. sess' = [sess EXCEPT ![s] = h]
    BY <1>2, <2>1 DEF Answer
  <2>3. h.op = "idle"
    BY <2>1 DEF IdleSession
  <2> QED BY <2>2, <2>3 DEF Syncing
<1>3. CASE EnqueueTask(s) \/ SyncAccepted(s) \/ RipenHeld(s)
  <2>1. UNCHANGED rows
    BY <1>3 DEF EnqueueTask, SyncAccepted, RipenHeld
  <2>2. \E h : sess' = [sess EXCEPT ![s] = h] /\ (Syncing(h) => h.row \notin cooling)
    <3>1. CASE EnqueueTask(s)
      <4>1. PICK h : h = [sess[s] EXCEPT !.op = "mark"]
        OBVIOUS
      <4>2. sess' = [sess EXCEPT ![s] = h]
        BY <1>0, <3>1, <4>1 DEF EnqueueTask
      <4>3. h.op = "mark" /\ h.row = sess[s].row
        BY <1>0, <4>1 DEF Handler
      <4>4. Syncing(h) => h.row \notin cooling
        BY <1>0, <3>1, <4>3 DEF EnqueueTask, Syncing
      <4> QED BY <4>2, <4>4
    <3>2. CASE SyncAccepted(s)
      <4>1. PICK h : h = [sess[s] EXCEPT !.op = "synced"]
        OBVIOUS
      <4>2. sess' = [sess EXCEPT ![s] = h]
        BY <1>0, <3>2, <4>1 DEF SyncAccepted
      <4>3. h.op = "synced" /\ h.row = sess[s].row
        BY <1>0, <4>1 DEF Handler
      <4>4. Syncing(h) => h.row \notin cooling
        BY <1>0, <3>2, <4>3 DEF SyncAccepted, Syncing
      <4> QED BY <4>2, <4>4
    <3>3. CASE RipenHeld(s)
      <4>1. PICK h : h = [sess[s] EXCEPT !.prev = "past"]
        OBVIOUS
      <4>2. sess' = [sess EXCEPT ![s] = h]
        BY <1>0, <3>3, <4>1 DEF RipenHeld
      <4>3. h.op = sess[s].op /\ h.row = sess[s].row
        BY <1>0, <4>1 DEF Handler
      <4>4. Syncing(h) => h.row \notin cooling
        BY <1>0, <4>3 DEF Syncing
      <4> QED BY <4>2, <4>4
    <3> QED BY <1>3, <3>1, <3>2, <3>3
  <2> QED BY <1>1, <2>1, <2>2, UntouchedHandler
<1>4. CASE SessionDies(s)
  BY <1>1, <1>2, <1>4, UntouchedHandler DEF SessionDies
<1>5. CASE CommitRelease(s)
  <2>1. \A r \in sess[s].stale : rows[r].status = "sending"
    BY <1>0, <1>5 DEF CommitRelease, HandlerRow
  <2>2. \A r \in cooling : rows'[r] = rows[r]
    BY <1>0, <1>5, <2>1, NotCooling DEF CommitRelease, Released
  <2> QED BY <1>1, <1>2, <1>5, <2>2, UntouchedHandler DEF CommitRelease
<1>6. CASE SyncRefused(s) \/ SyncSucceeded(s)
  <2>1. sess[s].row \notin cooling
    BY <1>0, <1>6 DEF SyncRefused, SyncSucceeded, Syncing
  <2>2. \A r \in cooling : rows'[r] = rows[r]
    BY <1>0, <1>6, <2>1 DEF SyncRefused, SyncSucceeded, Commit
  <2> QED BY <1>1, <1>2, <1>6, <2>2, UntouchedHandler DEF SyncRefused, SyncSucceeded
<1>7. ASSUME NEW new, Commit(s, new), sess[s].row \in Rows
      PROVE  /\ rows'[sess[s].row] = OrmWrite(rows[sess[s].row], sess[s].snap, new)
             /\ \A r \in Rows : r # sess[s].row => rows'[r] = rows[r]
  BY <1>0, <1>7 DEF Commit
<1>8. CASE CommitTaskId(s)
  <2>1. PICK new : new = MarkQueued(sess[s].snap)
    OBVIOUS
  <2>2. new.status = sess[s].snap.status /\ new.next_retry_at = sess[s].snap.next_retry_at
    BY <1>0, <1>8, <2>1 DEF CommitTaskId, HandlerSnap, MarkQueued, Row
  <2>3. Commit(s, new) /\ sess[s].row \in Rows
    BY <1>0, <1>8, <2>1 DEF CommitTaskId
  <2>4. /\ rows'[sess[s].row].status = rows[sess[s].row].status
        /\ rows'[sess[s].row].next_retry_at = rows[sess[s].row].next_retry_at
    BY <1>7, <2>2, <2>3, OrmWriteFields, OrmWriteDelay
  <2>5. \A r \in cooling : /\ rows'[r].status = rows[r].status
                           /\ rows'[r].next_retry_at = rows[r].next_retry_at
    BY <1>0, <1>7, <2>3, <2>4
  <2> QED BY <1>1, <1>2, <1>8, <2>5, UntouchedHandler DEF CommitTaskId
<1>9. CASE CommitCancel(s)
  <2>1. PICK new : new = MarkCancelled(sess[s].snap)
    OBVIOUS
  <2>2. new.status = "cancelled" /\ sess[s].snap.status # "cancelled"
    BY <1>0, <1>9, <2>1, MarkFields DEF CommitCancel, HandlerSnap, Cancellable
  <2>3. Commit(s, new) /\ sess[s].row \in Rows
    BY <1>0, <1>9, <2>1 DEF CommitCancel
  <2>4. rows'[sess[s].row].status = "cancelled"
    BY <1>7, <2>2, <2>3, OrmWriteFields
  <2>5. \A r \in cooling : rows'[r] = rows[r] \/ rows'[r].status = "cancelled"
    BY <1>0, <1>7, <2>3, <2>4
  <2> QED BY <1>1, <1>2, <1>9, <2>5, UntouchedHandler DEF CommitCancel
<1>10. CASE CommitRetry(s)
  <2>1. sess[s].row \in Rows /\ sess[s].row \notin cooling
    BY <1>0, <1>10, NotCooling DEF CommitRetry, HandlerRow, Retryable
  <2>2. \A r \in cooling : rows'[r] = rows[r]
    BY <1>0, <1>7, <1>10, <2>1 DEF CommitRetry
  <2>3. \E h : sess' = [sess EXCEPT ![s] = h] /\ ~Syncing(h)
    BY <1>10 DEF CommitRetry, Hold, Syncing
  <2> QED BY <1>1, <2>2, <2>3, UntouchedHandler
<1>11. CASE CommitRestore(s)
  <2>1. PICK new : new = [sess[s].snap EXCEPT !.next_retry_at = sess[s].prev]
    OBVIOUS
  <2>2. new.status = sess[s].snap.status /\ new.next_retry_at = sess[s].prev
    BY <1>0, <2>1 DEF Row
  <2>3. Commit(s, new) /\ sess[s].row \in Rows /\ sess[s].prev \in {"past", "future"}
    BY <1>0, <1>11, <2>1 DEF CommitRestore
  <2>4. /\ rows'[sess[s].row].status = rows[sess[s].row].status
        /\ rows'[sess[s].row].next_retry_at \in {rows[sess[s].row].next_retry_at, sess[s].prev}
    BY <1>7, <2>2, <2>3, OrmWriteFields, OrmWriteDelay
  <2>5. sess[s].row \in cooling => sess[s].prev = "future"
    BY <1>11, <2>3 DEF RestoresOver
  <2>6. \A r \in cooling : /\ rows'[r].status = rows[r].status
                           /\ rows'[r].next_retry_at \in {rows[r].next_retry_at, "future"}
    BY <1>0, <1>7, <2>3, <2>4, <2>5
  <2>7. \E h : sess' = [sess EXCEPT ![s] = h] /\ ~Syncing(h)
    BY <1>2, <1>11 DEF CommitRestore, Hold, Syncing
  <2> QED BY <1>1, <2>6, <2>7, UntouchedHandler
<1> QED
  BY <1>3, <1>4, <1>5, <1>6, <1>8, <1>9, <1>10, <1>11 DEF SessionStep

LEMMA TimeKeepsDelay ==
  ASSUME DelayInv, NEW r \in Rows, LeaseAges(r) \/ Ripen(r) \/ DeactivateBot(r)
  PROVE  DelayKept'
<1>0. DelayKept /\ rows \in [Rows -> Row] /\ rows[r] \in Row /\ cooling \subseteq Rows
  BY DEF DelayInv, ExclusionInv, TypeOK
<1>1. UNCHANGED <<wk, sess>> /\ cooling' \subseteq cooling
  BY DEF LeaseAges, Ripen, DeactivateBot
<1>2. \A q \in cooling' : /\ rows'[q].status = rows[q].status
                          /\ rows'[q].next_retry_at = rows[q].next_retry_at
  <2>1. CASE LeaseAges(r)
    <3>1. PICK age : age = Older[rows[r].lock_expires_at]
      OBVIOUS
    <3>2. rows' = [rows EXCEPT ![r] = [rows[r] EXCEPT !.lock_expires_at = age]]
      BY <1>0, <2>1, <3>1 DEF LeaseAges
    <3>3. UNCHANGED cooling
      BY <2>1 DEF LeaseAges
    <3> QED BY <1>0, <3>2, <3>3 DEF Row
  <2>2. CASE Ripen(r)
    <3>1. cooling' = cooling \ {r} /\ \A q \in Rows : q # r => rows'[q] = rows[q]
      BY <1>0, <2>2 DEF Ripen
    <3> QED BY <1>0, <3>1
  <2>3. CASE DeactivateBot(r)
    BY <2>3 DEF DeactivateBot
  <2> QED BY <2>1, <2>2, <2>3
<1>3. \A v \in Workers : InFlight(v)' = InFlight(v)
  BY <1>1 DEF InFlight
<1>4. DelayUntouched
  BY <1>1, <1>2, <1>3 DEF DelayUntouched
<1> QED BY <1>0, <1>4, UntouchedKept

LEMMA DelayStep ==
  ASSUME LeasesOutliveRuns, DelayInv, [Next]_vars, ~RestoresOver
  PROVE  DelayInv'
<1>1. ExclusionInv'
  BY ExclusionStep DEF DelayInv
<1>2. CASE UNCHANGED vars
  <2>1. DelayUntouched
    BY <1>2 DEF vars, DelayUntouched, InFlight
  <2> QED BY <1>1, <2>1, UntouchedKept DEF DelayInv
<1>3. ASSUME NEW s \in Sessions, Request(s) \/ SessionStep(s) \/ SessionDies(s) \/ RipenHeld(s)
      PROVE  DelayKept'
  BY <1>3, RequestsKeepDelay, SessionsKeepDelay
<1>4. ASSUME NEW w \in Workers, RunStep(w) \/ RunFault(w)
      PROVE  DelayKept'
  BY <1>4, RunsKeepDelay, WorkersKeepDelay, LeaseKeepsDelay, TransientSetsDelay
     DEF RunStep, RunFault
<1> QED BY <1>1, <1>2, <1>3, <1>4, TimeKeepsDelay DEF Next, DelayInv

\* No run gets a lease but by AcquireLease.
LEMMA OnlyLeasesLease ==
  ASSUME TypeOK, [Next]_vars, NEW w \in Workers, wk'[w].pc = "leased", wk[w].pc # "leased"
  PROVE  \E r \in Rows, src \in {"task", "due"} : AcquireLease(w, r, src) /\ wk'[w].row = r
<1>1. CASE UNCHANGED wk
  BY <1>1
<1>2. ASSUME NEW v \in Workers, NEW run, wk' = [wk EXCEPT ![v] = run], run.pc # "leased"
      PROVE  FALSE
  BY <1>2 DEF TypeOK
<1>3. ASSUME NEW v \in Workers, EndRun(v) \/ EndRow(v)
      PROVE  FALSE
  <2>1. [IdleWorker EXCEPT !.pc = "looping", !.todo = wk[v].todo].pc = "looping"
        /\ IdleWorker.pc = "idle"
    BY DEF IdleWorker
  <2> QED BY <1>2, <1>3, <2>1 DEF EndRun, EndRow
<1>4. ASSUME NEW v \in Workers, RunFault(v)
      PROVE  FALSE
  BY <1>2, <1>3, <1>4
     DEF RunFault, DeferLocally, FinishRow, CancelledWhileNotifying, CancelledWhileSending,
         FinishFails, WorkerDies, IdleWorker
<1>5. ASSUME NEW v \in Workers, RunStep(v)
      PROVE  \E r \in Rows, src \in {"task", "due"} : AcquireLease(w, r, src) /\ wk'[w].row = r
  <2>1. CASE TelegramTransient(v) \/ TelegramPermanent(v) \/ Notified(v)
    BY <1>3, <2>1 DEF TelegramTransient, TelegramPermanent, FinishRow, Notified
  <2>2. CASE EndDueRun(v) \/ \E r \in Rows, src \in {"task", "due"} : BotMissing(v, r, src)
    BY <1>2, <2>2 DEF EndDueRun, BotMissing, IdleWorker
  <2>3. CASE StartDueRun(v)
    <3>1. PICK run : run = [IdleWorker EXCEPT !.pc = "releasing", !.stale = StaleLocks({"stale"})]
      OBVIOUS
    <3> QED BY <1>2, <2>3, <3>1 DEF StartDueRun, IdleWorker
  <2>4. CASE CommitStaleRelease(v)
    <3>1. PICK run : run = [IdleWorker EXCEPT !.pc = "looping", !.todo = ReadyRows']
      OBVIOUS
    <3> QED BY <1>2, <2>4, <3>1 DEF CommitStaleRelease, IdleWorker
  <2>5. CASE TelegramAccepts(v)
    <3>1. wk[v] \in Run
      BY DEF TypeOK
    <3>2. wk'[v].pc = "accepted" /\ \A u \in Workers \ {v} : wk'[u] = wk[u]
      BY <2>5, <3>1 DEF TelegramAccepts, TypeOK, Run
    <3> QED BY <3>2
  <2>6. CASE CompleteSuccess(v)
    <3>1. wk[v] \in Run
      BY DEF TypeOK
    <3>2. PICK new : new = MarkSucceeded(wk[v].snap)
      OBVIOUS
    <3>3. wk' = [wk EXCEPT ![v] = [wk[v] EXCEPT !.pc = "notifying", !.snap = new]]
      BY <2>6, <3>2 DEF CompleteSuccess, TypeOK
    <3>4. [wk[v] EXCEPT !.pc = "notifying", !.snap = new].pc = "notifying"
      BY <3>1 DEF Run
    <3> QED BY <1>2, <3>3, <3>4
  <2>7. ASSUME NEW r \in Rows, NEW src \in {"task", "due"}, SkipRow(v, r, src)
        PROVE  FALSE
    <3>1. wk[v] \in Run
      BY DEF TypeOK
    <3>2. PICK run : run = [wk[v] EXCEPT !.todo = @ \ {r}]
      OBVIOUS
    <3>3. run.pc = wk[v].pc
      BY <3>1, <3>2 DEF Run
    <3>4. wk' = [wk EXCEPT ![v] = run] \/ wk' = wk
      BY <2>7, <3>2 DEF SkipRow, TypeOK
    <3>5. \A u \in Workers : wk'[u].pc = wk[u].pc
      BY <3>3, <3>4 DEF TypeOK
    <3> QED BY <3>5
  <2>8. ASSUME NEW r \in Rows, NEW src \in {"task", "due"}, AcquireLease(v, r, src)
        PROVE  v = w /\ wk'[w].row = r
    BY <2>8 DEF AcquireLease, TypeOK
  <2> QED BY <1>5, <2>1, <2>2, <2>3, <2>4, <2>5, <2>6, <2>7, <2>8 DEF RunStep
<1>6. ASSUME NEW s \in Sessions, Request(s) \/ SessionStep(s) \/ SessionDies(s) \/ RipenHeld(s)
      PROVE  UNCHANGED wk
  BY <1>6 DEF Request, CreateHistory, ReplayHistory, ReadForCancel, ReadForRetry, ReadForRelease,
     SessionStep, EnqueueTask, CommitTaskId, SyncAccepted, SyncRefused, SyncSucceeded,
     CommitCancel, CommitRetry, CommitRestore, CommitRelease, SessionDies, RipenHeld
<1>7. ASSUME NEW r \in Rows, LeaseAges(r) \/ Ripen(r) \/ DeactivateBot(r)
      PROVE  UNCHANGED wk
  BY <1>7 DEF LeaseAges, Ripen, DeactivateBot
<1> QED BY <1>1, <1>4, <1>5, <1>6, <1>7 DEF Next, vars

LEMMA LeasesWait ==
  ASSUME DelayInv, [Next]_vars
  PROVE  \A w \in Workers : wk'[w].pc = "leased" /\ wk[w].pc # "leased" => wk'[w].row \notin cooling
<1> SUFFICES ASSUME NEW w \in Workers, wk'[w].pc = "leased", wk[w].pc # "leased"
             PROVE  wk'[w].row \notin cooling
  OBVIOUS
<1>1. PICK r \in Rows, src \in {"task", "due"} : AcquireLease(w, r, src) /\ wk'[w].row = r
  BY OnlyLeasesLease DEF DelayInv, ExclusionInv
<1> QED BY <1>1, LeaseKeepsDelay

LEMMA DelayStart == Init => DelayKept
BY DEF Init, DelayKept, InFlight, Syncing, IdleWorker, IdleSession

(***************************************************************************)
(* For any number of rows, workers, requests and attempts: no worker takes *)
(* a row before the delay that Telegram asked for has passed, unless the   *)
(* second commit of a retry request wrote an old delay over it.  That it   *)
(* may is the counterexample of the restore_race run.                      *)
(***************************************************************************)
THEOREM OnlyRestoresCutDelays ==
  ASSUME LeasesOutliveRuns
  PROVE  Spec /\ [][~RestoresOver]_vars => RetryAfterHonoured
<1>1. DelayInv /\ [Next]_vars /\ [~RestoresOver]_vars => DelayInv'
  <2>1. ASSUME DelayInv, UNCHANGED vars PROVE DelayInv'
    <3>1. [Next]_vars
      BY <2>1
    <3>2. ExclusionInv'
      BY <2>1, <3>1, ExclusionStep DEF DelayInv
    <3>3. DelayUntouched
      BY <2>1 DEF vars, DelayUntouched, InFlight
    <3> QED BY <2>1, <3>2, <3>3, UntouchedKept DEF DelayInv
  <2> QED BY <2>1, DelayStep
<1>2. DelayInv /\ [Next]_vars =>
        [\A w \in Workers : wk'[w].pc = "leased" /\ wk[w].pc # "leased" =>
                            wk'[w].row \notin cooling]_vars
  BY LeasesWait
<1>3. Init /\ ExclusionInv => DelayInv
  BY DelayStart DEF DelayInv
<1> QED BY <1>1, <1>2, <1>3, ExclusionHolds, PTL DEF Spec, RetryAfterHonoured

\* Where nobody asks for retries there is no such commit.
Unretried == TypeOK /\ \A s \in Sessions : sess[s].op \notin {"retry", "restore"}

LEMMA UnretriedStep ==
  ASSUME "retry" \notin OperatorOps, Unretried, [Next]_vars
  PROVE  Unretried' /\ ~RestoresOver
<1>0. sess \in [Sessions -> Handler] /\ \A s \in Sessions : sess[s] \in Handler
  BY DEF Unretried, TypeOK
<1>1. TypeOK'
  BY TypeStep DEF Unretried
<1>2. ASSUME NEW s \in Sessions, NEW h, sess' = [sess EXCEPT ![s] = h],
             h.op \notin {"retry", "restore"}
      PROVE  Unretried'
  BY <1>0, <1>1, <1>2 DEF Unretried
<1>3. ASSUME UNCHANGED sess PROVE Unretried'
  BY <1>1, <1>3 DEF Unretried
<1>4. ASSUME NEW s \in Sessions, Answer(s) PROVE Unretried'
  BY <1>2, <1>4 DEF Answer, IdleSession
<1>5. ASSUME NEW s \in Sessions, Request(s) PROVE Unretried'
  <2>1. ASSUME NEW r \in Rows, NEW mode \in {"sync", "now", "later"}, CreateHistory(s, r, mode)
        PROVE  Unretried'
    BY <1>2, <1>3, <2>1 DEF CreateHistory, Hold
  <2>2. ASSUME NEW r \in Rows, ReplayHistory(s, r) \/ ReadForCancel(s, r) PROVE Unretried'
    BY <1>2, <2>2 DEF ReplayHistory, ReadForCancel, Hold
  <2>3. ASSUME NEW r \in Rows PROVE ~ReadForRetry(s, r)
    BY DEF ReadForRetry, Operator
  <2>4. CASE ReadForRelease(s)
    BY <1>2, <2>4 DEF ReadForRelease, IdleSession
  <2> QED BY <1>5, <2>1, <2>2, <2>3, <2>4 DEF Request
<1>6. ASSUME NEW s \in Sessions, SessionStep(s) \/ SessionDies(s) \/ RipenHeld(s)
      PROVE  Unretried'
  <2>1. CASE CommitRetry(s) \/ CommitRestore(s)
    BY <2>1 DEF CommitRetry, CommitRestore, Unretried
  <2>2. CASE EnqueueTask(s) \/ SyncAccepted(s) \/ RipenHeld(s)
    BY <1>0, <1>1, <2>2 DEF EnqueueTask, SyncAccepted, RipenHeld, Unretried, Handler
  <2>3. CASE CommitTaskId(s) \/ SyncRefused(s) \/ SyncSucceeded(s) \/ CommitCancel(s)
             \/ CommitRelease(s) \/ SessionDies(s)
    BY <1>4, <2>3 DEF CommitTaskId, SyncRefused, SyncSucceeded, CommitCancel, CommitRelease,
                      SessionDies
  <2> QED BY <1>6, <2>1, <2>2, <2>3 DEF SessionStep
<1>7. ASSUME NEW w \in Workers, RunStep(w) \/ RunFault(w) PROVE UNCHANGED sess
  BY <1>7 DEF RunStep, StartDueRun, CommitStaleRelease, EndDueRun, AcquireLease, SkipRow,
     BotMissing, TelegramTransient, TelegramPermanent, TelegramAccepts, CompleteSuccess,
     Notified, RunFault, DeferLocally, CancelledWhileNotifying, CancelledWhileSending,
     FinishFails, WorkerDies
<1>8. ASSUME NEW r \in Rows, LeaseAges(r) \/ Ripen(r) \/ DeactivateBot(r) PROVE UNCHANGED sess
  BY <1>8 DEF LeaseAges, Ripen, DeactivateBot
<1>9. Unretried'
  BY <1>3, <1>5, <1>6, <1>7, <1>8 DEF Next, vars
<1>10. ~RestoresOver
  BY DEF RestoresOver, CommitRestore, Unretried
<1> QED BY <1>9, <1>10

(***************************************************************************)
(* So where no operator retries rows, retry_after is a lower bound: no     *)
(* worker leases a row before the delay it was deferred with has passed.   *)
(***************************************************************************)
THEOREM DelaysAreWaited ==
  ASSUME LeasesOutliveRuns, "retry" \notin OperatorOps
  PROVE  Spec => RetryAfterHonoured
<1>1. Init => Unretried
  BY InitSound DEF Init, Unretried, IdleSession
<1>2. Unretried /\ [Next]_vars => Unretried' /\ [~RestoresOver]_vars
  BY UnretriedStep
<1> QED BY <1>1, <1>2, OnlyRestoresCutDelays, PTL DEF Spec

=============================================================================
