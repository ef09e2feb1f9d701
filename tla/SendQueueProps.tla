--------------------------- MODULE SendQueueProps ---------------------------
(***************************************************************************)
(* What the send queue promises.  The properties are stated over the       *)
(* module SendQueue; the comment on each names the code it is about.       *)
(***************************************************************************)
EXTENDS SendQueue

(***************************************************************************)
(* One worker per row: between the commit of a lease and the commit that   *)
(* ends it, no other worker run holds the same row.  Rests on the          *)
(* compare-and-set of acquire_due_lease and on release_stale_locks, the    *)
(* mark_* writes, cancel and retry never clearing a lease still in use.    *)
(***************************************************************************)
WorkerExclusion ==
  \A v, w \in Workers : v # w /\ InFlight(v) /\ InFlight(w) => wk[v].row # wk[w].row

(***************************************************************************)
(* No row is stranded: a row in "sending" always has a lock_expires_at, so *)
(* list_stale_locks can find it again whatever died or raced.              *)
(***************************************************************************)
NoOrphanedSending ==
  \A r \in Rows : rows[r].status = "sending" => rows[r].lock_expires_at # "none"

(***************************************************************************)
(* Attempt numbers identify attempts: runs in flight on one row carry      *)
(* different numbers, and the send_attempts table has at most one record   *)
(* of each, even when completion is repeated after a cancellation.         *)
(***************************************************************************)
AttemptsDistinct ==
  /\ \A v, w \in Workers :
        v # w /\ InFlight(v) /\ InFlight(w) /\ wk[v].row = wk[w].row => Attempt(v) # Attempt(w)
  /\ \A r \in Rows : \A i, j \in DOMAIN log[r] :
        i # j => log[r][i].attempt # log[r][j].attempt

(***************************************************************************)
(* The journal tells what Telegram took, in every environment.  Attempts   *)
(* have numbers of their own, and each attempt Telegram accepted is one    *)
(* delivery: it is recorded in send_attempts as succeeded or its run has   *)
(* it in hand.  What was delivered beyond these has a fault for a cause.   *)
(* The request's own, synchronous send is not recorded: a row it delivered *)
(* is one no worker ever leases.                                           *)
(***************************************************************************)
AttemptsTaken(r) ==
  {log[r][i].attempt : i \in {j \in DOMAIN log[r] : log[r][j].outcome = "succeeded"}}
    \cup {Attempt(w) : w \in {v \in Workers : wk[v].pc = "accepted" /\ wk[v].row = r}}

DeliveriesAccounted ==
  \A r \in Rows :
    LET taken == Cardinality(AttemptsTaken(r))
        own == IF rows[r].attempt_count = 0 THEN 1 ELSE 0
    IN  /\ AttemptsTaken(r) \subseteq 1 .. rows[r].attempt_count
        /\ taken <= delivered[r]
        /\ delivered[r] <= taken + own + faults

JournalTells == AttemptsDistinct /\ DeliveriesAccounted

(***************************************************************************)
(* The status tells the truth about Telegram: "succeeded" means it took    *)
(* the message, and once nobody works on a row whose message was taken,    *)
(* the row is not left failed, blocked, deferred, queued or sending.  Only *)
(* a fault (lost answer, crash, failed commit) may leave it so; a cancel   *)
(* that raced with the send shows as cancelled.                            *)
(***************************************************************************)
InHand(r) ==
  \/ \E w \in Workers : InFlight(w) /\ wk[w].row = r
  \/ \E s \in Sessions : sess[s].op = "synced" /\ sess[s].row = r

StatusTellsDelivery ==
  \A r \in Rows :
    /\ rows[r].status = "succeeded" => delivered[r] > 0
    /\ faults = 0 /\ delivered[r] > 0 /\ ~InHand(r) =>
         rows[r].status \in {"succeeded", "cancelled"}

(***************************************************************************)
(* Duplicates have a cause: a message reaches Telegram once, plus at most  *)
(* once for every fault (lost answer, crash, cancellation, failed commit). *)
(* Retries, redelivered stream messages, replays and overlapping runs      *)
(* alone never send it twice.                                              *)
(***************************************************************************)
DuplicatesExplained == \A r \in Rows : delivered[r] <= 1 + faults

(***************************************************************************)
(* Telegram's retry_after is a lower bound: no worker leases a row before  *)
(* the delay it was deferred with has passed.                              *)
(***************************************************************************)
RetryAfterHonoured ==
  [][\A w \in Workers : wk'[w].pc = "leased" /\ wk[w].pc # "leased" =>
                        wk'[w].row \notin cooling]_vars

(***************************************************************************)
(* A queued message is settled: whatever dies, the scheduler's runs bring  *)
(* every queued, deferred or leased row to a final status.                 *)
(***************************************************************************)
QueuedRowsSettle ==
  \A r \in Rows : rows[r].status \in {"queued", "deferred", "sending"} ~>
                  rows[r].status \in Settled

(***************************************************************************)
(* The queue implements its contract: leases, streams, clocks and stale    *)
(* row objects never let a row do what SendContract does not allow, as     *)
(* long as leases outlive runs and maintenance is serial.                  *)
(***************************************************************************)
Hand(r) ==
  CASE (\E w \in Workers : wk[w].row = r /\ wk[w].pc = "accepted")
         \/ (\E s \in Sessions : sess[s].row = r /\ sess[s].op = "synced") -> "taken"
    [] (\E w \in Workers : wk[w].row = r /\ wk[w].pc = "leased")
         \/ (\E s \in Sessions : sess[s].row = r /\ sess[s].op = "sync") -> "calling"
    [] OTHER -> "free"

Over(r) == rows[r].status \in {"succeeded", "cancelled"} /\ Hand(r) = "free"

Contract == INSTANCE SendContract WITH
  MaxLapses <- MaxFaults,
  MaxClosers <- Cardinality(Sessions),
  status <- [r \in Rows |-> rows[r].status],
  hand <- [r \in Rows |-> Hand(r)],
  started <- {r \in Rows : rows[r].attempt_count > 0},
  closers <- [r \in Rows |-> Cardinality({s \in Sessions :
                                           sess[s].op = "cancel" /\ sess[s].row = r})],
  accepted <- delivered,
  lapses <- faults

ImplementsContract == Contract!ContractSpec

(***************************************************************************)
(* Ends are final.  No retry, release or late worker takes a succeeded row *)
(* back; a cancel that read the row earlier may still overwrite it.  And a *)
(* row that succeeded or was cancelled, once nobody has it in hand, is     *)
(* never taken in hand again: no stream message, due list, replayed        *)
(* request, retry or stale copy of it that is still around gives it to     *)
(* Telegram, and a cancelled one stays cancelled.                          *)
(***************************************************************************)
EndsAreFinal ==
  [][\A r \in Rows :
       /\ rows[r].status = "succeeded" => rows'[r].status \in {"succeeded", "cancelled"}
       /\ Over(r) => /\ Over(r)' /\ delivered'[r] = delivered[r]
                     /\ rows[r].status = "cancelled" => rows'[r].status = "cancelled"]_vars

(***************************************************************************)
(* Claims of the repository's documents that the code does not keep.       *)
(***************************************************************************)

\* A row cancelled before any worker took it is not processed.
CancelledNotProcessed ==
  [][\A r \in Rows : rows[r].status = "cancelled" => rows'[r].status = "cancelled"]_vars

\* A queued row whose bot is inactive moves to blocked.
InactiveBotBlocks ==
  \A r \in Rows : rows[r].status \in Ready /\ r \in inactive ~> rows[r].status \notin Ready

\* An exhausted retry budget moves a row to dead_letter.
RetryBudget == \A r \in Rows : rows[r].attempt_count <= MaxAttempts

=============================================================================
