---------------------------- MODULE SendContract ----------------------------
(***************************************************************************)
(* What the send queue promises to those who create and steer rows: the    *)
(* life of a send_history row without leases, clocks, streams or worker    *)
(* runs.  SendQueueProps shows that SendQueue implements it while leases   *)
(* outlive runs; SendBatch is built on it.                                 *)
(*                                                                         *)
(* A lapse is whatever may hide from the database what Telegram did: a     *)
(* lost answer, a crash, a cancellation, a failed commit.                  *)
(***************************************************************************)
EXTENDS Naturals

CONSTANTS
  Rows,       \* ids of send_history rows
  MaxLapses,  \* bound: lapses
  MaxClosers  \* bound: cancel requests on one row at a time

ASSUME ContractAssumption == MaxLapses \in Nat /\ MaxClosers \in Nat

VARIABLES
  status,    \* the status column
  hand,      \* whether a sender has the row in hand, and whether Telegram took it
  started,   \* rows a worker run has leased at least once
  closers,   \* how many cancel requests found the row cancellable, not yet written
  accepted,  \* how often Telegram took the row's message
  lapses

contractVars == <<status, hand, started, closers, accepted, lapses>>

Waiting == {"queued", "deferred"}
\* Mutant: cancelling forgets the rows nobody has taken.
CancellableDeferred == {"created", "deferred"}
Cancellable == {"created", "queued", "deferred"}
Refusals == {"deferred", "failed", "blocked", "dead_letter"}
Retryable == {"failed", "blocked", "dead_letter"}

RowStatus == {"absent", "created", "queued", "sending", "succeeded", "cancelled"} \cup Refusals

ContractTypeOK ==
  /\ status \in [Rows -> RowStatus]
  /\ hand \in [Rows -> {"free", "calling", "taken"}]
  /\ started \subseteq Rows
  /\ closers \in [Rows -> 0..MaxClosers]
  /\ accepted \in [Rows -> Nat]
  /\ lapses \in 0..MaxLapses

ContractInit ==
  /\ status = [r \in Rows |-> "absent"]
  /\ hand = [r \in Rows |-> "free"]
  /\ started = {}
  /\ closers = [r \in Rows |-> 0]
  /\ accepted = [r \in Rows |-> 0]
  /\ lapses = 0

Becomes(r, s) == status' = [status EXCEPT ![r] = s]
Passes(r, h) == hand' = [hand EXCEPT ![r] = h]
Accepts(r, times) == accepted' = [accepted EXCEPT ![r] = @ + times]
Lapsed == lapses < MaxLapses /\ lapses' = lapses + 1

CreateQueued(r) ==
  /\ status[r] = "absent"
  /\ Becomes(r, "queued")
  /\ UNCHANGED <<hand, started, closers, accepted, lapses>>

\* The request that creates a synchronous row sends it itself.
CreateSync(r) ==
  /\ status[r] = "absent"
  /\ Becomes(r, "created") /\ Passes(r, "calling")
  /\ UNCHANGED <<started, closers, accepted, lapses>>

Start(r) ==
  /\ status[r] \in Waiting /\ hand[r] = "free"
  /\ Becomes(r, "sending") /\ Passes(r, "calling")
  /\ started' = started \cup {r}
  /\ UNCHANGED <<closers, accepted, lapses>>

\* A call that timed out is repeated at the fallback URL, and both may arrive.
Take(r) ==
  /\ hand[r] = "calling"
  /\ Passes(r, "taken")
  /\ \/ Accepts(r, 1) /\ UNCHANGED lapses
     \/ Accepts(r, 2) /\ Lapsed
  /\ UNCHANGED <<status, started, closers>>

Refuse(r) ==
  /\ hand[r] = "calling"
  /\ Passes(r, "free")
  /\ \E s \in Refusals : Becomes(r, s)
  /\ \/ UNCHANGED <<accepted, lapses>>
     \/ UNCHANGED accepted /\ Lapsed
     \/ Accepts(r, 1) /\ Lapsed
  /\ UNCHANGED <<started, closers>>

Succeed(r) ==
  /\ hand[r] = "taken"
  /\ Passes(r, "free") /\ Becomes(r, "succeeded")
  /\ UNCHANGED <<started, closers, accepted, lapses>>

\* The sender is gone and the row is as it was.
Drop(r) ==
  /\ hand[r] # "free" /\ Lapsed
  /\ Passes(r, "free")
  /\ UNCHANGED accepted \/ (hand[r] = "calling" /\ Accepts(r, 1))
  /\ UNCHANGED <<status, started, closers>>

\* Mutant: a row somebody has in hand is released too.
ReleaseInHand(stale) ==
  /\ stale # {} /\ \A r \in stale : status[r] = "sending"
  /\ status' = [r \in Rows |-> IF r \in stale THEN "queued" ELSE status[r]]
  /\ hand' = [r \in Rows |-> IF r \in stale THEN "free" ELSE hand[r]]
  /\ UNCHANGED <<started, closers, accepted, lapses>>

\* One release frees several rows that no sender has in hand.
Release(stale) ==
  /\ stale # {} /\ \A r \in stale : status[r] = "sending" /\ hand[r] = "free"
  /\ status' = [r \in Rows |-> IF r \in stale THEN "queued" ELSE status[r]]
  /\ UNCHANGED <<hand, started, closers, accepted, lapses>>

Retry(r) ==
  /\ status[r] \in Retryable
  /\ Becomes(r, "queued")
  /\ UNCHANGED <<hand, started, closers, accepted, lapses>>

\* A cancel checks the status as read and writes whatever the row is by then.
BeginCancel(r) ==
  /\ status[r] \in Cancellable /\ closers[r] < MaxClosers
  /\ closers' = [closers EXCEPT ![r] = @ + 1]
  /\ UNCHANGED <<status, hand, started, accepted, lapses>>

EndCancel(r) ==
  /\ closers[r] > 0
  /\ Becomes(r, "cancelled")
  /\ closers' = [closers EXCEPT ![r] = @ - 1]
  /\ UNCHANGED <<hand, started, accepted, lapses>>

\* The cancel request ends before its write.
AbandonCancel(r) ==
  /\ closers[r] > 0 /\ Lapsed
  /\ closers' = [closers EXCEPT ![r] = @ - 1]
  /\ UNCHANGED <<status, hand, started, accepted>>

\* A lapse of something that has no row in hand.
LapseElsewhere == Lapsed /\ UNCHANGED <<status, hand, started, closers, accepted>>

SenderStep(r) == Start(r) \/ Take(r) \/ Refuse(r) \/ Succeed(r) \/ Drop(r)

ContractNext ==
  \/ \E r \in Rows : \/ CreateQueued(r) \/ CreateSync(r)
                     \/ SenderStep(r)
                     \/ Retry(r)
                     \/ BeginCancel(r) \/ EndCancel(r) \/ AbandonCancel(r)
  \/ \E stale \in SUBSET Rows : Release(stale)
  \/ LapseElsewhere

ContractSpec == ContractInit /\ [][ContractNext]_contractVars

-----------------------------------------------------------------------------

(***************************************************************************)
(* Within the contract, whatever is cancelled, retried or released, a row  *)
(* reaches Telegram once and once more per lapse: what process_queued_send *)
(* and its retries owe the sender.                                         *)
(***************************************************************************)
AcceptedOncePerLapse == \A r \in Rows : accepted[r] <= 1 + lapses

=============================================================================
