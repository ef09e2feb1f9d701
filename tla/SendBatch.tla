----------------------------- MODULE SendBatch -----------------------------
(***************************************************************************)
(* One batch of sends: a payload and its targets, the items.  Enqueueing   *)
(* gives each item a row of the send queue, cancelling cancels those rows. *)
(* The rows follow SendContract.                                           *)
(*                                                                         *)
(* A request loads the batch and its items once and works on these         *)
(* objects.  Marking an item only flushes; a mark is committed by the      *)
(* commit that creates or cancels the row of a later item, or by the last  *)
(* one, and lost when the request fails before that.                       *)
(***************************************************************************)
EXTENDS SendContract, FiniteSets, FiniteSetsExt

CONSTANTS
  NoRow,        \* send_history_id of an item without a row
  ItemCount,    \* items of the batch, numbered by id
  Requests,     \* concurrent enqueue and cancel requests
  MaxEnqueues,  \* bound: enqueue requests
  MaxCancels,   \* bound: cancel requests
  MaxFailures   \* bound: requests that fail

ASSUME BatchAssumption ==
  /\ NoRow \notin Rows
  /\ ItemCount \in Nat
  /\ MaxEnqueues \in Nat /\ MaxCancels \in Nat /\ MaxFailures \in Nat

VARIABLES
  batch,     \* the batch's status column
  items,     \* the send_batch_items table
  req,       \* the requests: the objects they hold and the items still to come
  madeFor,   \* the item each row was created for (an observer)
  enqueues, cancels, failures

batchVars == <<batch, items, req, madeFor, enqueues, cancels, failures>>
vars == <<contractVars, batchVars>>

Items == 1..ItemCount
ItemStatus == {"pending", "queued", "cancelled"}
Item == [status : ItemStatus, row : Rows \cup {NoRow}]
\* Mutant: only items never enqueued are taken up.
OpenPending(objects) == {i \in Items : objects[i].status = "pending"}
Open(objects) == {i \in Items : objects[i].status \in {"pending", "queued"}}

NoItems == [i \in Items |-> [status |-> "pending", row |-> NoRow]]
Idle == [op |-> "idle", batch |-> "draft", seen |-> NoItems, objects |-> NoItems, todo |-> {}]
Request == [op : {"idle", "enqueue", "cancel", "cancelling"},
            batch : {"draft", "queued", "cancelled"},
            seen : [Items -> Item], objects : [Items -> Item], todo : SUBSET Items]

TypeOK ==
  /\ ContractTypeOK
  /\ batch \in {"absent", "draft", "queued", "cancelled"}
  /\ items \in [Items -> Item]
  /\ req \in [Requests -> Request]
  /\ madeFor \in [Rows -> Items \cup {0}]
  /\ enqueues \in 0..MaxEnqueues /\ cancels \in 0..MaxCancels /\ failures \in 0..MaxFailures

Init ==
  /\ ContractInit
  /\ batch = "absent" /\ items = NoItems
  /\ req = [q \in Requests |-> Idle]
  /\ madeFor = [r \in Rows |-> 0]
  /\ enqueues = 0 /\ cancels = 0 /\ failures = 0

-----------------------------------------------------------------------------
(* The session of a request.                                               *)

\* UPDATE writes the columns that the request changed.
Column(db, seen, new) == IF new # seen THEN new ELSE db
Written(q) ==
  [i \in Items |->
     [status |-> Column(items[i].status, req[q].seen[i].status, req[q].objects[i].status),
      row |-> Column(items[i].row, req[q].seen[i].row, req[q].objects[i].row)]]

Current(q) == Min(req[q].todo)

\* Mutant: the commit of a row leaves the marks to the last commit.
CommitRowOnly(q, op, new) ==
  /\ UNCHANGED items
  /\ req' = [req EXCEPT ![q].op = op, ![q].objects = new, ![q].todo = @ \ {Current(q)}]

\* Commit what is flushed; then the current item is marked, unflushed to others.
CommitThenMark(q, op, new) ==
  /\ items' = Written(q)
  /\ req' = [req EXCEPT ![q] = [op |-> op, batch |-> @.batch, seen |-> @.objects,
                                objects |-> new, todo |-> @.todo \ {Current(q)}]]

Finish(q, s) ==
  /\ items' = Written(q)
  /\ batch' = Column(batch, req[q].batch, s)
  /\ req' = [req EXCEPT ![q] = Idle]

Load(q, op) ==
  /\ req[q].op = "idle" /\ batch # "absent"
  /\ req' = [req EXCEPT ![q] = [op |-> op, batch |-> batch, seen |-> items,
                                objects |-> items, todo |-> Open(items)]]

\* Mutant: a status outside the enumeration.
MarkCanceled(q) == [req[q].objects EXCEPT ![Min(req[q].todo)].status = "canceled"]
MarkCancelled(q) == [req[q].objects EXCEPT ![Current(q)].status = "cancelled"]

-----------------------------------------------------------------------------

CreateBatch ==
  /\ batch = "absent"
  /\ batch' = "draft"
  /\ UNCHANGED <<contractVars, items, req, madeFor, enqueues, cancels, failures>>

LoadForEnqueue(q) ==
  /\ enqueues < MaxEnqueues /\ enqueues' = enqueues + 1
  /\ Load(q, "enqueue")
  /\ UNCHANGED <<contractVars, batch, items, madeFor, cancels, failures>>

\* Mutant: the loop stays on its item.
EnqueueItemAgain(q, r) ==
  /\ req[q].op = "enqueue" /\ req[q].todo # {}
  /\ CreateQueued(r)
  /\ madeFor' = [madeFor EXCEPT ![r] = Current(q)]
  /\ UNCHANGED <<batch, items, req, enqueues, cancels, failures>>

\* send_text, send_template or send_file commits the row; then the item is marked.
EnqueueItem(q, r) ==
  /\ req[q].op = "enqueue" /\ req[q].todo # {}
  /\ CreateQueued(r)
  /\ CommitThenMark(q, "enqueue",
       [req[q].objects EXCEPT ![Current(q)] = [status |-> "queued", row |-> r]])
  /\ madeFor' = [madeFor EXCEPT ![r] = Current(q)]
  /\ UNCHANGED <<batch, enqueues, cancels, failures>>

FinishEnqueue(q) ==
  /\ req[q].op = "enqueue" /\ req[q].todo = {}
  /\ Finish(q, "queued")
  /\ UNCHANGED <<contractVars, madeFor, enqueues, cancels, failures>>

LoadForCancel(q) ==
  /\ cancels < MaxCancels /\ cancels' = cancels + 1
  /\ Load(q, "cancel")
  /\ UNCHANGED <<contractVars, batch, items, madeFor, enqueues, failures>>

\* cancel_history finds the row cancellable...
ReadRow(q) ==
  /\ req[q].op = "cancel" /\ req[q].todo # {}
  /\ LET r == req[q].objects[Current(q)].row IN r # NoRow /\ BeginCancel(r)
  /\ req' = [req EXCEPT ![q].op = "cancelling"]
  /\ UNCHANGED <<batch, items, madeFor, enqueues, cancels, failures>>

\* ...and commits; the item is marked after that.
CancelRow(q) ==
  /\ req[q].op = "cancelling"
  /\ EndCancel(req[q].objects[Current(q)].row)
  /\ CommitThenMark(q, "cancel", MarkCancelled(q))
  /\ UNCHANGED <<batch, madeFor, enqueues, cancels, failures>>

\* No row, or one that cancel_history refuses: the error is swallowed, the item marked.
MarkOnly(q) ==
  /\ req[q].op = "cancel" /\ req[q].todo # {}
  /\ LET r == req[q].objects[Current(q)].row IN r # NoRow => status[r] \notin Cancellable
  /\ req' = [req EXCEPT ![q].objects = MarkCancelled(q), ![q].todo = @ \ {Current(q)}]
  /\ UNCHANGED <<contractVars, batch, items, madeFor, enqueues, cancels, failures>>

FinishCancel(q) ==
  /\ req[q].op = "cancel" /\ req[q].todo = {}
  /\ Finish(q, "cancelled")
  /\ UNCHANGED <<contractVars, madeFor, enqueues, cancels, failures>>

\* Anywhere: a policy refusal, a missing bot, target, file or template, a crash.  The
\* session closes without a commit.
RequestFails(q) ==
  /\ req[q].op # "idle"
  /\ failures < MaxFailures /\ failures' = failures + 1
  /\ \/ req[q].op # "cancelling" /\ UNCHANGED contractVars
     \/ req[q].op = "cancelling" /\ AbandonCancel(req[q].objects[Current(q)].row)
  /\ req' = [req EXCEPT ![q] = Idle]
  /\ UNCHANGED <<batch, items, madeFor, enqueues, cancels>>

\* The workers, the scheduler and operators on single rows.
QueueStep(r) ==
  /\ SenderStep(r) \/ Release({r}) \/ Retry(r)
  /\ UNCHANGED batchVars

Next ==
  \/ CreateBatch
  \/ \E q \in Requests :
        \/ LoadForEnqueue(q) \/ (\E r \in Rows : EnqueueItem(q, r)) \/ FinishEnqueue(q)
        \/ LoadForCancel(q) \/ ReadRow(q) \/ CancelRow(q) \/ MarkOnly(q) \/ FinishCancel(q)
        \/ RequestFails(q)
  \/ \E r \in Rows : QueueStep(r)

Spec == Init /\ [][Next]_vars

-----------------------------------------------------------------------------
(* Properties.                                                             *)

MadeFor(i) == {r \in Rows : madeFor[r] = i}
Forgotten ==
  {i \in Items : /\ MadeFor(i) # {} /\ items[i].row = NoRow
                 /\ \A q \in Requests : req[q].objects[i].row = NoRow}

(***************************************************************************)
(* Cancelling stops what nobody has started: the row of a cancelled item   *)
(* that no worker ever leased is cancelled itself.  cancel_batch swallows  *)
(* the refusal of cancel_history and marks the item either way.            *)
(***************************************************************************)
CancelStopsUnstarted ==
  \A i \in Items :
    items[i].status = "cancelled" /\ items[i].row # NoRow /\ items[i].row \notin started =>
      status[items[i].row] = "cancelled"

(***************************************************************************)
(* The batch's status speaks for its items: none is left pending in a      *)
(* queued batch or uncancelled in a cancelled one, whatever failed before. *)
(***************************************************************************)
BatchSpeaksForItems ==
  \A i \in Items :
    /\ batch = "queued" => items[i].status # "pending"
    /\ batch = "cancelled" => items[i].status = "cancelled"

(***************************************************************************)
(* A target gets the payload at most once per enqueue request and once     *)
(* more per lapse of the queue, over all rows ever created for its item,   *)
(* whichever of them failed, were retried, cancelled or forgotten.         *)
(***************************************************************************)
TargetSentOncePerEnqueue ==
  \A i \in Items : MapThenSumSet(LAMBDA r : accepted[r], MadeFor(i)) <= enqueues + lapses

(***************************************************************************)
(* A failed enqueue forgets at most one row: the commit that creates a row *)
(* also saves the mark of the item before it, so that only the last row    *)
(* may be unknown to its item, and out of reach of a cancel.               *)
(***************************************************************************)
ForgottenRowsExplained == Cardinality(Forgotten) <= failures

(***************************************************************************)
(* Claims of the repository's documents that the code does not keep.       *)
(***************************************************************************)

\* Each item becomes one row of the send history.
OneRowPerItem == \A i \in Items : Cardinality(MadeFor(i)) <= 1

\* Cancelling a batch leaves the items alone whose row is being sent or has succeeded.
CancelSparesSending ==
  [][\A i \in Items :
       items[i].status # "cancelled" /\ items'[i].status = "cancelled" /\ items[i].row # NoRow =>
         status[items[i].row] \notin {"sending", "succeeded"}]_vars

=============================================================================
