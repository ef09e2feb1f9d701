--------------------------- MODULE SendBatchProofs ---------------------------
(***************************************************************************)
(* A batch uses the send queue within its contract, for any number of      *)
(* rows, items and requests; and while requests on it come one after the   *)
(* other, its status speaks for its items and a cancel stops what nobody   *)
(* has started, whatever fails half way.                                   *)
(*                                                                         *)
(* A row that obeys the contract reaches Telegram once, and once more per  *)
(* lapse.  What makes the bound inductive is where an acceptance may be    *)
(* pending: only a row in hand that was taken, or one that succeeded or    *)
(* was cancelled, may have one acceptance more than there were lapses.     *)
(*                                                                         *)
(* The same potential, summed over the rows ever created for an item,      *)
(* bounds what its target gets; what the fold computes is shown first.     *)
(* That a failure forgets one row rests on what a request holds: at most   *)
(* one row that is not committed to its item.                              *)
(***************************************************************************)
EXTENDS SendBatch, FiniteSetTheorems, WellFoundedInduction, TLAPS

-----------------------------------------------------------------------------
(* The contract by itself.                                                 *)

\* A row somebody sends is in a status that no retry and no worker takes.
HeldRowsSheltered ==
  \A r \in Rows : hand[r] # "free" => status[r] \in {"sending", "created", "cancelled"}

\* No acceptance beyond the lapses, except one that the row's status or hand shows.
AcceptancesShown ==
  \A r \in Rows :
    /\ accepted[r] <= 1 + lapses
    /\ hand[r] = "calling" => accepted[r] <= lapses
    /\ hand[r] = "free" /\ status[r] \notin {"succeeded", "cancelled"} => accepted[r] <= lapses

AcceptanceInv == ContractTypeOK /\ HeldRowsSheltered /\ AcceptancesShown

\* A step of the contract keeps the types.
LEMMA ContractNextTyped ==
  ASSUME ContractTypeOK, [ContractNext]_contractVars PROVE ContractTypeOK'
<1> USE ContractAssumption
<1>1. ASSUME NEW r \in Rows, CreateQueued(r) \/ CreateSync(r) PROVE ContractTypeOK'
  BY <1>1 DEF ContractTypeOK, CreateQueued, CreateSync, Becomes, Passes, RowStatus
<1>2. ASSUME NEW r \in Rows, Start(r) PROVE ContractTypeOK'
  BY <1>2 DEF ContractTypeOK, Start, Becomes, Passes, RowStatus
<1>3. ASSUME NEW r \in Rows, Take(r) PROVE ContractTypeOK'
  BY <1>3 DEF ContractTypeOK, Take, Passes, Accepts, Lapsed
<1>4. ASSUME NEW r \in Rows, Refuse(r) PROVE ContractTypeOK'
  BY <1>4 DEF ContractTypeOK, Refuse, Becomes, Passes, Accepts, Lapsed, RowStatus
<1>5. ASSUME NEW r \in Rows, Succeed(r) \/ Drop(r) PROVE ContractTypeOK'
  BY <1>5 DEF ContractTypeOK, Succeed, Drop, Becomes, Passes, Accepts, Lapsed, RowStatus
<1>6. ASSUME NEW r \in Rows, Retry(r) PROVE ContractTypeOK'
  BY <1>6 DEF ContractTypeOK, Retry, Becomes, RowStatus
<1>7. ASSUME NEW r \in Rows, BeginCancel(r) \/ EndCancel(r) \/ AbandonCancel(r)
      PROVE  ContractTypeOK'
  BY <1>7 DEF ContractTypeOK, BeginCancel, EndCancel, AbandonCancel, Becomes, Lapsed, RowStatus
<1>8. ASSUME NEW stale \in SUBSET Rows, Release(stale) PROVE ContractTypeOK'
  BY <1>8 DEF ContractTypeOK, Release, RowStatus
<1>9. CASE LapseElsewhere
  BY <1>9 DEF ContractTypeOK, LapseElsewhere, Lapsed
<1>10. CASE UNCHANGED contractVars
  BY <1>10 DEF ContractTypeOK, contractVars
<1> QED
  BY <1>1, <1>2, <1>3, <1>4, <1>5, <1>6, <1>7, <1>8, <1>9, <1>10 DEF ContractNext, SenderStep

\* The contract's state keeps its types.
THEOREM ContractTypeCorrect == ContractSpec => []ContractTypeOK
<1>1. ContractInit => ContractTypeOK
  BY ContractAssumption
     DEF ContractInit, ContractTypeOK, RowStatus, Refusals
<1>2. ContractTypeOK /\ [ContractNext]_contractVars => ContractTypeOK'
  BY ContractNextTyped
<1> QED BY <1>1, <1>2, PTL DEF ContractSpec

\* Within the contract a row is accepted at most once, and once more per lapse, whatever
\* is cancelled, retried or released.
THEOREM AcceptedAtMostOncePerLapse == ContractSpec => []AcceptedOncePerLapse
<1>1. ContractInit => AcceptanceInv
  BY ContractAssumption
     DEF ContractInit, AcceptanceInv, ContractTypeOK, HeldRowsSheltered, AcceptancesShown,
         RowStatus, Refusals
<1>2. ContractTypeOK /\ ContractTypeOK' /\ HeldRowsSheltered /\ AcceptancesShown
        /\ [ContractNext]_contractVars => HeldRowsSheltered' /\ AcceptancesShown'
  <2> SUFFICES ASSUME ContractTypeOK, HeldRowsSheltered, AcceptancesShown,
                      [ContractNext]_contractVars
               PROVE  HeldRowsSheltered' /\ AcceptancesShown'
    OBVIOUS
  <2> USE ContractAssumption DEF ContractTypeOK, HeldRowsSheltered, AcceptancesShown
  <2>1. ASSUME NEW r \in Rows, CreateQueued(r) \/ CreateSync(r)
        PROVE  HeldRowsSheltered' /\ AcceptancesShown'
    BY <2>1 DEF CreateQueued, CreateSync, Becomes, Passes
  <2>2. ASSUME NEW r \in Rows, Start(r) PROVE HeldRowsSheltered' /\ AcceptancesShown'
    BY <2>2 DEF Start, Becomes, Passes, Waiting
  <2>3. ASSUME NEW r \in Rows, Take(r) PROVE HeldRowsSheltered' /\ AcceptancesShown'
    BY <2>3 DEF Take, Passes, Accepts, Lapsed
  <2>4. ASSUME NEW r \in Rows, Refuse(r) PROVE HeldRowsSheltered' /\ AcceptancesShown'
    BY <2>4 DEF Refuse, Becomes, Passes, Accepts, Lapsed, Refusals
  <2>5. ASSUME NEW r \in Rows, Succeed(r) \/ Drop(r)
        PROVE  HeldRowsSheltered' /\ AcceptancesShown'
    BY <2>5 DEF Succeed, Drop, Becomes, Passes, Accepts, Lapsed
  <2>6. ASSUME NEW r \in Rows, Retry(r) PROVE HeldRowsSheltered' /\ AcceptancesShown'
    BY <2>6 DEF Retry, Becomes, Retryable
  <2>7. ASSUME NEW r \in Rows, BeginCancel(r) \/ EndCancel(r) \/ AbandonCancel(r)
        PROVE  HeldRowsSheltered' /\ AcceptancesShown'
    BY <2>7 DEF BeginCancel, EndCancel, AbandonCancel, Becomes, Lapsed
  <2>8. ASSUME NEW stale \in SUBSET Rows, Release(stale)
        PROVE  HeldRowsSheltered' /\ AcceptancesShown'
    BY <2>8 DEF Release
  <2>9. CASE LapseElsewhere
    BY <2>9 DEF LapseElsewhere, Lapsed
  <2>10. CASE UNCHANGED contractVars
    BY <2>10 DEF contractVars
  <2> QED
    BY <2>1, <2>2, <2>3, <2>4, <2>5, <2>6, <2>7, <2>8, <2>9, <2>10 DEF ContractNext, SenderStep
<1>3. ContractTypeOK /\ HeldRowsSheltered /\ AcceptancesShown => AcceptedOncePerLapse
  BY DEF AcceptancesShown, AcceptedOncePerLapse
<1> QED
  BY <1>1, <1>2, <1>3, ContractTypeCorrect, PTL DEF ContractSpec, AcceptanceInv

-----------------------------------------------------------------------------
(* Batches.                                                                *)

\* A request that is to write its cancel has the row of an item in hand.
CancelsRow ==
  \A q \in Requests : req[q].op = "cancelling" =>
    req[q].todo # {} /\ req[q].objects[Current(q)].row \in Rows

BatchTyped == TypeOK /\ CancelsRow

-----------------------------------------------------------------------------
\* A set of numbers that is not empty has a lowest one, to argue from.
LEMMA LeastOf == ASSUME NEW Bad \in SUBSET Nat, Bad # {}
                 PROVE  \E n \in Bad : \A m \in Nat : m < n => m \notin Bad
<1>1. PICK n \in Bad : \A m \in Bad : ~(<<m, n>> \in OpToRel(<, Nat))
  BY NatLessThanWellFounded, WFMin
<1> QED BY <1>1 DEF OpToRel

LEMMA MinOfNats == ASSUME NEW S \in SUBSET Nat, S # {}
                   PROVE  Min(S) \in S /\ \A y \in S : Min(S) =< y
<1>1. PICK x \in S : \A m \in Nat : m < x => m \notin S
  BY LeastOf
<1>2. \A y \in S : x =< y
  BY <1>1
<1> QED
  BY <1>2 DEF Min

\* The item a request works on is one of those still to come.
LEMMA CurrentInTodo ==
  ASSUME BatchAssumption, TypeOK, NEW q \in Requests, req[q].todo # {}
  PROVE  Current(q) \in req[q].todo /\ Current(q) \in Items
<1>1. req[q].todo \in SUBSET Nat /\ req[q].todo \subseteq Items
  BY DEF TypeOK, Request, Items, BatchAssumption
<1> QED
  BY <1>1, MinOfNats DEF Current

-----------------------------------------------------------------------------
(* Types, and the contract.                                                *)

LEMMA InitBatchTyped == Init => BatchTyped
<1> SUFFICES ASSUME Init PROVE BatchTyped
  OBVIOUS
<1>1. ContractTypeOK
  BY ContractAssumption DEF Init, ContractInit, ContractTypeOK, RowStatus, Refusals
<1>2. NoItems \in [Items -> Item]
  BY DEF NoItems, Item, ItemStatus
<1>3. Idle \in Request
  BY <1>2 DEF Idle, Request
<1> QED
  BY <1>1, <1>2, <1>3, BatchAssumption DEF Init, BatchTyped, TypeOK, CancelsRow, Idle

\* What a request writes are items.
LEMMA WrittenTyped ==
  ASSUME TypeOK, NEW q \in Requests
  PROVE  Written(q) \in [Items -> Item]
BY DEF TypeOK, Written, Column, Request, Item

\* What a request does to its batch keeps the types, and the row it has in hand.
LEMMA RequestStepTyped ==
  ASSUME BatchTyped, ContractTypeOK', NEW q \in Requests,
         \/ LoadForEnqueue(q) \/ (\E r \in Rows : EnqueueItem(q, r)) \/ FinishEnqueue(q)
         \/ LoadForCancel(q) \/ ReadRow(q) \/ CancelRow(q) \/ MarkOnly(q) \/ FinishCancel(q)
         \/ RequestFails(q)
  PROVE  BatchTyped'
<1> USE BatchAssumption DEF BatchTyped
<1>0. /\ NoItems \in [Items -> Item] /\ Idle \in Request /\ Idle.op = "idle"
      /\ Written(q) \in [Items -> Item]
  BY WrittenTyped DEF NoItems, Item, ItemStatus, Idle, Request
<1>1. ASSUME NEW op \in {"enqueue", "cancel"}, Load(q, op), UNCHANGED <<batch, items, madeFor>>,
             enqueues' \in 0..MaxEnqueues, cancels' \in 0..MaxCancels, UNCHANGED failures
      PROVE  BatchTyped'
  <2>1. Open(items) \in SUBSET Items
    BY DEF Open
  <2>2. req' \in [Requests -> Request]
    BY <1>1, <2>1 DEF TypeOK, Load, Request
  <2>3. CancelsRow'
    BY <1>1 DEF CancelsRow, Load, TypeOK, Request, Current
  <2> QED BY <1>1, <2>2, <2>3 DEF TypeOK
<1>2. ASSUME NEW s \in {"queued", "cancelled"}, Finish(q, s),
             UNCHANGED <<madeFor, enqueues, cancels, failures>>
      PROVE  BatchTyped'
  <2>1. items' \in [Items -> Item]
    BY <1>0, <1>2 DEF Finish
  <2>2. req' \in [Requests -> Request]
    BY <1>0, <1>2 DEF TypeOK, Finish
  <2>3. CancelsRow'
    BY <1>0, <1>2 DEF CancelsRow, Finish, TypeOK, Current
  <2>4. batch' \in {"absent", "draft", "queued", "cancelled"}
    BY <1>2 DEF TypeOK, Finish, Column
  <2> QED BY <1>2, <2>1, <2>2, <2>3, <2>4 DEF TypeOK
<1>3. ASSUME NEW op \in {"enqueue", "cancel"}, NEW new \in [Items -> Item],
             req[q].todo # {}, CommitThenMark(q, op, new),
             UNCHANGED <<batch, enqueues, cancels, failures>>,
             madeFor' \in [Rows -> Items \cup {0}]
      PROVE  BatchTyped'
  <2>1. items' \in [Items -> Item]
    BY <1>0, <1>3 DEF CommitThenMark
  <2>2. req' \in [Requests -> Request]
    BY <1>3 DEF TypeOK, CommitThenMark, Request
  <2>3. CancelsRow'
    BY <1>3 DEF CancelsRow, CommitThenMark, TypeOK, Current
  <2> QED BY <1>3, <2>1, <2>2, <2>3 DEF TypeOK
<1>4. CASE LoadForEnqueue(q)
  BY <1>1, <1>4 DEF LoadForEnqueue, TypeOK
<1>5. CASE LoadForCancel(q)
  BY <1>1, <1>5 DEF LoadForCancel, TypeOK
<1>6. CASE FinishEnqueue(q)
  BY <1>2, <1>6 DEF FinishEnqueue
<1>7. CASE FinishCancel(q)
  BY <1>2, <1>7 DEF FinishCancel
<1>8. ASSUME NEW r \in Rows, EnqueueItem(q, r) PROVE BatchTyped'
  <2>1. Current(q) \in Items
    BY <1>8, CurrentInTodo DEF EnqueueItem
  <2>2. [req[q].objects EXCEPT ![Current(q)] = [status |-> "queued", row |-> r]]
          \in [Items -> Item]
    BY <2>1 DEF TypeOK, Request, Item, ItemStatus
  <2>3. madeFor' \in [Rows -> Items \cup {0}]
    BY <1>8, <2>1 DEF EnqueueItem, TypeOK
  <2> QED BY <1>3, <1>8, <2>2, <2>3 DEF EnqueueItem
<1>9. req[q].todo # {} => MarkCancelled(q) \in [Items -> Item]
  <2> SUFFICES ASSUME req[q].todo # {} PROVE MarkCancelled(q) \in [Items -> Item]
    OBVIOUS
  <2>1. Current(q) \in Items
    BY CurrentInTodo
  <2>2. req[q].objects \in [Items -> Item]
    BY DEF TypeOK, Request
  <2>3. [req[q].objects[Current(q)] EXCEPT !.status = "cancelled"] \in Item
    BY <2>1, <2>2 DEF Item, ItemStatus
  <2> QED BY <2>1, <2>2, <2>3 DEF MarkCancelled
<1>10. CASE CancelRow(q)
  <2>1. req[q].todo # {}
    BY <1>10 DEF CancelRow, CancelsRow
  <2> QED BY <1>3, <1>9, <1>10, <2>1 DEF CancelRow, TypeOK
<1>11. CASE MarkOnly(q)
  <2>1. req' \in [Requests -> Request]
    <3>1. req[q] \in Request /\ MarkCancelled(q) \in [Items -> Item]
      BY <1>9, <1>11 DEF MarkOnly, TypeOK
    <3>2. [req[q] EXCEPT !.objects = MarkCancelled(q), !.todo = @ \ {Current(q)}] \in Request
      BY <3>1 DEF Request
    <3>3. req' = [req EXCEPT ![q] = [req[q] EXCEPT !.objects = MarkCancelled(q),
                                                   !.todo = @ \ {Current(q)}]]
      BY <1>11, <3>1 DEF MarkOnly, TypeOK, Request
    <3> QED BY <3>2, <3>3 DEF TypeOK
  <2>2. CancelsRow'
    BY <1>11 DEF MarkOnly, CancelsRow, TypeOK, Request, Current
  <2> QED BY <1>11, <2>1, <2>2 DEF MarkOnly, TypeOK
<1>12. CASE ReadRow(q)
  <2>1. req' \in [Requests -> Request]
    BY <1>12 DEF ReadRow, TypeOK, Request
  <2>2. req[q].objects[Current(q)].row \in Rows
    <3>1. Current(q) \in Items
      BY <1>12, CurrentInTodo DEF ReadRow
    <3> QED BY <1>12, <3>1 DEF ReadRow, TypeOK, Request, Item
  <2>3. CancelsRow'
    BY <1>12, <2>2 DEF ReadRow, CancelsRow, TypeOK, Request, Current
  <2> QED BY <1>12, <2>1, <2>3 DEF ReadRow, TypeOK
<1>13. CASE RequestFails(q)
  <2>1. req' \in [Requests -> Request]
    BY <1>0, <1>13 DEF RequestFails, TypeOK
  <2>2. CancelsRow'
    BY <1>0, <1>13 DEF RequestFails, CancelsRow, TypeOK, Current
  <2> QED BY <1>13, <2>1, <2>2 DEF RequestFails, TypeOK
<1> QED
  BY <1>4, <1>5, <1>6, <1>7, <1>8, <1>10, <1>11, <1>12, <1>13

\* A step of the system is a step of the queue within its contract, or none.
LEMMA StepKeepsContract ==
  ASSUME BatchTyped, [Next]_vars
  PROVE  [ContractNext]_contractVars
<1> USE BatchAssumption DEF BatchTyped
<1>1. ASSUME NEW q \in Requests, NEW r \in Rows, EnqueueItem(q, r) PROVE ContractNext
  BY <1>1 DEF EnqueueItem, ContractNext
<1>2. ASSUME NEW q \in Requests, ReadRow(q) PROVE ContractNext
  <2>1. Current(q) \in Items
    BY <1>2, CurrentInTodo DEF ReadRow
  <2>2. req[q].objects[Current(q)].row \in Rows
    BY <1>2, <2>1 DEF ReadRow, TypeOK, Request, Item
  <2> QED BY <1>2, <2>2 DEF ReadRow, ContractNext
<1>3. ASSUME NEW q \in Requests, CancelRow(q) PROVE ContractNext
  BY <1>3 DEF CancelRow, CancelsRow, ContractNext
<1>4. ASSUME NEW q \in Requests, RequestFails(q) PROVE [ContractNext]_contractVars
  BY <1>4 DEF RequestFails, CancelsRow, ContractNext
<1>5. ASSUME NEW r \in Rows, QueueStep(r) PROVE ContractNext
  <2>1. {r} \in SUBSET Rows
    OBVIOUS
  <2> QED BY <1>5, <2>1 DEF QueueStep, ContractNext
<1>6. ASSUME NEW q \in Requests,
             \/ LoadForEnqueue(q) \/ FinishEnqueue(q) \/ LoadForCancel(q)
             \/ MarkOnly(q) \/ FinishCancel(q)
      PROVE  UNCHANGED contractVars
  BY <1>6 DEF LoadForEnqueue, FinishEnqueue, LoadForCancel, MarkOnly, FinishCancel
<1>7. CASE CreateBatch \/ UNCHANGED vars
  BY <1>7 DEF CreateBatch, vars
<1> QED
  BY <1>1, <1>2, <1>3, <1>4, <1>5, <1>6, <1>7 DEF Next

LEMMA StepBatchTyped == ASSUME BatchTyped, [Next]_vars PROVE BatchTyped'
<1>1. ContractTypeOK'
  BY StepKeepsContract, ContractNextTyped DEF BatchTyped, TypeOK
<1>2. CASE UNCHANGED batchVars
  BY <1>1, <1>2 DEF batchVars, BatchTyped, TypeOK, CancelsRow, Current
<1>3. CASE CreateBatch
  BY <1>1, <1>3 DEF CreateBatch, BatchTyped, TypeOK, CancelsRow, Current
<1> QED
  BY <1>1, <1>2, <1>3, RequestStepTyped DEF Next, QueueStep, vars

\* The state of a batch, of its requests and of the rows keeps its types.
THEOREM BatchTypeCorrect == Spec => []TypeOK
<1>1. BatchTyped /\ [Next]_vars => BatchTyped'
  BY StepBatchTyped
<1>2. BatchTyped => TypeOK
  BY DEF BatchTyped
<1> QED
  BY <1>1, <1>2, InitBatchTyped, PTL DEF Spec

\* Whatever is asked of a batch, it uses the send queue within its contract.
THEOREM BatchUsesContract == Spec => ContractSpec
<1>1. Init => ContractInit
  BY DEF Init
<1>2. BatchTyped /\ [Next]_vars => BatchTyped'
  BY StepBatchTyped
<1>3. BatchTyped /\ [Next]_vars => [ContractNext]_contractVars
  BY StepKeepsContract
<1> QED
  BY <1>1, <1>2, <1>3, InitBatchTyped, PTL DEF Spec, ContractSpec

\* So no row of a batch reaches Telegram more than once and once more per lapse.
THEOREM BatchAcceptedOncePerLapse == Spec => []AcceptedOncePerLapse
BY BatchUsesContract, AcceptedAtMostOncePerLapse, PTL

-----------------------------------------------------------------------------
(* One request at a time.                                                  *)

OneRequest == \A p, q \in Requests : p = q

\* A request at work: it read what the tables hold, its marks only move items on, and
\* what it has passed bears its mark.
Session(q) ==
  req[q].op # "idle" =>
    /\ req[q].batch = batch /\ req[q].seen = items
    /\ req[q].todo \subseteq Open(req[q].objects)
    /\ \A i \in Items :
         /\ req[q].objects[i].status = "pending" => items[i].status = "pending" /\ i \in req[q].todo
         /\ items[i].status = "cancelled" => req[q].objects[i].status = "cancelled"
         /\ req[q].op # "enqueue" /\ i \notin req[q].todo => req[q].objects[i].status = "cancelled"

SessionInv == BatchTyped /\ BatchSpeaksForItems /\ \A q \in Requests : Session(q)

\* What a request alone with the tables writes is what it holds.
LEMMA WrittenIsHeld ==
  ASSUME BatchTyped, NEW q \in Requests, req[q].seen = items
  PROVE  Written(q) = req[q].objects
<1>1. req[q].objects \in [Items -> Item]
  BY DEF BatchTyped, TypeOK, Request
<1>2. ASSUME NEW i \in Items PROVE Written(q)[i] = req[q].objects[i]
  BY <1>1, <1>2 DEF Written, Column, Item
<1>3. Written(q) \in [Items -> Item]
  BY WrittenTyped DEF BatchTyped
<1> QED BY <1>1, <1>2, <1>3

LEMMA SessionLoad ==
  ASSUME OneRequest, SessionInv, NEW q \in Requests, NEW op \in {"enqueue", "cancel"},
         Load(q, op), UNCHANGED <<batch, items>>
  PROVE  BatchSpeaksForItems' /\ \A p \in Requests : Session(p)'
<1>1. /\ req'[q].op = op /\ req'[q].batch = batch /\ req'[q].seen = items
      /\ req'[q].objects = items /\ req'[q].todo = Open(items)
  BY DEF Load, SessionInv, BatchTyped, TypeOK
<1>2. items \in [Items -> Item]
  BY DEF SessionInv, BatchTyped, TypeOK
<1>3. Session(q)'
  BY <1>1, <1>2 DEF Session, Open, Item, ItemStatus
<1> QED BY <1>3 DEF OneRequest, SessionInv, BatchSpeaksForItems

LEMMA SessionFinish ==
  ASSUME OneRequest, SessionInv, NEW q \in Requests, req[q].todo = {},
         \/ req[q].op = "enqueue" /\ Finish(q, "queued")
         \/ req[q].op = "cancel" /\ Finish(q, "cancelled")
  PROVE  BatchSpeaksForItems' /\ \A p \in Requests : Session(p)'
<1>1. Session(q) /\ req[q].op # "idle"
  BY DEF SessionInv
<1>2. items' = req[q].objects
  BY <1>1, WrittenIsHeld DEF SessionInv, Session, Finish
<1>3. req'[q].op = "idle"
  BY DEF Finish, Idle, SessionInv, BatchTyped, TypeOK
<1>4. BatchSpeaksForItems'
  BY <1>1, <1>2 DEF Session, BatchSpeaksForItems, Finish, Column
<1> QED BY <1>3, <1>4 DEF OneRequest, Session

LEMMA SessionMark ==
  ASSUME OneRequest, SessionInv, NEW q \in Requests, req[q].todo # {},
         UNCHANGED batch,
         NEW mark \in [Items -> Item],
         \A i \in Items : i # Current(q) => mark[i] = req[q].objects[i],
         req'[q].objects = mark, req'[q].todo = req[q].todo \ {Current(q)},
         req'[q].batch = req[q].batch, req'[q].seen = items',
         items' = req[q].objects \/ items' = items,
         \/ req[q].op = "enqueue" /\ req'[q].op = "enqueue" /\ mark[Current(q)].status = "queued"
         \/ /\ req[q].op \in {"cancel", "cancelling"} /\ req'[q].op = "cancel"
            /\ mark[Current(q)].status = "cancelled"
  PROVE  BatchSpeaksForItems' /\ \A p \in Requests : Session(p)'
<1>1. Session(q) /\ req[q].op # "idle"
  BY DEF SessionInv
<1>2. Current(q) \in req[q].todo /\ Current(q) \in Items
  BY CurrentInTodo, BatchAssumption DEF SessionInv, BatchTyped
<1>3. items \in [Items -> Item] /\ req[q].objects \in [Items -> Item]
  BY DEF SessionInv, BatchTyped, TypeOK, Request
<1>4. BatchSpeaksForItems'
  BY <1>1, <1>3 DEF SessionInv, Session, BatchSpeaksForItems, Item, ItemStatus
<1>5. req[q].objects[Current(q)].status # "cancelled"
  BY <1>1, <1>2 DEF Session, Open
<1>6. req'[q].todo \subseteq Open(mark)
  BY <1>1, <1>2 DEF Session, Open
<1>7. ASSUME NEW i \in Items
      PROVE  /\ mark[i].status = "pending" => items'[i].status = "pending" /\ i \in req'[q].todo
             /\ items'[i].status = "cancelled" => mark[i].status = "cancelled"
             /\ req'[q].op # "enqueue" /\ i \notin req'[q].todo => mark[i].status = "cancelled"
  <2>1. CASE i = Current(q)
    BY <1>1, <1>5, <2>1 DEF Session
  <2>2. CASE i # Current(q)
    BY <1>1, <2>2 DEF Session
  <2> QED BY <2>1, <2>2
<1>8. Session(q)'
  BY <1>1, <1>6, <1>7 DEF Session, Open
<1> QED BY <1>4, <1>8 DEF OneRequest

\* The marks that an enqueue and a cancel make.
LEMMA Marks ==
  ASSUME BatchTyped, NEW q \in Requests, req[q].todo # {}
  PROVE  /\ Current(q) \in req[q].todo /\ Current(q) \in Items
         /\ req[q] \in Request /\ req[q].objects \in [Items -> Item]
         /\ MarkCancelled(q) \in [Items -> Item]
         /\ MarkCancelled(q)[Current(q)].status = "cancelled"
         /\ MarkCancelled(q)[Current(q)].row = req[q].objects[Current(q)].row
         /\ \A i \in Items : i # Current(q) => MarkCancelled(q)[i] = req[q].objects[i]
         /\ \A r \in Rows :
              LET m == [req[q].objects EXCEPT ![Current(q)] = [status |-> "queued", row |-> r]]
              IN  /\ m \in [Items -> Item]
                  /\ m[Current(q)] = [status |-> "queued", row |-> r]
                  /\ \A i \in Items : i # Current(q) => m[i] = req[q].objects[i]
<1>1. Current(q) \in req[q].todo /\ Current(q) \in Items
  BY CurrentInTodo, BatchAssumption DEF BatchTyped
<1>2. req[q] \in Request /\ req[q].objects \in [Items -> Item]
  BY DEF BatchTyped, TypeOK, Request
<1>3. [req[q].objects[Current(q)] EXCEPT !.status = "cancelled"] \in Item
  BY <1>1, <1>2 DEF Item, ItemStatus
<1>4. MarkCancelled(q) =
        [req[q].objects EXCEPT ![Current(q)] =
           [req[q].objects[Current(q)] EXCEPT !.status = "cancelled"]]
  BY <1>1, <1>2 DEF MarkCancelled
<1>5. MarkCancelled(q)[Current(q)] = [req[q].objects[Current(q)] EXCEPT !.status = "cancelled"]
  BY <1>1, <1>2, <1>4
<1>6. req[q].objects[Current(q)] \in Item
  BY <1>1, <1>2
<1>7. /\ MarkCancelled(q)[Current(q)].status = "cancelled"
      /\ MarkCancelled(q)[Current(q)].row = req[q].objects[Current(q)].row
  BY <1>5, <1>6 DEF Item
<1>8. /\ MarkCancelled(q) \in [Items -> Item]
      /\ \A i \in Items : i # Current(q) => MarkCancelled(q)[i] = req[q].objects[i]
  BY <1>1, <1>2, <1>3, <1>4
<1>9. ASSUME NEW r \in Rows PROVE [status |-> "queued", row |-> r] \in Item
  BY DEF Item, ItemStatus
<1> QED BY <1>1, <1>2, <1>7, <1>8, <1>9

LEMMA SessionStep ==
  ASSUME OneRequest, SessionInv, [Next]_vars
  PROVE  BatchSpeaksForItems' /\ \A p \in Requests : Session(p)'
<1> USE DEF SessionInv
<1>1. CASE UNCHANGED batchVars
  BY <1>1 DEF batchVars, Session, BatchSpeaksForItems, Open
<1>2. CASE CreateBatch
  <2>1. ASSUME NEW p \in Requests PROVE req[p].op = "idle"
    <3>1. req[p].batch \in {"draft", "queued", "cancelled"}
      BY DEF BatchTyped, TypeOK, Request
    <3> QED BY <1>2, <3>1 DEF CreateBatch, Session
  <2> QED BY <1>2, <2>1 DEF CreateBatch, Session, BatchSpeaksForItems
<1>3. ASSUME NEW q \in Requests, LoadForEnqueue(q)
      PROVE  BatchSpeaksForItems' /\ \A p \in Requests : Session(p)'
  BY <1>3, SessionLoad DEF LoadForEnqueue
<1>4. ASSUME NEW q \in Requests, LoadForCancel(q)
      PROVE  BatchSpeaksForItems' /\ \A p \in Requests : Session(p)'
  BY <1>4, SessionLoad DEF LoadForCancel
<1>5. ASSUME NEW q \in Requests, FinishEnqueue(q) \/ FinishCancel(q)
      PROVE  BatchSpeaksForItems' /\ \A p \in Requests : Session(p)'
  BY <1>5, SessionFinish DEF FinishEnqueue, FinishCancel
<1>6. ASSUME NEW q \in Requests, NEW r \in Rows, EnqueueItem(q, r)
      PROVE  BatchSpeaksForItems' /\ \A p \in Requests : Session(p)'
  <2> DEFINE m == [req[q].objects EXCEPT ![Current(q)] = [status |-> "queued", row |-> r]]
  <2>1. req[q].op = "enqueue" /\ req[q].todo # {} /\ UNCHANGED batch /\ CommitThenMark(q, "enqueue", m)
    BY <1>6 DEF EnqueueItem
  <2>2. items' = req[q].objects
    BY <2>1, WrittenIsHeld DEF CommitThenMark, Session
  <2>3. /\ req'[q].objects = m /\ req'[q].todo = req[q].todo \ {Current(q)}
        /\ req'[q].batch = req[q].batch /\ req'[q].seen = items' /\ req'[q].op = "enqueue"
    BY <2>1, <2>2 DEF CommitThenMark, BatchTyped, TypeOK
  <2>4. /\ m \in [Items -> Item] /\ m[Current(q)].status = "queued"
        /\ \A i \in Items : i # Current(q) => m[i] = req[q].objects[i]
    BY <2>1, Marks
  <2> HIDE DEF m
  <2> QED BY <2>1, <2>2, <2>3, <2>4, SessionMark
<1>7. ASSUME NEW q \in Requests, CancelRow(q)
      PROVE  BatchSpeaksForItems' /\ \A p \in Requests : Session(p)'
  <2>1. /\ req[q].op = "cancelling" /\ req[q].todo # {} /\ UNCHANGED batch
        /\ CommitThenMark(q, "cancel", MarkCancelled(q))
    BY <1>7 DEF CancelRow, BatchTyped, CancelsRow
  <2>2. items' = req[q].objects
    BY <2>1, WrittenIsHeld DEF CommitThenMark, Session
  <2>3. /\ req'[q].objects = MarkCancelled(q) /\ req'[q].todo = req[q].todo \ {Current(q)}
        /\ req'[q].batch = req[q].batch /\ req'[q].seen = items' /\ req'[q].op = "cancel"
    BY <2>1, <2>2 DEF CommitThenMark, BatchTyped, TypeOK
  <2>4. /\ MarkCancelled(q) \in [Items -> Item] /\ MarkCancelled(q)[Current(q)].status = "cancelled"
        /\ \A i \in Items : i # Current(q) => MarkCancelled(q)[i] = req[q].objects[i]
    BY <2>1, Marks
  <2> QED BY <2>1, <2>2, <2>3, <2>4, SessionMark
<1>8. ASSUME NEW q \in Requests, MarkOnly(q)
      PROVE  BatchSpeaksForItems' /\ \A p \in Requests : Session(p)'
  <2>1. req[q].op = "cancel" /\ req[q].todo # {} /\ UNCHANGED <<batch, items>>
    BY <1>8 DEF MarkOnly
  <2>2. /\ req'[q].objects = MarkCancelled(q) /\ req'[q].todo = req[q].todo \ {Current(q)}
        /\ req'[q].batch = req[q].batch /\ req'[q].seen = req[q].seen /\ req'[q].op = "cancel"
    BY <1>8, <2>1, Marks DEF MarkOnly, BatchTyped, TypeOK, Request
  <2>3. req'[q].seen = items'
    BY <2>1, <2>2 DEF Session
  <2>4. /\ MarkCancelled(q) \in [Items -> Item] /\ MarkCancelled(q)[Current(q)].status = "cancelled"
        /\ \A i \in Items : i # Current(q) => MarkCancelled(q)[i] = req[q].objects[i]
    BY <2>1, Marks
  <2> QED BY <2>1, <2>2, <2>3, <2>4, SessionMark
<1>9. ASSUME NEW q \in Requests, ReadRow(q)
      PROVE  BatchSpeaksForItems' /\ \A p \in Requests : Session(p)'
  <2>1. /\ req[q].op = "cancel" /\ UNCHANGED <<batch, items>>
        /\ req'[q] = [req[q] EXCEPT !.op = "cancelling"] /\ req[q] \in Request
    BY <1>9 DEF ReadRow, BatchTyped, TypeOK
  <2>2. /\ req'[q].op = "cancelling" /\ req'[q].batch = req[q].batch /\ req'[q].seen = req[q].seen
        /\ req'[q].objects = req[q].objects /\ req'[q].todo = req[q].todo
    BY <2>1 DEF Request
  <2>3. Session(q)'
    BY <2>1, <2>2 DEF Session, Open
  <2> QED BY <2>1, <2>3 DEF OneRequest, BatchSpeaksForItems
<1>10. ASSUME NEW q \in Requests, RequestFails(q)
       PROVE  BatchSpeaksForItems' /\ \A p \in Requests : Session(p)'
  <2>1. req'[q].op = "idle" /\ UNCHANGED <<batch, items>>
    BY <1>10 DEF RequestFails, Idle, BatchTyped, TypeOK
  <2> QED BY <2>1 DEF OneRequest, Session, BatchSpeaksForItems
<1> QED
  BY <1>1, <1>2, <1>3, <1>4, <1>5, <1>6, <1>7, <1>8, <1>9, <1>10 DEF Next, QueueStep, vars

LEMMA SessionStart == Init => SessionInv
<1> SUFFICES ASSUME Init PROVE SessionInv
  OBVIOUS
<1>1. \A q \in Requests : req[q].op = "idle"
  BY DEF Init, Idle
<1> QED
  BY <1>1, InitBatchTyped DEF Init, SessionInv, Session, BatchSpeaksForItems

\* While the requests on a batch come one after the other, no item is left pending in a
\* queued batch or uncancelled in a cancelled one, wherever a request fails.
THEOREM OneAtATimeSpeaks == ASSUME OneRequest PROVE Spec => []BatchSpeaksForItems
<1>1. SessionInv /\ [Next]_vars => SessionInv'
  BY SessionStep, StepBatchTyped DEF SessionInv
<1>2. SessionInv => BatchSpeaksForItems
  BY DEF SessionInv
<1> QED
  BY <1>1, <1>2, SessionStart, PTL DEF Spec

-----------------------------------------------------------------------------
(* Cancelling.                                                             *)

\* A row no worker has leased was queued by its batch, and is cancelled at most.
Unstarted ==
  \A r \in Rows : r \notin started =>
    hand[r] = "free" /\ status[r] \in {"absent", "queued", "cancelled"}

\* A table of items names rows that exist, and a cancelled item no row that waits unleased.
Fits(table, rows, leased) ==
  \A i \in Items : table[i].row # NoRow =>
    /\ rows[table[i].row] # "absent"
    /\ table[i].status = "cancelled" /\ table[i].row \notin leased =>
         rows[table[i].row] = "cancelled"

StopInv ==
  /\ SessionInv /\ Unstarted
  /\ Fits(items, status, started)
  /\ \A q \in Requests : req[q].op # "idle" => Fits(req[q].objects, status, started)

\* What a batch and the workers do to a row.
RowStep(r) ==
  \/ CreateQueued(r) \/ BeginCancel(r) \/ EndCancel(r) \/ AbandonCancel(r)
  \/ SenderStep(r) \/ Release({r}) \/ Retry(r)

LEMMA RowStepStops ==
  ASSUME BatchTyped, Unstarted, (\E r \in Rows : RowStep(r)) \/ UNCHANGED contractVars
  PROVE  /\ Unstarted'
         /\ \A table \in [Items -> Item] :
              Fits(table, status, started) => Fits(table, status', started')
<1> USE DEF BatchTyped, TypeOK, ContractTypeOK
<1> DEFINE Kept ==
      /\ Unstarted' /\ started \subseteq started'
      /\ \A r \in Rows : status[r] # "absent" => status'[r] # "absent"
      /\ \A r \in Rows : r \notin started' /\ status[r] = "cancelled" => status'[r] = "cancelled"
<1>1. Kept
  <2> USE DEF Unstarted, Becomes, Passes
  <2>1. ASSUME NEW r \in Rows, CreateQueued(r) PROVE Kept
    BY <2>1 DEF CreateQueued
  <2>2. ASSUME NEW r \in Rows, BeginCancel(r) \/ EndCancel(r) \/ AbandonCancel(r) PROVE Kept
    BY <2>2 DEF BeginCancel, EndCancel, AbandonCancel
  <2>3. ASSUME NEW r \in Rows, Start(r) PROVE Kept
    BY <2>3 DEF Start, Waiting
  <2>4. ASSUME NEW r \in Rows, Take(r) PROVE Kept
    BY <2>4 DEF Take
  <2>5. ASSUME NEW r \in Rows, Refuse(r) PROVE Kept
    BY <2>5 DEF Refuse, Refusals
  <2>6. ASSUME NEW r \in Rows, Succeed(r) PROVE Kept
    BY <2>6 DEF Succeed
  <2>7. ASSUME NEW r \in Rows, Drop(r) PROVE Kept
    BY <2>7 DEF Drop
  <2>8. ASSUME NEW r \in Rows, Release({r}) PROVE Kept
    BY <2>8 DEF Release
  <2>9. ASSUME NEW r \in Rows, Retry(r) PROVE Kept
    BY <2>9 DEF Retry, Retryable
  <2>10. CASE UNCHANGED contractVars
    BY <2>10 DEF contractVars
  <2> QED
    BY <2>1, <2>2, <2>3, <2>4, <2>5, <2>6, <2>7, <2>8, <2>9, <2>10 DEF RowStep, SenderStep
<1>2. /\ \A r \in Rows : status[r] # "absent" => status'[r] # "absent"
      /\ \A r \in Rows : r \notin started' => r \notin started
      /\ \A r \in Rows : r \notin started' /\ status[r] = "cancelled" => status'[r] = "cancelled"
  BY <1>1
<1> HIDE DEF Kept, BatchTyped, TypeOK, ContractTypeOK
<1>3. ASSUME NEW table \in [Items -> Item], Fits(table, status, started)
      PROVE  Fits(table, status', started')
  <2>1. ASSUME NEW i \in Items, table[i].row # NoRow
        PROVE  /\ status'[table[i].row] # "absent"
               /\ table[i].status = "cancelled" /\ table[i].row \notin started' =>
                    status'[table[i].row] = "cancelled"
    <3>1. table[i].row \in Rows
      BY <2>1 DEF Item
    <3>2. /\ status[table[i].row] # "absent"
          /\ table[i].status = "cancelled" /\ table[i].row \notin started =>
               status[table[i].row] = "cancelled"
      BY <1>3, <2>1 DEF Fits
    <3> QED BY <1>2, <3>1, <3>2
  <2> QED BY <2>1 DEF Fits
<1> QED BY <1>1, <1>3 DEF Kept

\* The mark of an item keeps a table fit if its row is none, leased, or cancelled when the
\* mark says so.
LEMMA MarkFits ==
  ASSUME NEW table \in [Items -> Item], NEW mark \in [Items -> Item], NEW c \in Items,
         NEW rows, NEW leased,
         Fits(table, rows, leased), \A i \in Items : i # c => mark[i] = table[i],
         mark[c].row # NoRow =>
           /\ rows[mark[c].row] # "absent"
           /\ mark[c].status = "cancelled" /\ mark[c].row \notin leased =>
                rows[mark[c].row] = "cancelled"
  PROVE  Fits(mark, rows, leased)
BY DEF Fits

LEMMA StopStep == ASSUME OneRequest, StopInv, [Next]_vars PROVE StopInv'
<1> USE DEF StopInv, SessionInv
<1>1. BatchTyped' /\ SessionInv'
  BY SessionStep, StepBatchTyped
<1>2. items \in [Items -> Item] /\ \A q \in Requests : req[q].objects \in [Items -> Item]
  BY DEF BatchTyped, TypeOK, Request
<1>3. CASE UNCHANGED batchVars /\ ((\E r \in Rows : RowStep(r)) \/ UNCHANGED contractVars)
  <2>1. Unstarted'
    BY <1>3, RowStepStops
  <2>2. Fits(items, status', started') /\
        \A q \in Requests : req[q].op # "idle" => Fits(req[q].objects, status', started')
    BY <1>2, <1>3, RowStepStops
  <2> QED BY <1>1, <1>3, <2>1, <2>2 DEF batchVars
<1>4. CASE CreateBatch
  BY <1>1, <1>4 DEF CreateBatch, contractVars, Unstarted
<1>5. ASSUME NEW q \in Requests, LoadForEnqueue(q) \/ LoadForCancel(q) PROVE StopInv'
  <2>1. UNCHANGED <<contractVars, items>> /\ req'[q].objects = items
    BY <1>5 DEF LoadForEnqueue, LoadForCancel, Load, BatchTyped, TypeOK
  <2>2. Fits(items', status', started') /\ Fits(req'[q].objects, status', started')
    BY <2>1 DEF contractVars
  <2> QED BY <1>1, <2>1, <2>2 DEF OneRequest, Unstarted, contractVars
<1>6. ASSUME NEW q \in Requests, FinishEnqueue(q) \/ FinishCancel(q) PROVE StopInv'
  <2>1. UNCHANGED contractVars /\ req[q].op # "idle" /\ items' = Written(q) /\ req'[q].op = "idle"
    BY <1>6 DEF FinishEnqueue, FinishCancel, Finish, Idle, BatchTyped, TypeOK
  <2>2. items' = req[q].objects
    BY <2>1, WrittenIsHeld DEF Session
  <2>3. Fits(items', status', started')
    BY <2>1, <2>2 DEF contractVars
  <2> QED BY <1>1, <2>1, <2>3 DEF OneRequest, Unstarted, contractVars
<1>7. ASSUME NEW q \in Requests, NEW r \in Rows, EnqueueItem(q, r) PROVE StopInv'
  <2> DEFINE m == [req[q].objects EXCEPT ![Current(q)] = [status |-> "queued", row |-> r]]
  <2>1. /\ req[q].op = "enqueue" /\ req[q].todo # {} /\ CreateQueued(r)
        /\ CommitThenMark(q, "enqueue", m)
    BY <1>7 DEF EnqueueItem
  <2>2. items' = req[q].objects /\ req'[q].objects = m
    BY <2>1, WrittenIsHeld DEF CommitThenMark, Session, BatchTyped, TypeOK
  <2>3. Unstarted' /\ Fits(req[q].objects, status', started')
    BY <1>2, <2>1, RowStepStops DEF RowStep
  <2>4. status'[r] = "queued"
    BY <2>1 DEF CreateQueued, Becomes, BatchTyped, TypeOK, ContractTypeOK
  <2>5. /\ Current(q) \in Items /\ m \in [Items -> Item]
        /\ m[Current(q)].status = "queued" /\ m[Current(q)].row = r
        /\ \A i \in Items : i # Current(q) => m[i] = req[q].objects[i]
    BY <2>1, Marks
  <2> HIDE DEF m
  <2>6. Fits(m, status', started')
    BY <1>2, <2>3, <2>4, <2>5, MarkFits
  <2> QED BY <1>1, <2>2, <2>3, <2>6 DEF OneRequest
<1>8. ASSUME NEW q \in Requests, CancelRow(q) PROVE StopInv'
  <2> DEFINE r == req[q].objects[Current(q)].row
  <2>1. /\ req[q].op = "cancelling" /\ req[q].todo # {} /\ r \in Rows /\ EndCancel(r)
        /\ CommitThenMark(q, "cancel", MarkCancelled(q))
    BY <1>8 DEF CancelRow, BatchTyped, CancelsRow
  <2>2. items' = req[q].objects /\ req'[q].objects = MarkCancelled(q)
    BY <2>1, WrittenIsHeld DEF CommitThenMark, Session, BatchTyped, TypeOK
  <2>3. Unstarted' /\ Fits(req[q].objects, status', started')
    BY <1>2, <2>1, RowStepStops DEF RowStep
  <2>4. status'[r] = "cancelled"
    BY <2>1 DEF EndCancel, Becomes, BatchTyped, TypeOK, ContractTypeOK
  <2>5. /\ Current(q) \in Items /\ MarkCancelled(q) \in [Items -> Item]
        /\ MarkCancelled(q)[Current(q)].row = r
        /\ \A i \in Items : i # Current(q) => MarkCancelled(q)[i] = req[q].objects[i]
    BY <2>1, Marks
  <2>6. Fits(MarkCancelled(q), status', started')
    BY <1>2, <2>3, <2>4, <2>5, MarkFits
  <2> QED BY <1>1, <2>2, <2>3, <2>6 DEF OneRequest
<1>9. ASSUME NEW q \in Requests, MarkOnly(q) PROVE StopInv'
  <2> DEFINE r == req[q].objects[Current(q)].row
  <2>1. /\ req[q].op = "cancel" /\ req[q].todo # {} /\ UNCHANGED <<contractVars, items>>
        /\ r # NoRow => status[r] \notin Cancellable
    BY <1>9 DEF MarkOnly
  <2>2. /\ Current(q) \in Items /\ MarkCancelled(q) \in [Items -> Item]
        /\ MarkCancelled(q)[Current(q)].row = r /\ req[q] \in Request
        /\ \A i \in Items : i # Current(q) => MarkCancelled(q)[i] = req[q].objects[i]
    BY <2>1, Marks
  <2>3. req'[q].objects = MarkCancelled(q)
    BY <1>9, <2>2 DEF MarkOnly, BatchTyped, TypeOK, Request
  <2>4. r # NoRow => status[r] # "absent" /\ (r \notin started => status[r] = "cancelled")
    <3>1. r # NoRow => r \in Rows /\ status[r] # "absent"
      BY <1>2, <2>1, <2>2 DEF Fits, Item
    <3> QED BY <2>1, <3>1 DEF Unstarted, Cancellable
  <2>5. Fits(MarkCancelled(q), status, started)
    BY <1>2, <2>1, <2>2, <2>4, MarkFits
  <2>6. UNCHANGED <<status, started, hand, items>>
    BY <2>1 DEF contractVars
  <2> QED BY <1>1, <2>3, <2>5, <2>6 DEF OneRequest, Unstarted
<1>10. ASSUME NEW q \in Requests, ReadRow(q) PROVE StopInv'
  <2> DEFINE r == req[q].objects[Current(q)].row
  <2>1. /\ req[q].op = "cancel" /\ req[q].todo # {} /\ r # NoRow /\ BeginCancel(r)
        /\ UNCHANGED items /\ req'[q] = [req[q] EXCEPT !.op = "cancelling"]
    BY <1>10 DEF ReadRow, BatchTyped, TypeOK
  <2>2. Current(q) \in Items /\ req[q] \in Request
    BY <2>1, Marks
  <2>3. r \in Rows /\ req'[q].objects = req[q].objects
    BY <1>2, <2>1, <2>2 DEF Item, Request
  <2>4. UNCHANGED <<status, started, hand>>
    BY <2>1 DEF BeginCancel
  <2> QED BY <1>1, <2>1, <2>3, <2>4 DEF OneRequest, Unstarted
<1>11. ASSUME NEW q \in Requests, RequestFails(q) PROVE StopInv'
  <2>1. UNCHANGED items /\ req'[q].op = "idle" /\ UNCHANGED <<status, started, hand>>
    BY <1>11 DEF RequestFails, AbandonCancel, contractVars, Idle, BatchTyped, TypeOK
  <2> QED BY <1>1, <2>1 DEF OneRequest, Unstarted
<1> QED
  BY <1>3, <1>4, <1>5, <1>6, <1>7, <1>8, <1>9, <1>10, <1>11
     DEF Next, QueueStep, RowStep, vars

LEMMA StopStart == Init => StopInv
<1> SUFFICES ASSUME Init PROVE StopInv
  OBVIOUS
<1>1. \A q \in Requests : req[q].op = "idle"
  BY DEF Init, Idle
<1>2. Unstarted /\ Fits(items, status, started)
  BY DEF Init, ContractInit, NoItems, Unstarted, Fits
<1> QED BY <1>1, <1>2, SessionStart DEF StopInv

\* While the requests on a batch come one after the other, the row of a cancelled item that
\* no worker ever leased is cancelled itself, wherever a request fails.
THEOREM OneAtATimeStops == ASSUME OneRequest PROVE Spec => []CancelStopsUnstarted
<1>1. StopInv /\ [Next]_vars => StopInv'
  BY StopStep
<1>2. StopInv => CancelStopsUnstarted
  BY DEF StopInv, Fits, CancelStopsUnstarted
<1> QED
  BY <1>1, <1>2, StopStart, PTL DEF Spec

-----------------------------------------------------------------------------
(* Failed enqueues.                                                        *)

\* What a request holds: the rows it read are in the table for good, and it holds at most
\* one row that it has not committed to its item.
RowsHeld(q) ==
  /\ req[q].op = "idle" => \A i \in Items : req[q].objects[i].row = NoRow
  /\ \A i \in Items : req[q].seen[i].row # NoRow =>
       items[i].row # NoRow /\ req[q].objects[i].row # NoRow
  /\ \A i, j \in Items :
       /\ req[q].seen[i].row = NoRow /\ req[q].objects[i].row # NoRow
       /\ req[q].seen[j].row = NoRow /\ req[q].objects[j].row # NoRow
       => i = j

ForgottenInv == BatchTyped /\ ForgottenRowsExplained /\ \A q \in Requests : RowsHeld(q)

\* No item that has a row loses it.
RowsStay == \A i \in Items : items[i].row # NoRow => items'[i].row # NoRow

\* A commit takes no row away from an item, and gives each item the row the request holds.
LEMMA CommitsRows ==
  ASSUME BatchTyped, NEW q \in Requests, RowsHeld(q), items' = Written(q)
  PROVE  /\ RowsStay
         /\ \A i \in Items : req[q].objects[i].row # NoRow => items'[i].row # NoRow
<1>1. ASSUME NEW i \in Items
      PROVE  items'[i].row = Column(items[i].row, req[q].seen[i].row, req[q].objects[i].row)
  BY DEF Written
<1>2. \A i \in Items : req[q].seen[i].row # NoRow =>
        items[i].row # NoRow /\ req[q].objects[i].row # NoRow
  BY DEF RowsHeld
<1> QED BY <1>1, <1>2 DEF Column, RowsStay

\* Nobody else's request is disturbed by a step that takes no row away.
LEMMA OthersHold ==
  ASSUME ForgottenInv, NEW q \in Requests, RowsStay, RowsHeld(q)',
         \A p \in Requests : p # q => req'[p] = req[p]
  PROVE  \A p \in Requests : RowsHeld(p)'
<1>1. ASSUME NEW p \in Requests, p # q PROVE RowsHeld(p)'
  <2>1. req'[p] = req[p] /\ RowsHeld(p)
    BY <1>1 DEF ForgottenInv
  <2> QED BY <2>1 DEF RowsHeld, RowsStay
<1> QED BY <1>1

\* Items are finitely many, so that the forgotten ones can be counted.
LEMMA ForgottenFinite ==
  ASSUME NEW S \in SUBSET Items
  PROVE  IsFiniteSet(S) /\ Cardinality(S) \in Nat
<1>1. IsFiniteSet(Items)
  BY BatchAssumption, FS_Interval DEF Items
<1> QED BY <1>1, FS_Subset, FS_CardinalityType

\* A step after which no further item is forgotten keeps the bound.
LEMMA NothingForgotten ==
  ASSUME ForgottenInv, Forgotten' \subseteq Forgotten, failures' = failures
  PROVE  ForgottenRowsExplained'
<1>1. Forgotten \in SUBSET Items
  BY DEF Forgotten
<1>2. IsFiniteSet(Forgotten) /\ Cardinality(Forgotten) \in Nat
  BY <1>1, ForgottenFinite
<1>3. Cardinality(Forgotten') <= Cardinality(Forgotten) /\ Cardinality(Forgotten') \in Nat
  BY <1>2, FS_Subset, FS_CardinalityType
<1> HIDE DEF Forgotten
<1>4. Cardinality(Forgotten) <= failures
  BY DEF ForgottenInv, ForgottenRowsExplained
<1>5. failures \in Nat
  BY BatchAssumption DEF ForgottenInv, BatchTyped, TypeOK
<1>6. Cardinality(Forgotten') <= failures'
  BY <1>2, <1>3, <1>4, <1>5
<1> QED BY <1>6 DEF ForgottenRowsExplained

\* A step after which one item more is forgotten costs a failure.
LEMMA OneForgotten ==
  ASSUME ForgottenInv, NEW f, Forgotten' \subseteq Forgotten \cup {f}, failures' = failures + 1
  PROVE  ForgottenRowsExplained'
<1>1. Forgotten \in SUBSET Items
  BY DEF Forgotten
<1>2. IsFiniteSet(Forgotten) /\ Cardinality(Forgotten) \in Nat
  BY <1>1, ForgottenFinite
<1> HIDE DEF Forgotten
<1>3. /\ IsFiniteSet(Forgotten \cup {f})
      /\ Cardinality(Forgotten \cup {f}) =
           IF f \in Forgotten THEN Cardinality(Forgotten) ELSE Cardinality(Forgotten) + 1
  BY <1>2, FS_AddElement
<1>4. /\ Cardinality(Forgotten') <= Cardinality(Forgotten \cup {f})
      /\ Cardinality(Forgotten') \in Nat
  BY <1>3, FS_Subset, FS_CardinalityType
<1>5. Cardinality(Forgotten) <= failures
  BY DEF ForgottenInv, ForgottenRowsExplained
<1>6. failures \in Nat
  BY BatchAssumption DEF ForgottenInv, BatchTyped, TypeOK
<1>7. Cardinality(Forgotten') <= failures'
  BY <1>2, <1>3, <1>4, <1>5, <1>6
<1> QED BY <1>7 DEF ForgottenRowsExplained

\* Nothing is forgotten while a commit or a load lets whoever knows a row keep it.
LEMMA KnownStaysKnown ==
  ASSUME NEW q \in Requests, RowsStay, UNCHANGED madeFor,
         \A p \in Requests : p # q => req'[p] = req[p],
         \A i \in Items : req[q].objects[i].row # NoRow =>
           items'[i].row # NoRow \/ req'[q].objects[i].row # NoRow
  PROVE  Forgotten' \subseteq Forgotten
<1> SUFFICES ASSUME NEW i \in Forgotten' PROVE i \in Forgotten
  OBVIOUS
<1>1. /\ i \in Items /\ MadeFor(i)' # {} /\ items'[i].row = NoRow
      /\ \A p \in Requests : req'[p].objects[i].row = NoRow
  BY DEF Forgotten
<1>2. MadeFor(i) # {}
  BY <1>1 DEF MadeFor
<1>3. items[i].row = NoRow
  BY <1>1 DEF RowsStay
<1>4. \A p \in Requests : req[p].objects[i].row = NoRow
  BY <1>1
<1> QED BY <1>1, <1>2, <1>3, <1>4 DEF Forgotten

\* A mark that leaves the rows of the objects as they are, on the way of a cancel.
LEMMA CancelMarkKeepsRows ==
  ASSUME BatchTyped, NEW q \in Requests, req[q].todo # {}
  PROVE  \A i \in Items : MarkCancelled(q)[i].row = req[q].objects[i].row
<1>1. /\ MarkCancelled(q)[Current(q)].row = req[q].objects[Current(q)].row
      /\ \A i \in Items : i # Current(q) => MarkCancelled(q)[i] = req[q].objects[i]
  BY Marks
<1> QED BY <1>1

LEMMA LoadRemembers ==
  ASSUME ForgottenInv, NEW q \in Requests, NEW op, op # "idle", Load(q, op),
         UNCHANGED <<items, madeFor, failures>>
  PROVE  ForgottenRowsExplained' /\ \A p \in Requests : RowsHeld(p)'
<1>1. /\ req'[q].op = op /\ req'[q].seen = items /\ req'[q].objects = items
      /\ \A p \in Requests : p # q => req'[p] = req[p]
  BY DEF Load, ForgottenInv, BatchTyped, TypeOK
<1>2. RowsStay
  BY DEF RowsStay
<1>3. RowsHeld(q)'
  BY <1>1 DEF RowsHeld
<1>4. \A i \in Items : req[q].objects[i].row = NoRow
  BY DEF ForgottenInv, RowsHeld, Load
<1>5. Forgotten' \subseteq Forgotten
  BY <1>1, <1>2, <1>4, KnownStaysKnown
<1> QED BY <1>1, <1>2, <1>3, <1>5, OthersHold, NothingForgotten

LEMMA FinishRemembers ==
  ASSUME ForgottenInv, NEW q \in Requests, NEW s, Finish(q, s), UNCHANGED <<madeFor, failures>>
  PROVE  ForgottenRowsExplained' /\ \A p \in Requests : RowsHeld(p)'
<1>1. /\ items' = Written(q) /\ req'[q] = Idle
      /\ \A p \in Requests : p # q => req'[p] = req[p]
  BY DEF Finish, ForgottenInv, BatchTyped, TypeOK
<1>2. RowsStay /\ \A i \in Items : req[q].objects[i].row # NoRow => items'[i].row # NoRow
  BY <1>1, CommitsRows DEF ForgottenInv
<1>3. RowsHeld(q)'
  BY <1>1 DEF RowsHeld, Idle, NoItems
<1>4. Forgotten' \subseteq Forgotten
  BY <1>1, <1>2, KnownStaysKnown
<1> QED BY <1>1, <1>2, <1>3, <1>4, OthersHold, NothingForgotten

LEMMA EnqueueRemembers ==
  ASSUME ForgottenInv, NEW q \in Requests, NEW r \in Rows, EnqueueItem(q, r)
  PROVE  ForgottenRowsExplained' /\ \A p \in Requests : RowsHeld(p)'
<1> DEFINE m == [req[q].objects EXCEPT ![Current(q)] = [status |-> "queued", row |-> r]]
<1>1. /\ req[q].todo # {} /\ CommitThenMark(q, "enqueue", m) /\ UNCHANGED failures
      /\ madeFor' = [madeFor EXCEPT ![r] = Current(q)]
  BY DEF EnqueueItem
<1>2. /\ items' = Written(q) /\ req'[q].op = "enqueue"
      /\ req'[q].seen = req[q].objects /\ req'[q].objects = m
      /\ \A p \in Requests : p # q => req'[p] = req[p]
  BY <1>1 DEF CommitThenMark, ForgottenInv, BatchTyped, TypeOK
<1>3. /\ Current(q) \in Items /\ m[Current(q)].row = r
      /\ \A i \in Items : i # Current(q) => m[i] = req[q].objects[i]
  BY <1>1, Marks DEF ForgottenInv
<1>4. r # NoRow
  BY BatchAssumption
<1> HIDE DEF m
<1>5. RowsStay /\ \A i \in Items : req[q].objects[i].row # NoRow => items'[i].row # NoRow
  BY <1>2, CommitsRows DEF ForgottenInv
<1>6. RowsHeld(q)'
  BY <1>2, <1>3, <1>4, <1>5 DEF RowsHeld
<1>7. Forgotten' \subseteq Forgotten
  <2> SUFFICES ASSUME NEW i \in Forgotten' PROVE i \in Forgotten
    OBVIOUS
  <2>1. /\ i \in Items /\ MadeFor(i)' # {} /\ items'[i].row = NoRow
        /\ \A p \in Requests : req'[p].objects[i].row = NoRow
    BY DEF Forgotten
  <2>2. i # Current(q)
    BY <1>2, <1>3, <1>4, <2>1
  <2>3. MadeFor(i) # {}
    BY <1>1, <2>1, <2>2 DEF MadeFor, ForgottenInv, BatchTyped, TypeOK
  <2>4. items[i].row = NoRow
    BY <1>5, <2>1 DEF RowsStay
  <2>5. req[q].objects[i].row = NoRow
    BY <1>2, <1>3, <2>1, <2>2
  <2>6. \A p \in Requests : req[p].objects[i].row = NoRow
    BY <1>2, <2>1, <2>5
  <2> QED BY <2>1, <2>3, <2>4, <2>6 DEF Forgotten
<1> QED BY <1>1, <1>2, <1>5, <1>6, <1>7, OthersHold, NothingForgotten

\* A cancel that commits or only marks leaves every item its row.
LEMMA CancelRemembers ==
  ASSUME ForgottenInv, NEW q \in Requests, CancelRow(q) \/ MarkOnly(q) \/ ReadRow(q)
  PROVE  ForgottenRowsExplained' /\ \A p \in Requests : RowsHeld(p)'
<1>1. UNCHANGED <<madeFor, failures>> /\ \A p \in Requests : p # q => req'[p] = req[p]
  BY DEF CancelRow, MarkOnly, ReadRow, CommitThenMark, ForgottenInv, BatchTyped, TypeOK
<1>2. req[q].todo # {} /\ req[q] \in Request
  BY DEF CancelRow, MarkOnly, ReadRow, ForgottenInv, BatchTyped, TypeOK, CancelsRow
<1>3. \A i \in Items : MarkCancelled(q)[i].row = req[q].objects[i].row
  BY <1>2, CancelMarkKeepsRows DEF ForgottenInv
<1>4. CASE CancelRow(q)
  <2>1. /\ items' = Written(q) /\ req'[q].op = "cancel"
        /\ req'[q].seen = req[q].objects /\ req'[q].objects = MarkCancelled(q)
    BY <1>4 DEF CancelRow, CommitThenMark, ForgottenInv, BatchTyped, TypeOK
  <2>2. RowsStay /\ \A i \in Items : req[q].objects[i].row # NoRow => items'[i].row # NoRow
    BY <2>1, CommitsRows DEF ForgottenInv
  <2>3. RowsHeld(q)'
    BY <1>3, <2>1, <2>2 DEF RowsHeld
  <2>4. Forgotten' \subseteq Forgotten
    BY <1>1, <2>2, KnownStaysKnown
  <2> QED BY <1>1, <2>2, <2>3, <2>4, OthersHold, NothingForgotten
<1>5. CASE MarkOnly(q) \/ ReadRow(q)
  <2>1. /\ items' = items /\ req'[q].op # "idle" /\ req'[q].seen = req[q].seen
        /\ req'[q].objects \in {req[q].objects, MarkCancelled(q)}
    BY <1>2, <1>5 DEF MarkOnly, ReadRow, ForgottenInv, BatchTyped, TypeOK, Request
  <2>2. \A i \in Items : req'[q].objects[i].row = req[q].objects[i].row
    BY <1>3, <2>1
  <2>3. RowsStay
    BY <2>1 DEF RowsStay
  <2>4. RowsHeld(q)'
    BY <2>1, <2>2 DEF RowsHeld, ForgottenInv
  <2>5. Forgotten' \subseteq Forgotten
    BY <1>1, <2>2, <2>3, KnownStaysKnown
  <2> QED BY <1>1, <2>3, <2>4, <2>5, OthersHold, NothingForgotten
<1> QED BY <1>4, <1>5

\* A request that fails takes the knowledge of one row with it: that of its last item.
LEMMA FailureForgetsOne ==
  ASSUME ForgottenInv, NEW q \in Requests, RequestFails(q)
  PROVE  ForgottenRowsExplained' /\ \A p \in Requests : RowsHeld(p)'
<1>1. /\ UNCHANGED <<items, madeFor>> /\ failures' = failures + 1 /\ req'[q] = Idle
      /\ \A p \in Requests : p # q => req'[p] = req[p]
  BY DEF RequestFails, ForgottenInv, BatchTyped, TypeOK
<1>2. RowsHeld(q)'
  BY <1>1 DEF RowsHeld, Idle, NoItems
<1>3. RowsStay
  BY <1>1 DEF RowsStay
<1> DEFINE Fresh(i) == req[q].objects[i].row # NoRow /\ items[i].row = NoRow
<1>4. \A i, j \in Items : Fresh(i) /\ Fresh(j) => i = j
  BY DEF ForgottenInv, RowsHeld
<1>5. ASSUME NEW i \in Forgotten', i \notin Forgotten PROVE i \in Items /\ Fresh(i)
  <2>1. /\ i \in Items /\ MadeFor(i)' # {} /\ items'[i].row = NoRow
        /\ \A p \in Requests : req'[p].objects[i].row = NoRow
    BY <1>5 DEF Forgotten
  <2>2. MadeFor(i) # {} /\ items[i].row = NoRow
    BY <1>1, <2>1 DEF MadeFor
  <2>3. PICK p \in Requests : req[p].objects[i].row # NoRow
    BY <1>5, <2>1, <2>2 DEF Forgotten
  <2>4. p = q
    BY <1>1, <2>1, <2>3
  <2> QED BY <2>1, <2>2, <2>3, <2>4
<1> HIDE DEF Fresh
<1>6. PICK f : Forgotten' \subseteq Forgotten \cup {f}
  BY <1>4, <1>5
<1> QED BY <1>1, <1>2, <1>3, <1>6, OthersHold, OneForgotten

LEMMA ForgottenStep == ASSUME ForgottenInv, [Next]_vars PROVE ForgottenInv'
<1>1. BatchTyped'
  BY StepBatchTyped DEF ForgottenInv
<1>2. ASSUME UNCHANGED <<items, req, madeFor, failures>>
      PROVE  ForgottenRowsExplained' /\ \A p \in Requests : RowsHeld(p)'
  BY <1>2 DEF ForgottenInv, ForgottenRowsExplained, Forgotten, MadeFor, RowsHeld
<1>3. CASE UNCHANGED vars \/ CreateBatch \/ (\E r \in Rows : QueueStep(r))
  BY <1>1, <1>2, <1>3 DEF vars, batchVars, CreateBatch, QueueStep, ForgottenInv
<1>4. ASSUME NEW q \in Requests,
             \/ LoadForEnqueue(q) \/ (\E r \in Rows : EnqueueItem(q, r)) \/ FinishEnqueue(q)
             \/ LoadForCancel(q) \/ ReadRow(q) \/ CancelRow(q) \/ MarkOnly(q) \/ FinishCancel(q)
             \/ RequestFails(q)
      PROVE  ForgottenRowsExplained' /\ \A p \in Requests : RowsHeld(p)'
  <2>1. CASE LoadForEnqueue(q) \/ LoadForCancel(q)
    BY <2>1, LoadRemembers DEF LoadForEnqueue, LoadForCancel
  <2>2. CASE FinishEnqueue(q) \/ FinishCancel(q)
    BY <2>2, FinishRemembers DEF FinishEnqueue, FinishCancel
  <2> QED BY <1>4, <2>1, <2>2, EnqueueRemembers, CancelRemembers, FailureForgetsOne
<1> QED
  BY <1>1, <1>3, <1>4 DEF Next, ForgottenInv

LEMMA ForgottenStart == Init => ForgottenInv
<1> SUFFICES ASSUME Init PROVE ForgottenInv
  OBVIOUS
<1>1. \A q \in Requests : RowsHeld(q)
  BY DEF Init, RowsHeld, Idle, NoItems
<1>2. Forgotten = {}
  BY DEF Init, Forgotten, MadeFor, Items
<1>3. Cardinality(Forgotten) = 0 /\ failures = 0
  BY <1>2, FS_EmptySet DEF Init
<1> QED
  BY <1>1, <1>3, InitBatchTyped DEF ForgottenInv, ForgottenRowsExplained

\* However requests overlap and wherever they fail, no more rows are unknown to their items
\* than requests have failed.
THEOREM FailuresForgetOneRow == Spec => []ForgottenRowsExplained
<1>1. ForgottenInv /\ [Next]_vars => ForgottenInv'
  BY ForgottenStep
<1>2. ForgottenInv => ForgottenRowsExplained
  BY DEF ForgottenInv
<1> QED
  BY <1>1, <1>2, ForgottenStart, PTL DEF Spec

-----------------------------------------------------------------------------
(* What the folds of the community modules compute.                        *)

Total(f, T) == MapThenSumSet(LAMBDA r : f[r], T)
Pick(s) == CHOOSE x \in s : TRUE

\* The sums of a family of sets that contains what is left when an element is taken away.
Sums(h, f, D) == h = [s \in D |-> IF s = {} THEN 0 ELSE f[Pick(s)] + h[s \ {Pick(s)}]]
UpTo(S, n) == {s \in SUBSET S : Cardinality(s) <= n}

LEMMA PickLeaves ==
  ASSUME NEW s, IsFiniteSet(s), s # {}
  PROVE  /\ Pick(s) \in s /\ IsFiniteSet(s \ {Pick(s)})
         /\ Cardinality(s) \in Nat /\ Cardinality(s) # 0
         /\ Cardinality(s \ {Pick(s)}) = Cardinality(s) - 1
<1>1. Pick(s) \in s
  BY DEF Pick
<1> QED BY <1>1, FS_RemoveElement, FS_CardinalityType, FS_EmptySet

LEMMA SumsExistUpTo ==
  ASSUME NEW f, NEW S, IsFiniteSet(S), NEW n \in Nat
  PROVE  \E h : Sums(h, f, UpTo(S, n))
<1> DEFINE Stuck == {k \in Nat : ~\E h : Sums(h, f, UpTo(S, k))}
<1> SUFFICES ASSUME n \in Stuck PROVE FALSE
  OBVIOUS
<1>1. PICK k \in Stuck : \A j \in Nat : j < k => j \notin Stuck
  BY LeastOf
<1>2. \A s \in SUBSET S : IsFiniteSet(s) /\ Cardinality(s) \in Nat
  BY FS_Subset, FS_CardinalityType
<1>3. CASE k = 0
  <2>1. \A s \in UpTo(S, 0) : s = {}
    BY <1>2, FS_EmptySet DEF UpTo
  <2> DEFINE h == [s \in UpTo(S, 0) |-> 0]
  <2>2. h = [s \in UpTo(S, 0) |-> IF s = {} THEN 0 ELSE f[Pick(s)] + h[s \ {Pick(s)}]]
    BY <2>1
  <2>3. Sums(h, f, UpTo(S, 0))
    BY <2>2 DEF Sums
  <2> QED BY <1>3, <2>3
<1>4. CASE k # 0
  <2>1. k - 1 \in Nat /\ k - 1 < k /\ k - 1 \notin Stuck
    BY <1>1, <1>4
  <2>2. PICK h : Sums(h, f, UpTo(S, k - 1))
    BY <2>1
  <2> DEFINE g == [s \in UpTo(S, k) |-> IF s = {} THEN 0 ELSE f[Pick(s)] + h[s \ {Pick(s)}]]
  <2>3. ASSUME NEW s \in UpTo(S, k), s # {} PROVE s \ {Pick(s)} \in UpTo(S, k - 1)
    BY <1>2, <2>1, <2>3, PickLeaves DEF UpTo
  <2>4. UpTo(S, k - 1) \subseteq UpTo(S, k)
    BY <1>2, <2>1 DEF UpTo
  <2>5. ASSUME NEW s \in UpTo(S, k - 1) PROVE g[s] = h[s]
    <3>1. h[s] = IF s = {} THEN 0 ELSE f[Pick(s)] + h[s \ {Pick(s)}]
      BY <2>2 DEF Sums
    <3>2. s \in UpTo(S, k)
      BY <2>4
    <3> QED BY <3>1, <3>2
  <2>6. ASSUME NEW s \in UpTo(S, k)
        PROVE  g[s] = IF s = {} THEN 0 ELSE f[Pick(s)] + g[s \ {Pick(s)}]
    BY <2>3, <2>5
  <2>7. g = [s \in UpTo(S, k) |-> g[s]]
    OBVIOUS
  <2> HIDE DEF g
  <2>8. g = [s \in UpTo(S, k) |-> IF s = {} THEN 0 ELSE f[Pick(s)] + g[s \ {Pick(s)}]]
    BY <2>6, <2>7
  <2>9. Sums(g, f, UpTo(S, k))
    BY <2>8 DEF Sums
  <2> QED BY <2>9
<1> QED BY <1>3, <1>4

\* The sums over the subsets of a finite set exist, and the fold is the last of them.
LEMMA SumsExist ==
  ASSUME NEW f, NEW S, IsFiniteSet(S)
  PROVE  \E h : Sums(h, f, SUBSET S) /\ Total(f, S) = h[S]
<1> DEFINE h == CHOOSE g : Sums(g, f, SUBSET S)
<1>1. Cardinality(S) \in Nat /\ \A s \in SUBSET S : Cardinality(s) <= Cardinality(S)
  BY FS_Subset, FS_CardinalityType
<1>2. UpTo(S, Cardinality(S)) = SUBSET S
  BY <1>1 DEF UpTo
<1>3. \E g : Sums(g, f, SUBSET S)
  <2>1. \E g : Sums(g, f, UpTo(S, Cardinality(S)))
    BY <1>1, SumsExistUpTo, Zenon
  <2> QED BY <1>2, <2>1, Zenon
<1>4. Sums(h, f, SUBSET S)
  BY <1>3
<1>5. Total(f, S) = (CHOOSE g : g = [s \in SUBSET S |-> IF s = {} THEN 0 ELSE f[Pick(s)] + g[s \ {Pick(s)}]])[S]
  BY DEF Total, MapThenSumSet, MapThenFoldSet, Pick
<1>6. Total(f, S) = h[S]
  BY <1>5 DEF Sums
<1> QED BY <1>4, <1>6

\* Sums over different sets agree on the subsets of both.
LEMMA SumsAgree ==
  ASSUME NEW f, NEW S, IsFiniteSet(S), NEW T \in SUBSET S,
         NEW h, NEW H, H = SUBSET S, Sums(h, f, H),
         NEW g, NEW G, G = SUBSET T, Sums(g, f, G)
  PROVE  h[T] = g[T]
<1>1. \A s \in SUBSET T : s \in SUBSET S /\ IsFiniteSet(s) /\ Cardinality(s) \in Nat
  BY FS_Subset, FS_CardinalityType
<1> DEFINE Bad == {n \in Nat : \E s \in SUBSET T : Cardinality(s) = n /\ h[s] # g[s]}
<1> SUFFICES ASSUME Bad # {} PROVE FALSE
  BY <1>1
<1>2. PICK n \in Bad : \A m \in Nat : m < n => m \notin Bad
  BY LeastOf
<1>3. PICK s \in SUBSET T : Cardinality(s) = n /\ h[s] # g[s]
  BY <1>2
<1>4. /\ h[s] = IF s = {} THEN 0 ELSE f[Pick(s)] + h[s \ {Pick(s)}]
      /\ g[s] = IF s = {} THEN 0 ELSE f[Pick(s)] + g[s \ {Pick(s)}]
  BY <1>1 DEF Sums
<1>5. s # {}
  BY <1>3, <1>4
<1>6. /\ s \ {Pick(s)} \in SUBSET T
      /\ Cardinality(s \ {Pick(s)}) \in Nat /\ Cardinality(s \ {Pick(s)}) < n
  BY <1>1, <1>3, <1>5, PickLeaves
<1>7. h[s \ {Pick(s)}] = g[s \ {Pick(s)}]
  BY <1>2, <1>6
<1> QED BY <1>3, <1>4, <1>5, <1>7

\* What the fold computes: nothing for no element, and one element more for one more.
LEMMA TotalUnfolds ==
  ASSUME NEW f, NEW S, IsFiniteSet(S)
  PROVE  Total(f, S) = IF S = {} THEN 0 ELSE f[Pick(S)] + Total(f, S \ {Pick(S)})
<1>1. PICK h : Sums(h, f, SUBSET S) /\ Total(f, S) = h[S]
  BY SumsExist
<1>2. h[S] = IF S = {} THEN 0 ELSE f[Pick(S)] + h[S \ {Pick(S)}]
  BY <1>1 DEF Sums
<1>3. ASSUME S # {} PROVE h[S \ {Pick(S)}] = Total(f, S \ {Pick(S)})
  <2> PICK T : T = S \ {Pick(S)}
    OBVIOUS
  <2>1. IsFiniteSet(T) /\ T \in SUBSET S
    BY <1>3, PickLeaves
  <2>2. PICK g : Sums(g, f, SUBSET T) /\ Total(f, T) = g[T]
    BY <2>1, SumsExist
  <2>3. h[T] = g[T]
    <3> PICK H, G : H = SUBSET S /\ G = SUBSET T
      OBVIOUS
    <3>1. Sums(h, f, H) /\ Sums(g, f, G)
      BY <1>1, <2>2
    <3> QED BY <2>1, <3>1, SumsAgree
  <2> QED BY <2>2, <2>3
<1> QED BY <1>1, <1>2, <1>3

\* Sums of numbers are numbers.
LEMMA TotalNat ==
  ASSUME NEW f, NEW S, IsFiniteSet(S), \A x \in S : f[x] \in Nat
  PROVE  Total(f, S) \in Nat
<1>1. \A s \in SUBSET S : IsFiniteSet(s) /\ Cardinality(s) \in Nat
  BY FS_Subset, FS_CardinalityType
<1> DEFINE Bad == {n \in Nat : \E s \in SUBSET S : Cardinality(s) = n /\ Total(f, s) \notin Nat}
<1> SUFFICES ASSUME Bad # {} PROVE FALSE
  BY <1>1
<1>2. PICK n \in Bad : \A m \in Nat : m < n => m \notin Bad
  BY LeastOf
<1>3. PICK s \in SUBSET S : Cardinality(s) = n /\ Total(f, s) \notin Nat
  BY <1>2
<1>4. Total(f, s) = IF s = {} THEN 0 ELSE f[Pick(s)] + Total(f, s \ {Pick(s)})
  BY <1>1, TotalUnfolds
<1>5. s # {}
  BY <1>3, <1>4
<1>6. /\ s \ {Pick(s)} \in SUBSET S /\ Pick(s) \in S
      /\ Cardinality(s \ {Pick(s)}) \in Nat /\ Cardinality(s \ {Pick(s)}) < n
  BY <1>1, <1>3, <1>5, PickLeaves
<1>7. Total(f, s \ {Pick(s)}) \in Nat
  BY <1>2, <1>6
<1>8. f[Pick(s)] \in Nat
  BY <1>6
<1> QED BY <1>3, <1>4, <1>5, <1>7, <1>8

\* Any element may be taken out of a sum.
LEMMA TotalPart ==
  ASSUME NEW f, NEW S, IsFiniteSet(S), \A y \in S : f[y] \in Nat, NEW x \in S
  PROVE  Total(f, S) = f[x] + Total(f, S \ {x})
<1>1. \A s \in SUBSET S : IsFiniteSet(s) /\ Cardinality(s) \in Nat
  BY FS_Subset, FS_CardinalityType
<1>2. \A s \in SUBSET S : Total(f, s) \in Nat
  BY <1>1, TotalNat
<1> DEFINE Parts(s) == \A y \in s : Total(f, s) = f[y] + Total(f, s \ {y})
<1> DEFINE Bad == {n \in Nat : \E s \in SUBSET S : Cardinality(s) = n /\ ~Parts(s)}
<1> SUFFICES ASSUME Bad # {} PROVE FALSE
  BY <1>1
<1>3. PICK n \in Bad : \A m \in Nat : m < n => m \notin Bad
  BY LeastOf
<1>4. PICK s \in SUBSET S : Cardinality(s) = n /\ ~Parts(s)
  BY <1>3
<1>5. PICK y \in s : Total(f, s) # f[y] + Total(f, s \ {y})
  BY <1>4
<1> DEFINE p == Pick(s)
<1>6. Total(f, s) = f[p] + Total(f, s \ {p})
  BY <1>1, <1>5, TotalUnfolds
<1>7. p \in s /\ p # y
  BY <1>5, <1>6, PickLeaves, <1>1
<1> HIDE DEF p
<1>8. ASSUME NEW z \in s PROVE Parts(s \ {z})
  <2>1. /\ s \ {z} \in SUBSET S
        /\ Cardinality(s \ {z}) \in Nat /\ Cardinality(s \ {z}) < n
    <3>1. s \ {z} \in SUBSET S
      OBVIOUS
    <3>2. IsFiniteSet(s) /\ Cardinality(s) = n /\ n \in Nat
      BY <1>1, <1>4
    <3>3. Cardinality(s \ {z}) = n - 1
      BY <3>2, FS_RemoveElement
    <3>4. Cardinality(s \ {z}) \in Nat
      BY <1>1, <3>1
    <3> QED BY <3>1, <3>2, <3>3, <3>4
  <2> HIDE DEF Parts
  <2> QED BY <1>3, <2>1
<1>9. /\ Total(f, s \ {p}) = f[y] + Total(f, (s \ {p}) \ {y})
      /\ Total(f, s \ {y}) = f[p] + Total(f, (s \ {y}) \ {p})
  <2>1. y \in s \ {p} /\ p \in s \ {y}
    BY <1>7
  <2> QED BY <1>7, <1>8, <2>1
<1>10. (s \ {p}) \ {y} = (s \ {y}) \ {p}
  OBVIOUS
<1>11. f[p] \in Nat /\ f[y] \in Nat /\ Total(f, (s \ {y}) \ {p}) \in Nat
  BY <1>2, <1>7
<1> QED BY <1>5, <1>6, <1>9, <1>10, <1>11

\* Larger summands have a larger sum.
LEMMA TotalMonotone ==
  ASSUME NEW f, NEW g, NEW S, IsFiniteSet(S),
         \A x \in S : f[x] \in Nat /\ g[x] \in Nat /\ f[x] <= g[x]
  PROVE  Total(f, S) <= Total(g, S)
<1>1. \A s \in SUBSET S : IsFiniteSet(s) /\ Cardinality(s) \in Nat
  BY FS_Subset, FS_CardinalityType
<1>2. \A s \in SUBSET S : Total(f, s) \in Nat /\ Total(g, s) \in Nat
  BY <1>1, TotalNat
<1> DEFINE Bad == {n \in Nat : \E s \in SUBSET S : Cardinality(s) = n /\ ~(Total(f, s) <= Total(g, s))}
<1> SUFFICES ASSUME Bad # {} PROVE FALSE
  BY <1>1
<1>3. PICK n \in Bad : \A m \in Nat : m < n => m \notin Bad
  BY LeastOf
<1>4. PICK s \in SUBSET S : Cardinality(s) = n /\ ~(Total(f, s) <= Total(g, s))
  BY <1>3
<1>5. /\ Total(f, s) = IF s = {} THEN 0 ELSE f[Pick(s)] + Total(f, s \ {Pick(s)})
      /\ Total(g, s) = IF s = {} THEN 0 ELSE g[Pick(s)] + Total(g, s \ {Pick(s)})
  BY <1>1, TotalUnfolds
<1>6. s # {}
  BY <1>4, <1>5
<1>7. /\ s \ {Pick(s)} \in SUBSET S /\ Pick(s) \in S
      /\ Cardinality(s \ {Pick(s)}) \in Nat /\ Cardinality(s \ {Pick(s)}) < n
  BY <1>1, <1>4, <1>6, PickLeaves
<1>8. Total(f, s \ {Pick(s)}) <= Total(g, s \ {Pick(s)})
  BY <1>3, <1>7
<1>9. f[Pick(s)] \in Nat /\ g[Pick(s)] \in Nat /\ f[Pick(s)] <= g[Pick(s)]
  BY <1>7
<1> QED BY <1>2, <1>4, <1>5, <1>6, <1>7, <1>8, <1>9

\* A sum grows with one of its elements, and no faster.
LEMMA TotalStep ==
  ASSUME NEW S, IsFiniteSet(S), NEW f, NEW g, NEW x, NEW k \in Nat, NEW l \in Nat, k <= l,
         \A y \in S : f[y] \in Nat /\ g[y] \in Nat /\ (y # x => g[y] = f[y]),
         x \in S => g[x] + k <= f[x] + l
  PROVE  Total(g, S) + k <= Total(f, S) + l
<1>1. Total(f, S) \in Nat /\ Total(g, S) \in Nat
  BY TotalNat
<1>2. CASE x \notin S
  <2>1. Total(g, S) <= Total(f, S)
    BY <1>2, TotalMonotone
  <2> QED BY <1>1, <2>1
<1>3. CASE x \in S
  <2>1. Total(f, S) = f[x] + Total(f, S \ {x}) /\ Total(g, S) = g[x] + Total(g, S \ {x})
    BY <1>3, TotalPart
  <2>2. IsFiniteSet(S \ {x})
    BY FS_RemoveElement
  <2>3. Total(g, S \ {x}) <= Total(f, S \ {x})
    BY <2>2, TotalMonotone
  <2>4. /\ Total(f, S \ {x}) \in Nat /\ Total(g, S \ {x}) \in Nat
        /\ f[x] \in Nat /\ g[x] \in Nat
    BY <1>3, <2>2, TotalNat
  <2> QED BY <1>3, <2>1, <2>3, <2>4
<1> QED BY <1>2, <1>3

-----------------------------------------------------------------------------
(* A target and its rows.                                                  *)

\* A row that was accepted and shows it, in a sender's hand or in a status nobody sends from,
\* gets no further acceptance for free; every other row may still get one.
Shown(r) == hand[r] = "taken" \/ (hand[r] = "free" /\ status[r] \in {"succeeded", "cancelled"})
Owed == [r \in Rows |-> IF Shown(r) THEN accepted[r] ELSE accepted[r] + 1]

\* The enqueue requests that have not come to an item yet.
Enqueuing(i) == {q \in Requests : req[q].op = "enqueue" /\ i \in req[q].todo}

FreshRows ==
  \A r \in Rows : status[r] = "absent" => hand[r] = "free" /\ accepted[r] = 0 /\ madeFor[r] = 0
RowsCounted ==
  \A i \in Items : /\ IsFiniteSet(MadeFor(i)) /\ IsFiniteSet(Enqueuing(i))
                   /\ Cardinality(MadeFor(i)) + Cardinality(Enqueuing(i)) <= enqueues
SendsCounted ==
  \A i \in Items : Total(Owed, MadeFor(i)) <= Cardinality(MadeFor(i)) + lapses

TargetInv == BatchTyped /\ FreshRows /\ RowsCounted /\ SendsCounted

LEMMA OwedNat == ASSUME TypeOK PROVE \A r \in Rows : Owed[r] \in Nat
BY DEF TypeOK, ContractTypeOK, Owed

\* A step on a row costs no more than its lapses, and touches no other row.
LEMMA RowStepOwes ==
  ASSUME TypeOK, FreshRows, NEW r \in Rows,
         SenderStep(r) \/ Release({r}) \/ Retry(r)
           \/ BeginCancel(r) \/ EndCancel(r) \/ AbandonCancel(r)
  PROVE  /\ lapses <= lapses' /\ Owed'[r] + lapses <= Owed[r] + lapses'
         /\ \A p \in Rows : p # r => Owed'[p] = Owed[p]
         /\ \A p \in Rows : status'[p] = "absent" =>
              status[p] = "absent" /\ hand'[p] = hand[p] /\ accepted'[p] = accepted[p]
<1> USE ContractAssumption DEF TypeOK, ContractTypeOK, FreshRows, Owed, Shown
<1>1. CASE Start(r)
  BY <1>1 DEF Start, Becomes, Passes, Waiting
<1>2. CASE Take(r)
  BY <1>2 DEF Take, Passes, Accepts, Lapsed
<1>3. CASE Refuse(r)
  BY <1>3 DEF Refuse, Becomes, Passes, Accepts, Lapsed, Refusals
<1>4. CASE Succeed(r)
  BY <1>4 DEF Succeed, Becomes, Passes
<1>5. CASE Drop(r)
  BY <1>5 DEF Drop, Passes, Accepts, Lapsed
<1>6. CASE Release({r})
  BY <1>6 DEF Release
<1>7. CASE Retry(r)
  BY <1>7 DEF Retry, Becomes, Retryable
<1>8. CASE BeginCancel(r) \/ EndCancel(r)
  BY <1>8 DEF BeginCancel, EndCancel, Becomes
<1>9. CASE AbandonCancel(r)
  BY <1>9 DEF AbandonCancel, Lapsed
<1> QED
  BY <1>1, <1>2, <1>3, <1>4, <1>5, <1>6, <1>7, <1>8, <1>9 DEF SenderStep

\* So the sums grow no faster than the lapses, while no row is created.
LEMMA RowStepCounts ==
  ASSUME TargetInv, TypeOK', UNCHANGED madeFor, NEW r \in Rows,
         SenderStep(r) \/ Release({r}) \/ Retry(r)
           \/ BeginCancel(r) \/ EndCancel(r) \/ AbandonCancel(r)
  PROVE  FreshRows' /\ SendsCounted'
<1>1. TypeOK /\ FreshRows
  BY DEF TargetInv, BatchTyped
<1>2. /\ lapses <= lapses' /\ Owed'[r] + lapses <= Owed[r] + lapses'
      /\ \A p \in Rows : p # r => Owed'[p] = Owed[p]
      /\ \A p \in Rows : status'[p] = "absent" =>
           status[p] = "absent" /\ hand'[p] = hand[p] /\ accepted'[p] = accepted[p]
  BY <1>1, RowStepOwes
<1>3. FreshRows'
  BY <1>1, <1>2 DEF FreshRows
<1>4. lapses \in Nat /\ lapses' \in Nat
  BY <1>1, ContractAssumption DEF TypeOK, ContractTypeOK
<1>5. ASSUME NEW i \in Items
      PROVE  Total(Owed', MadeFor(i)') <= Cardinality(MadeFor(i)') + lapses'
  <2> PICK S : S = MadeFor(i)
    OBVIOUS
  <2>1. MadeFor(i)' = S /\ S \subseteq Rows
    BY DEF MadeFor
  <2>2. IsFiniteSet(S) /\ Total(Owed, S) <= Cardinality(S) + lapses
    BY DEF TargetInv, RowsCounted, SendsCounted
  <2> PICK f : f = Owed
    OBVIOUS
  <2> PICK g : g = Owed'
    OBVIOUS
  <2>3. \A p \in Rows : f[p] \in Nat
    BY <1>1, OwedNat
  <2>4. \A p \in Rows : g[p] \in Nat
    BY DEF TypeOK, ContractTypeOK, Owed
  <2>5. Total(g, S) + lapses <= Total(f, S) + lapses'
    BY <1>2, <1>4, <2>1, <2>2, <2>3, <2>4, TotalStep
  <2>6. Total(f, S) \in Nat /\ Total(g, S) \in Nat /\ Cardinality(S) \in Nat
    BY <2>1, <2>2, <2>3, <2>4, TotalNat, FS_CardinalityType
  <2>7. Total(g, S) <= Cardinality(S) + lapses'
    BY <1>4, <2>2, <2>5, <2>6
  <2> QED BY <2>1, <2>7
<1> QED BY <1>3, <1>5 DEF SendsCounted

\* While rows, accepted messages and lapses stay, so do the sums.
LEMMA SendsKept ==
  ASSUME TargetInv, UNCHANGED <<contractVars, madeFor>>
  PROVE  FreshRows' /\ SendsCounted'
<1>1. /\ status' = status /\ hand' = hand /\ accepted' = accepted /\ lapses' = lapses
      /\ madeFor' = madeFor
  BY DEF contractVars
<1>2. Owed' = Owed /\ \A i \in Items : MadeFor(i)' = MadeFor(i)
  BY <1>1 DEF Owed, Shown, MadeFor
<1>3. SendsCounted'
  BY <1>1, <1>2 DEF TargetInv, SendsCounted
<1>4. FreshRows'
  BY <1>1 DEF TargetInv, FreshRows
<1> QED BY <1>3, <1>4

\* While no request starts to enqueue and no row is created, none comes to more items.
LEMMA CountsKept ==
  ASSUME TargetInv, UNCHANGED <<madeFor, enqueues>>,
         \A q \in Requests : req'[q].op = "enqueue" =>
           req[q].op = "enqueue" /\ req'[q].todo \subseteq req[q].todo
  PROVE  RowsCounted'
<1> SUFFICES ASSUME NEW i \in Items
             PROVE  /\ IsFiniteSet(MadeFor(i)') /\ IsFiniteSet(Enqueuing(i)')
                    /\ Cardinality(MadeFor(i)') + Cardinality(Enqueuing(i)') <= enqueues'
  BY DEF RowsCounted
<1> PICK E : E = Enqueuing(i)
  OBVIOUS
<1> PICK F : F = Enqueuing(i)'
  OBVIOUS
<1>1. MadeFor(i)' = MadeFor(i) /\ F \subseteq E
  BY DEF MadeFor, Enqueuing
<1>2. /\ IsFiniteSet(MadeFor(i)) /\ IsFiniteSet(E)
      /\ Cardinality(MadeFor(i)) + Cardinality(E) <= enqueues
  BY DEF TargetInv, RowsCounted
<1>3. IsFiniteSet(F) /\ Cardinality(F) <= Cardinality(E)
  BY <1>1, <1>2, FS_Subset
<1>4. Cardinality(F) \in Nat /\ Cardinality(E) \in Nat /\ Cardinality(MadeFor(i)) \in Nat
  BY <1>2, <1>3, FS_CardinalityType
<1>5. enqueues \in Nat
  BY BatchAssumption DEF TargetInv, BatchTyped, TypeOK
<1> QED BY <1>1, <1>2, <1>3, <1>4, <1>5

\* A request that starts to enqueue comes to every item at most once.
LEMMA EnqueueCounted ==
  ASSUME TargetInv, NEW q \in Requests, LoadForEnqueue(q)
  PROVE  RowsCounted'
<1> SUFFICES ASSUME NEW i \in Items
             PROVE  /\ IsFiniteSet(MadeFor(i)') /\ IsFiniteSet(Enqueuing(i)')
                    /\ Cardinality(MadeFor(i)') + Cardinality(Enqueuing(i)') <= enqueues'
  BY DEF RowsCounted
<1>1. /\ enqueues' = enqueues + 1 /\ madeFor' = madeFor
      /\ \A p \in Requests : p # q => req'[p] = req[p]
  BY DEF LoadForEnqueue, Load, TargetInv, BatchTyped, TypeOK
<1> PICK E : E = Enqueuing(i)
  OBVIOUS
<1> PICK F : F = Enqueuing(i)'
  OBVIOUS
<1>2. MadeFor(i)' = MadeFor(i) /\ F \subseteq E \cup {q}
  BY <1>1 DEF MadeFor, Enqueuing
<1>3. /\ IsFiniteSet(MadeFor(i)) /\ IsFiniteSet(E)
      /\ Cardinality(MadeFor(i)) + Cardinality(E) <= enqueues
  BY DEF TargetInv, RowsCounted
<1>4. Cardinality(E) \in Nat /\ Cardinality(MadeFor(i)) \in Nat
  BY <1>3, FS_CardinalityType
<1>5. IsFiniteSet(E \cup {q}) /\ Cardinality(E \cup {q}) <= Cardinality(E) + 1
  BY <1>3, <1>4, FS_AddElement
<1>6. /\ IsFiniteSet(F) /\ Cardinality(F) <= Cardinality(E \cup {q})
      /\ Cardinality(F) \in Nat /\ Cardinality(E \cup {q}) \in Nat
  BY <1>2, <1>5, FS_Subset, FS_CardinalityType
<1>7. enqueues \in Nat
  BY BatchAssumption DEF TargetInv, BatchTyped, TypeOK
<1>8. Cardinality(F) <= Cardinality(E) + 1
  BY <1>4, <1>5, <1>6
<1> QED BY <1>1, <1>2, <1>3, <1>4, <1>6, <1>7, <1>8

\* A request that creates an item's row does not come to the item again, and the row may be
\* accepted once.
LEMMA RowCounted ==
  ASSUME TargetInv, NEW q \in Requests, NEW r \in Rows, EnqueueItem(q, r)
  PROVE  FreshRows' /\ RowsCounted' /\ SendsCounted'
<1>1. /\ status[r] = "absent" /\ status' = [status EXCEPT ![r] = "queued"]
      /\ hand' = hand /\ accepted' = accepted /\ lapses' = lapses /\ enqueues' = enqueues
      /\ madeFor' = [madeFor EXCEPT ![r] = Current(q)]
      /\ req[q].op = "enqueue" /\ req[q].todo # {}
  BY DEF EnqueueItem, CreateQueued, Becomes
<1>2. req'[q].todo = req[q].todo \ {Current(q)} /\ \A p \in Requests : p # q => req'[p] = req[p]
  BY DEF EnqueueItem, CommitThenMark, TargetInv, BatchTyped, TypeOK
<1>3. Current(q) \in req[q].todo /\ Current(q) \in Items
  BY <1>1, CurrentInTodo, BatchAssumption DEF TargetInv, BatchTyped
<1> PICK c : c = Current(q)
  OBVIOUS
<1>4. hand[r] = "free" /\ accepted[r] = 0 /\ madeFor[r] = 0
  BY <1>1 DEF TargetInv, FreshRows
<1>5. /\ status'[r] = "queued" /\ madeFor'[r] = c
      /\ \A p \in Rows : p # r => status'[p] = status[p] /\ madeFor'[p] = madeFor[p]
  BY <1>1 DEF TargetInv, BatchTyped, TypeOK, ContractTypeOK
<1>6. FreshRows'
  BY <1>1, <1>5 DEF TargetInv, FreshRows
<1>7. c # 0 /\ \A i \in Items : i # 0
  BY <1>3 DEF Items
<1>8. MadeFor(c)' = MadeFor(c) \cup {r} /\ r \notin MadeFor(c)
  BY <1>3, <1>4, <1>5, <1>7 DEF MadeFor
<1>9. \A i \in Items : i # c => MadeFor(i)' = MadeFor(i)
  BY <1>4, <1>5, <1>7 DEF MadeFor
<1>10. Owed' = Owed /\ Owed[r] = 1
  <2>1. \A p \in Rows : Shown(p)' = Shown(p)
    BY <1>1, <1>4, <1>5 DEF Shown
  <2> QED BY <1>1, <1>4, <2>1 DEF Owed, Shown
<1>11. enqueues \in Nat /\ lapses \in Nat
  BY BatchAssumption, ContractAssumption DEF TargetInv, BatchTyped, TypeOK, ContractTypeOK
<1>12. \A p \in Rows : Owed[p] \in Nat
  BY OwedNat DEF TargetInv, BatchTyped
<1> PICK M, N : M = MadeFor(c) /\ N = MadeFor(c)'
  OBVIOUS
<1>13. /\ IsFiniteSet(M) /\ M \subseteq Rows /\ N = M \cup {r} /\ r \notin M
  BY <1>3, <1>8 DEF TargetInv, RowsCounted, MadeFor
<1>14. /\ IsFiniteSet(N) /\ Cardinality(N) = Cardinality(M) + 1 /\ Cardinality(M) \in Nat
  BY <1>13, FS_AddElement, FS_CardinalityType
<1>15. ASSUME NEW i \in Items
       PROVE  /\ IsFiniteSet(MadeFor(i)') /\ IsFiniteSet(Enqueuing(i)')
              /\ Cardinality(MadeFor(i)') + Cardinality(Enqueuing(i)') <= enqueues'
  <2> PICK E, F : E = Enqueuing(i) /\ F = Enqueuing(i)'
    OBVIOUS
  <2>1. /\ IsFiniteSet(MadeFor(i)) /\ IsFiniteSet(E)
        /\ Cardinality(MadeFor(i)) + Cardinality(E) <= enqueues
    BY DEF TargetInv, RowsCounted
  <2>2. F \subseteq E
    BY <1>1, <1>2 DEF Enqueuing
  <2>3. /\ IsFiniteSet(F) /\ Cardinality(F) <= Cardinality(E)
        /\ Cardinality(F) \in Nat /\ Cardinality(E) \in Nat /\ Cardinality(MadeFor(i)) \in Nat
    BY <2>1, <2>2, FS_Subset, FS_CardinalityType
  <2>4. CASE i # c
    BY <1>1, <1>9, <1>11, <2>1, <2>3, <2>4
  <2>5. CASE i = c
    <3>1. q \in E /\ F = E \ {q}
      BY <1>1, <1>2, <1>3, <2>5 DEF Enqueuing
    <3>2. Cardinality(F) = Cardinality(E) - 1
      BY <2>1, <3>1, FS_RemoveElement
    <3> QED BY <1>1, <1>11, <1>14, <2>1, <2>3, <2>5, <3>2
  <2> QED BY <2>4, <2>5
<1>16. ASSUME NEW i \in Items
       PROVE  Total(Owed', MadeFor(i)') <= Cardinality(MadeFor(i)') + lapses'
  <2>1. Total(Owed, MadeFor(i)) <= Cardinality(MadeFor(i)) + lapses
    BY DEF TargetInv, SendsCounted
  <2>2. CASE i # c
    BY <1>1, <1>9, <1>10, <2>1, <2>2
  <2>3. CASE i = c
    <3> PICK f : f = Owed
      OBVIOUS
    <3>1. Total(f, N) = f[r] + Total(f, N \ {r})
      BY <1>12, <1>13, <1>14, TotalPart
    <3>2. N \ {r} = M /\ f[r] = 1
      BY <1>10, <1>13
    <3>3. Total(f, M) \in Nat
      BY <1>12, <1>13, TotalNat
    <3>4. Total(f, M) <= Cardinality(M) + lapses
      BY <2>1, <2>3
    <3>5. Total(f, N) = 1 + Total(f, M)
      BY <3>1, <3>2
    <3>6. Total(f, N) <= Cardinality(N) + lapses
      BY <1>11, <1>14, <3>3, <3>4, <3>5
    <3> QED BY <1>1, <1>10, <2>3, <3>6
  <2> QED BY <2>2, <2>3
<1>17. RowsCounted'
  BY <1>15 DEF RowsCounted
<1>18. SendsCounted'
  BY <1>16 DEF SendsCounted
<1> QED BY <1>6, <1>17, <1>18

LEMMA TargetStep == ASSUME TargetInv, [Next]_vars PROVE TargetInv'
<1>1. BatchTyped' /\ TypeOK' /\ TypeOK
  BY StepBatchTyped DEF TargetInv, BatchTyped
<1>2. CASE UNCHANGED vars \/ CreateBatch
  <2>1. UNCHANGED <<contractVars, madeFor, enqueues, req>>
    BY <1>2 DEF vars, batchVars, CreateBatch
  <2> QED BY <1>1, <2>1, SendsKept, CountsKept DEF TargetInv
<1>3. ASSUME NEW r \in Rows, QueueStep(r) PROVE TargetInv'
  <2>1. UNCHANGED <<madeFor, enqueues, req>>
    BY <1>3 DEF QueueStep, batchVars
  <2>2. FreshRows' /\ SendsCounted'
    BY <1>1, <1>3, <2>1, RowStepCounts DEF QueueStep
  <2> QED BY <1>1, <2>1, <2>2, CountsKept DEF TargetInv
<1>4. ASSUME NEW q \in Requests, LoadForEnqueue(q) PROVE TargetInv'
  <2>1. UNCHANGED <<contractVars, madeFor>>
    BY <1>4 DEF LoadForEnqueue
  <2> QED BY <1>1, <1>4, <2>1, SendsKept, EnqueueCounted DEF TargetInv
<1>5. ASSUME NEW q \in Requests, NEW r \in Rows, EnqueueItem(q, r) PROVE TargetInv'
  BY <1>1, <1>5, RowCounted DEF TargetInv
<1>6. ASSUME NEW q \in Requests,
             FinishEnqueue(q) \/ LoadForCancel(q) \/ MarkOnly(q) \/ FinishCancel(q)
      PROVE  TargetInv'
  <2>1. /\ UNCHANGED <<contractVars, madeFor, enqueues>> /\ req'[q].op # "enqueue"
        /\ \A p \in Requests : p # q => req'[p] = req[p]
    BY <1>1, <1>6 DEF FinishEnqueue, LoadForCancel, MarkOnly, FinishCancel, Load, Finish, Idle,
                      TypeOK, Request
  <2>2. \A p \in Requests : req'[p].op = "enqueue" =>
          req[p].op = "enqueue" /\ req'[p].todo \subseteq req[p].todo
    BY <2>1
  <2> QED BY <1>1, <2>1, <2>2, SendsKept, CountsKept DEF TargetInv
<1>7. ASSUME NEW q \in Requests, ReadRow(q) \/ CancelRow(q) \/ RequestFails(q) PROVE TargetInv'
  <2>1. /\ UNCHANGED <<madeFor, enqueues>> /\ req'[q].op # "enqueue"
        /\ \A p \in Requests : p # q => req'[p] = req[p]
    BY <1>1, <1>7 DEF ReadRow, CancelRow, CommitThenMark, RequestFails, Idle, TypeOK, Request
  <2>2. \A p \in Requests : req'[p].op = "enqueue" =>
          req[p].op = "enqueue" /\ req'[p].todo \subseteq req[p].todo
    BY <2>1
  <2>3. \/ UNCHANGED contractVars
        \/ \E r \in Rows : BeginCancel(r) \/ EndCancel(r) \/ AbandonCancel(r)
    <3> PICK r : r = req[q].objects[Current(q)].row
      OBVIOUS
    <3>1. req[q] \in Request
      BY <1>1 DEF TypeOK
    <3>2. CASE ReadRow(q)
      <4>1. req[q].todo # {} /\ r # NoRow /\ BeginCancel(r)
        BY <3>2 DEF ReadRow
      <4>2. Current(q) \in Items
        BY <1>1, <4>1, CurrentInTodo, BatchAssumption
      <4>3. r \in Rows
        BY <3>1, <4>1, <4>2 DEF Request, Item
      <4> QED BY <4>1, <4>3
    <3>3. CASE CancelRow(q)
      BY <3>3 DEF CancelRow, TargetInv, BatchTyped, CancelsRow
    <3>4. CASE RequestFails(q)
      BY <3>4 DEF RequestFails, TargetInv, BatchTyped, CancelsRow
    <3> QED BY <1>7, <3>2, <3>3, <3>4
  <2>4. FreshRows' /\ SendsCounted'
    BY <1>1, <2>1, <2>3, RowStepCounts, SendsKept
  <2> QED BY <1>1, <2>1, <2>2, <2>4, CountsKept DEF TargetInv
<1> QED
  BY <1>2, <1>3, <1>4, <1>5, <1>6, <1>7 DEF Next

LEMMA TargetStart == Init => TargetInv
<1> SUFFICES ASSUME Init PROVE TargetInv
  OBVIOUS
<1>1. FreshRows
  BY DEF Init, ContractInit, FreshRows
<1>2. ASSUME NEW i \in Items PROVE MadeFor(i) = {} /\ Enqueuing(i) = {}
  BY DEF Init, Idle, MadeFor, Enqueuing, Items
<1>3. enqueues = 0 /\ lapses = 0
  BY DEF Init, ContractInit
<1>4. IsFiniteSet({}) /\ Cardinality({}) = 0
  BY FS_EmptySet
<1>5. RowsCounted
  BY <1>2, <1>3, <1>4 DEF RowsCounted
<1>6. Total(Owed, {}) = 0
  BY <1>4, TotalUnfolds
<1>7. SendsCounted
  BY <1>2, <1>3, <1>4, <1>6 DEF SendsCounted
<1> QED BY <1>1, <1>5, <1>7, InitBatchTyped DEF TargetInv

\* A target gets the payload at most once per enqueue and once more per lapse, over all the
\* rows ever created for its item, for any items, rows and requests.
THEOREM TargetsSentOnce == Spec => []TargetSentOncePerEnqueue
<1>1. TargetInv /\ [Next]_vars => TargetInv'
  BY TargetStep
<1>2. ASSUME TargetInv PROVE TargetSentOncePerEnqueue
  <2> SUFFICES ASSUME NEW i \in Items
               PROVE  MapThenSumSet(LAMBDA r : accepted[r], MadeFor(i)) <= enqueues + lapses
    BY DEF TargetSentOncePerEnqueue
  <2>1. MapThenSumSet(LAMBDA r : accepted[r], MadeFor(i)) = Total(accepted, MadeFor(i))
    BY DEF Total
  <2> PICK M, f, g : M = MadeFor(i) /\ f = accepted /\ g = Owed
    OBVIOUS
  <2>2. /\ IsFiniteSet(M) /\ IsFiniteSet(Enqueuing(i)) /\ Total(g, M) <= Cardinality(M) + lapses
        /\ Cardinality(M) + Cardinality(Enqueuing(i)) <= enqueues
    BY <1>2 DEF TargetInv, RowsCounted, SendsCounted
  <2>3. M \subseteq Rows
    BY DEF MadeFor
  <2>4. \A r \in Rows : f[r] \in Nat /\ g[r] \in Nat /\ f[r] <= g[r]
    <3>1. ASSUME NEW r \in Rows PROVE f[r] \in Nat /\ g[r] \in Nat /\ f[r] <= g[r]
      BY <1>2 DEF TargetInv, BatchTyped, TypeOK, ContractTypeOK, Owed
    <3> QED BY <3>1
  <2>5. Total(f, M) <= Total(g, M)
    BY <2>2, <2>3, <2>4, TotalMonotone
  <2>6. Total(f, M) \in Nat /\ Total(g, M) \in Nat
    BY <2>2, <2>3, <2>4, TotalNat
  <2>7. Cardinality(M) \in Nat /\ Cardinality(Enqueuing(i)) \in Nat
    BY <2>2, FS_CardinalityType
  <2>8. enqueues \in Nat /\ lapses \in Nat
    BY <1>2, BatchAssumption, ContractAssumption DEF TargetInv, BatchTyped, TypeOK, ContractTypeOK
  <2>9. Total(f, M) <= enqueues + lapses
    BY <2>2, <2>5, <2>6, <2>7, <2>8
  <2> QED BY <2>1, <2>9
<1> QED
  BY <1>1, <1>2, TargetStart, PTL DEF Spec

=============================================================================
