------------------------- MODULE SendQueueContract -------------------------
(***************************************************************************)
(* Proof that the send queue implements SendContract, in the environments  *)
(* where a row has one worker: every step of a request, a worker run or    *)
(* the clock is a step of the contract on the rows it touches, or leaves   *)
(* everything the contract speaks of as it was.  So a row that has ended   *)
(* stays as it is.                                                         *)
(***************************************************************************)
EXTENDS SendQueueDelivery

-----------------------------------------------------------------------------
(* What the contract sees of a row.                                        *)

Closing(r) == {s \in Sessions : sess[s].op = "cancel" /\ sess[s].row = r}
Started(r) == rows[r].attempt_count > 0

StatusSeen == [r \in Rows |-> rows[r].status]
HandSeen == [r \in Rows |-> Hand(r)]
StartedSeen == {r \in Rows : rows[r].attempt_count > 0}
ClosersSeen == [r \in Rows |-> Cardinality({s \in Sessions :
                                             sess[s].op = "cancel" /\ sess[s].row = r})]
Seen == <<StatusSeen, HandSeen, StartedSeen, ClosersSeen, delivered, faults>>

\* A step leaves what the contract sees of row r as it was.
SeenSame(r) ==
  /\ rows'[r].status = rows[r].status /\ Hand(r)' = Hand(r)
  /\ Started(r)' <=> Started(r)
  /\ Closing(r)' = Closing(r)
  /\ delivered'[r] = delivered[r]

\* A row is with one sender at most, so Hand is what the one that has it says.
LEMMA OneHand ==
  ASSUME ExclusionInv, NEW r, Taken(r)
  PROVE  ~Calling(r)
BY HeldAlone, SyncAlone DEF Taken, Calling, InFlight, Syncing

HandsTold ==
  \A r \in Rows : /\ Taken(r) => Hand(r) = "taken"
                  /\ Calling(r) => Hand(r) = "calling"
                  /\ ~Taken(r) /\ ~Calling(r) => Hand(r) = "free"

LEMMA HandSays == ExclusionInv => HandsTold
<1> SUFFICES ASSUME ExclusionInv, NEW r \in Rows
             PROVE  /\ Taken(r) => Hand(r) = "taken"
                    /\ Calling(r) => Hand(r) = "calling"
                    /\ ~Taken(r) /\ ~Calling(r) => Hand(r) = "free"
  BY DEF HandsTold
<1>1. Taken(r) <=> \/ \E w \in Workers : wk[w].row = r /\ wk[w].pc = "accepted"
                   \/ \E s \in Sessions : sess[s].row = r /\ sess[s].op = "synced"
  BY Zenon DEF Taken
<1>2. Calling(r) <=> \/ \E w \in Workers : wk[w].row = r /\ wk[w].pc = "leased"
                     \/ \E s \in Sessions : sess[s].row = r /\ sess[s].op = "sync"
  BY Zenon DEF Calling
<1>3. Hand(r) = CASE Taken(r) -> "taken" [] Calling(r) -> "calling" [] OTHER -> "free"
  BY <1>1, <1>2, Zenon DEF Hand
<1> QED BY <1>3, OneHand

LEMMA HandSaysNext == ExclusionInv' => HandsTold'
BY HandSays, PTL

-----------------------------------------------------------------------------
(* From what a step does to a row to a step of the contract.               *)

LEMMA SeenMaps ==
  ASSUME TypeOK, TypeOK', NEW r \in Rows, \A q \in Rows \ {r} : SeenSame(q)
  PROVE  /\ StatusSeen' = [StatusSeen EXCEPT ![r] = rows'[r].status]
         /\ HandSeen' = [HandSeen EXCEPT ![r] = Hand(r)']
         /\ Started(r)' => StartedSeen' = StartedSeen \cup {r}
         /\ (Started(r)' <=> Started(r)) => StartedSeen' = StartedSeen
         /\ ClosersSeen' = [ClosersSeen EXCEPT ![r] = Cardinality(Closing(r))']
         /\ Closing(r)' = Closing(r) => ClosersSeen' = ClosersSeen
         /\ delivered' = [delivered EXCEPT ![r] = delivered'[r]]
<1>1. StatusSeen' = [StatusSeen EXCEPT ![r] = rows'[r].status]
  BY DEF StatusSeen, SeenSame
<1>2. HandSeen' = [HandSeen EXCEPT ![r] = Hand(r)']
  BY DEF HandSeen, SeenSame
<1>3. /\ Started(r)' => StartedSeen' = StartedSeen \cup {r}
      /\ (Started(r)' <=> Started(r)) => StartedSeen' = StartedSeen
  BY DEF StartedSeen, SeenSame, Started
<1>4. /\ ClosersSeen = [q \in Rows |-> Cardinality(Closing(q))]
      /\ ClosersSeen' = [q \in Rows |-> Cardinality(Closing(q)')]
  BY DEF ClosersSeen, Closing
<1>5. \A q \in Rows \ {r} : Closing(q)' = Closing(q)
  BY DEF SeenSame
<1>6. /\ ClosersSeen' = [ClosersSeen EXCEPT ![r] = Cardinality(Closing(r)')]
      /\ Closing(r)' = Closing(r) => ClosersSeen' = ClosersSeen
  BY <1>4, <1>5
<1>7. delivered' = [delivered EXCEPT ![r] = delivered'[r]]
  BY DEF TypeOK, SeenSame
<1> QED BY <1>1, <1>2, <1>3, <1>6, <1>7

LEMMA SeenStutter ==
  ASSUME TypeOK, TypeOK', \A r \in Rows : SeenSame(r)
  PROVE  UNCHANGED <<StatusSeen, HandSeen, StartedSeen, ClosersSeen, delivered>>
<1>1. delivered' = delivered
  BY DEF TypeOK, SeenSame
<1>2. UNCHANGED StatusSeen
  BY DEF StatusSeen, SeenSame
<1>3. UNCHANGED HandSeen
  BY DEF HandSeen, SeenSame
<1>4. UNCHANGED StartedSeen
  BY DEF StartedSeen, SeenSame, Started
<1>5. UNCHANGED ClosersSeen
  BY DEF ClosersSeen, SeenSame, Closing
<1> QED BY <1>1, <1>2, <1>3, <1>4, <1>5

\* The contract's steps, or none.
Stepped == Contract!ContractNext \/ UNCHANGED Seen

LEMMA StartMaps ==
  ASSUME TypeOK, TypeOK', NEW r \in Rows, \A q \in Rows \ {r} : SeenSame(q),
         rows[r].status \in {"queued", "deferred"}, rows'[r].status = "sending",
         Hand(r) = "free", Hand(r)' = "calling", Started(r)',
         Closing(r)' = Closing(r), UNCHANGED <<delivered, faults>>
  PROVE  Stepped
<1>1. Contract!Start(r)
  BY SeenMaps DEF Contract!Start, Contract!Becomes, Contract!Passes, Contract!Waiting,
                  StatusSeen, HandSeen, StartedSeen, ClosersSeen
<1> QED BY <1>1 DEF Stepped, Contract!ContractNext, Contract!SenderStep

LEMMA CreateMaps ==
  ASSUME TypeOK, TypeOK', NEW r \in Rows, \A q \in Rows \ {r} : SeenSame(q),
         rows[r].status = "absent",
         \/ rows'[r].status = "queued" /\ Hand(r)' = Hand(r)
         \/ rows'[r].status = "created" /\ Hand(r)' = "calling",
         Started(r)' <=> Started(r), Closing(r)' = Closing(r), UNCHANGED <<delivered, faults>>
  PROVE  Stepped
<1>1. Contract!CreateQueued(r) \/ Contract!CreateSync(r)
  <2>1. CASE rows'[r].status = "queued" /\ Hand(r)' = Hand(r)
    <3>1. HandSeen' = HandSeen
      BY <2>1, SeenMaps DEF HandSeen
    <3> QED BY <2>1, <3>1, SeenMaps
            DEF Contract!CreateQueued, Contract!Becomes, StatusSeen, HandSeen, StartedSeen,
                ClosersSeen
  <2>2. CASE rows'[r].status = "created" /\ Hand(r)' = "calling"
    BY <2>2, SeenMaps DEF Contract!CreateSync, Contract!Becomes, Contract!Passes,
                          StatusSeen, HandSeen, StartedSeen, ClosersSeen
  <2> QED BY <2>1, <2>2
<1> QED BY <1>1 DEF Stepped, Contract!ContractNext

LEMMA TakeMaps ==
  ASSUME TypeOK, TypeOK', NEW r \in Rows, \A q \in Rows \ {r} : SeenSame(q),
         UNCHANGED rows, Hand(r) = "calling", Hand(r)' = "taken",
         Closing(r)' = Closing(r), Accepted(r)
  PROVE  Stepped
<1>1. StatusSeen' = StatusSeen /\ (Started(r)' <=> Started(r))
  BY DEF StatusSeen, Started
<1>2. Contract!Take(r)
  BY <1>1, SeenMaps DEF Contract!Take, Contract!Passes, Contract!Accepts, Contract!Lapsed,
                        Accepted, TakenBy, Fault, StatusSeen, HandSeen, StartedSeen, ClosersSeen
<1> QED BY <1>2 DEF Stepped, Contract!ContractNext, Contract!SenderStep

LEMMA RefuseMaps ==
  ASSUME TypeOK, TypeOK', NEW r \in Rows, \A q \in Rows \ {r} : SeenSame(q),
         rows'[r].status \in {"deferred", "failed", "blocked", "dead_letter"},
         Hand(r) = "calling", Hand(r)' = "free", Started(r)' <=> Started(r),
         Closing(r)' = Closing(r), Failed(r)
  PROVE  Stepped
<1>1. Contract!Refuse(r)
  BY SeenMaps DEF Contract!Refuse, Contract!Refusals, Contract!Becomes, Contract!Passes,
                  Contract!Accepts, Contract!Lapsed, Failed, TakenBy, Fault,
                  StatusSeen, HandSeen, StartedSeen, ClosersSeen
<1> QED BY <1>1 DEF Stepped, Contract!ContractNext, Contract!SenderStep

LEMMA SucceedMaps ==
  ASSUME TypeOK, TypeOK', NEW r \in Rows, \A q \in Rows \ {r} : SeenSame(q),
         rows'[r].status = "succeeded", Hand(r) = "taken", Hand(r)' = "free",
         Started(r)' <=> Started(r), Closing(r)' = Closing(r), UNCHANGED <<delivered, faults>>
  PROVE  Stepped
<1>1. Contract!Succeed(r)
  BY SeenMaps DEF Contract!Succeed, Contract!Becomes, Contract!Passes,
                  StatusSeen, HandSeen, StartedSeen, ClosersSeen
<1> QED BY <1>1 DEF Stepped, Contract!ContractNext, Contract!SenderStep

LEMMA DropMaps ==
  ASSUME TypeOK, TypeOK', NEW r \in Rows, \A q \in Rows \ {r} : SeenSame(q),
         UNCHANGED rows, Hand(r) \in {"calling", "taken"}, Hand(r)' = "free",
         Closing(r)' = Closing(r), Fault,
         UNCHANGED delivered \/ (Hand(r) = "calling" /\ TakenBy(r, 1))
  PROVE  Stepped
<1>1. StatusSeen' = StatusSeen /\ (Started(r)' <=> Started(r))
  BY DEF StatusSeen, Started
<1>2. Contract!Drop(r)
  BY <1>1, SeenMaps DEF Contract!Drop, Contract!Passes, Contract!Accepts, Contract!Lapsed,
                        TakenBy, Fault, StatusSeen, HandSeen, StartedSeen, ClosersSeen
<1> QED BY <1>2 DEF Stepped, Contract!ContractNext, Contract!SenderStep

LEMMA RetryMaps ==
  ASSUME TypeOK, TypeOK', NEW r \in Rows, \A q \in Rows \ {r} : SeenSame(q),
         rows[r].status \in Retryable, rows'[r].status = "queued",
         Hand(r)' = Hand(r), Started(r)' <=> Started(r), Closing(r)' = Closing(r),
         UNCHANGED <<delivered, faults>>
  PROVE  Stepped
<1>1. HandSeen' = HandSeen
  BY SeenMaps DEF HandSeen
<1>2. Contract!Retry(r)
  BY <1>1, SeenMaps DEF Contract!Retry, Contract!Retryable, Contract!Becomes, Retryable,
                        StatusSeen, HandSeen, StartedSeen, ClosersSeen
<1> QED BY <1>2 DEF Stepped, Contract!ContractNext

\* One cancel request more, or one less.
LEMMA CloserCounted ==
  ASSUME NEW s \in Sessions, NEW r
  PROVE  /\ Cardinality(Closing(r)) \in Nat /\ Cardinality(Closing(r)') \in Nat
         /\ s \notin Closing(r) /\ Closing(r)' = Closing(r) \cup {s} =>
              /\ Cardinality(Closing(r)') = Cardinality(Closing(r)) + 1
              /\ Cardinality(Closing(r)) < Cardinality(Sessions)
         /\ s \in Closing(r) /\ Closing(r)' = Closing(r) \ {s} =>
              /\ Cardinality(Closing(r)') = Cardinality(Closing(r)) - 1
              /\ Cardinality(Closing(r)) > 0
<1>1. /\ Closing(r) \in SUBSET Sessions /\ Closing(r)' \in SUBSET Sessions
      /\ IsFiniteSet(Sessions)
  BY SessionsAssumption DEF Closing
<1>2. /\ IsFiniteSet(Closing(r)) /\ IsFiniteSet(Closing(r)')
      /\ Cardinality(Closing(r)) \in Nat /\ Cardinality(Closing(r)') \in Nat
      /\ Cardinality(Sessions) \in Nat
      /\ Cardinality(Closing(r)) <= Cardinality(Sessions)
      /\ Cardinality(Sessions) = Cardinality(Closing(r)) => Sessions = Closing(r)
  BY <1>1, FS_Subset, FS_CardinalityType
<1>3. ASSUME s \notin Closing(r), Closing(r)' = Closing(r) \cup {s}
      PROVE  /\ Cardinality(Closing(r)') = Cardinality(Closing(r)) + 1
             /\ Cardinality(Closing(r)) < Cardinality(Sessions)
  <2>1. Cardinality(Closing(r) \cup {s}) = Cardinality(Closing(r)) + 1
    BY <1>2, <1>3, FS_AddElement
  <2>2. Cardinality(Sessions) # Cardinality(Closing(r))
    BY <1>2, <1>3
  <2> QED BY <1>2, <1>3, <2>1, <2>2
<1>4. ASSUME s \in Closing(r), Closing(r)' = Closing(r) \ {s}
      PROVE  /\ Cardinality(Closing(r)') = Cardinality(Closing(r)) - 1
             /\ Cardinality(Closing(r)) > 0
  <2>1. Cardinality(Closing(r) \ {s}) = Cardinality(Closing(r)) - 1
    BY <1>2, <1>4, FS_RemoveElement
  <2>2. Cardinality(Closing(r)) # 0
    BY <1>2, <1>4, FS_EmptySet
  <2> QED BY <1>2, <1>4, <2>1, <2>2
<1> QED BY <1>2, <1>3, <1>4

LEMMA CancelMaps ==
  ASSUME TypeOK, TypeOK', NEW r \in Rows, \A q \in Rows \ {r} : SeenSame(q),
         Hand(r)' = Hand(r), Started(r)' <=> Started(r), UNCHANGED delivered,
         NEW s \in Sessions,
         \/ /\ rows[r].status \in Cancellable /\ rows'[r].status = rows[r].status
            /\ s \notin Closing(r) /\ Closing(r)' = Closing(r) \cup {s} /\ UNCHANGED faults
         \/ /\ rows'[r].status = "cancelled"
            /\ s \in Closing(r) /\ Closing(r)' = Closing(r) \ {s} /\ UNCHANGED faults
         \/ /\ rows'[r].status = rows[r].status
            /\ s \in Closing(r) /\ Closing(r)' = Closing(r) \ {s} /\ Fault
  PROVE  Stepped
<1>1. HandSeen' = HandSeen
  BY SeenMaps DEF HandSeen
<1>2. rows'[r].status = rows[r].status => StatusSeen' = StatusSeen
  BY SeenMaps DEF StatusSeen
<1>3. /\ ClosersSeen[r] = Cardinality(Closing(r))
      /\ ClosersSeen' = [ClosersSeen EXCEPT ![r] = Cardinality(Closing(r)')]
      /\ StatusSeen' = [StatusSeen EXCEPT ![r] = rows'[r].status]
      /\ UNCHANGED <<HandSeen, StartedSeen, delivered>>
  BY <1>1, SeenMaps DEF ClosersSeen, Closing
<1>4. Contract!BeginCancel(r) \/ Contract!EndCancel(r) \/ Contract!AbandonCancel(r)
  <2>1. CASE /\ rows[r].status \in Cancellable /\ rows'[r].status = rows[r].status
             /\ s \notin Closing(r) /\ Closing(r)' = Closing(r) \cup {s} /\ UNCHANGED faults
    <3>1. /\ ClosersSeen' = [ClosersSeen EXCEPT ![r] = @ + 1]
          /\ ClosersSeen[r] < Cardinality(Sessions) /\ StatusSeen' = StatusSeen
          /\ StatusSeen[r] \in Cancellable
      BY <1>2, <1>3, <2>1, CloserCounted DEF StatusSeen
    <3> QED BY <1>3, <2>1, <3>1
            DEF Contract!BeginCancel, Contract!Cancellable, Cancellable,
                StatusSeen, HandSeen, StartedSeen, ClosersSeen
  <2>2. CASE /\ rows'[r].status = "cancelled"
             /\ s \in Closing(r) /\ Closing(r)' = Closing(r) \ {s} /\ UNCHANGED faults
    <3>1. /\ ClosersSeen' = [ClosersSeen EXCEPT ![r] = @ - 1] /\ ClosersSeen[r] > 0
          /\ StatusSeen' = [StatusSeen EXCEPT ![r] = "cancelled"]
      BY <1>3, <2>2, CloserCounted
    <3> QED BY <1>3, <2>2, <3>1
            DEF Contract!EndCancel, Contract!Becomes,
                StatusSeen, HandSeen, StartedSeen, ClosersSeen
  <2>3. CASE /\ rows'[r].status = rows[r].status
             /\ s \in Closing(r) /\ Closing(r)' = Closing(r) \ {s} /\ Fault
    <3>1. /\ ClosersSeen' = [ClosersSeen EXCEPT ![r] = @ - 1] /\ ClosersSeen[r] > 0
          /\ StatusSeen' = StatusSeen
      BY <1>2, <1>3, <2>3, CloserCounted
    <3> QED BY <1>3, <2>3, <3>1
            DEF Contract!AbandonCancel, Contract!Lapsed, Fault,
                StatusSeen, HandSeen, StartedSeen, ClosersSeen
  <2> QED BY <2>1, <2>2, <2>3
<1> QED BY <1>4 DEF Stepped, Contract!ContractNext

LEMMA ReleaseMaps ==
  ASSUME TypeOK, TypeOK', NEW stale \in SUBSET Rows,
         \A r \in stale : rows[r].status = "sending" /\ Hand(r) = "free",
         \A r \in stale : rows'[r].status = "queued",
         \A r \in Rows \ stale : rows'[r].status = rows[r].status,
         \A r \in Rows : /\ Hand(r)' = Hand(r) /\ Closing(r)' = Closing(r)
                         /\ Started(r)' <=> Started(r),
         UNCHANGED <<delivered, faults>>
  PROVE  Stepped
<1>1. UNCHANGED <<HandSeen, StartedSeen>>
  BY DEF HandSeen, StartedSeen, Started
<1>2. UNCHANGED ClosersSeen
  BY DEF ClosersSeen, Closing
<1>3. StatusSeen' = [r \in Rows |-> IF r \in stale THEN "queued" ELSE StatusSeen[r]]
  BY DEF StatusSeen
<1>4. CASE stale = {}
  <2>1. UNCHANGED StatusSeen
    BY <1>3, <1>4 DEF StatusSeen
  <2> QED BY <1>1, <1>2, <2>1 DEF Stepped, Seen
<1>5. CASE stale # {}
  <2>1. \A r \in stale : StatusSeen[r] = "sending" /\ HandSeen[r] = "free"
    BY DEF StatusSeen, HandSeen
  <2>2. Contract!Release(stale)
    BY <1>1, <1>2, <1>3, <1>5, <2>1
       DEF Contract!Release, StatusSeen, HandSeen, StartedSeen, ClosersSeen
  <2> QED BY <2>2 DEF Stepped, Contract!ContractNext
<1> QED BY <1>4, <1>5

LEMMA IdleMaps ==
  ASSUME TypeOK, TypeOK', \A r \in Rows : SeenSame(r), UNCHANGED faults \/ Fault
  PROVE  Stepped
<1>1. CASE UNCHANGED faults
  BY <1>1, SeenStutter DEF Stepped, Seen
<1>2. CASE Fault
  <2>1. Contract!LapseElsewhere
    BY <1>2, SeenStutter DEF Contract!LapseElsewhere, Contract!Lapsed, Fault,
                             StatusSeen, HandSeen, StartedSeen, ClosersSeen
  <2> QED BY <2>1 DEF Stepped, Contract!ContractNext
<1> QED BY <1>1, <1>2

-----------------------------------------------------------------------------
(* Worker runs.                                                            *)

Stepping == DeliveryInv /\ ExclusionInv' /\ CountsKept

LEMMA SteppingTypes ==
  ASSUME Stepping
  PROVE  /\ TypeOK /\ TypeOK' /\ ExclusionInv /\ HandsTold /\ HandsTold'
         /\ \A r \in Rows : Started(r)' <=> Started(r)
BY HandSays, HandSaysNext DEF Stepping, DeliveryInv, ExclusionInv, CountsKept, Started

LEMMA SeenKept ==
  ASSUME Stepping, NEW r \in Rows, rows'[r].status = rows[r].status,
         Calling(r)' <=> Calling(r), Taken(r)' <=> Taken(r),
         Closing(r)' = Closing(r), delivered'[r] = delivered[r]
  PROVE  SeenSame(r)
BY SteppingTypes DEF HandsTold, SeenSame

LEMMA RunCloses ==
  ASSUME UNCHANGED sess
  PROVE  \A r : Closing(r)' = Closing(r)
BY DEF Closing

LEMMA RunRefused ==
  ASSUME Stepping, NEW w \in Workers, wk[w].pc = "leased", Failed(wk[w].row), UNCHANGED sess,
         NEW run, wk' = [wk EXCEPT ![w] = run], run.pc \notin {"leased", "accepted"},
         NEW new, rows' = [rows EXCEPT ![wk[w].row] = OrmWrite(@, wk[w].snap, new)],
         new.status \in {"deferred", "failed", "blocked", "dead_letter"}
  PROVE  Stepped
<1>1. TypeOK /\ TypeOK' /\ ExclusionInv /\ DeliveryInv /\ InFlight(w) /\ HandsTold /\ HandsTold'
  BY SteppingTypes DEF Stepping, InFlight
<1> PICK r \in Rows : r = wk[w].row
  BY <1>1, HeldAlone
<1>2. Calling(r) /\ wk[w].snap.status = "sending"
  BY <1>1 DEF Calling, ExclusionInv, SnapsSound, RunSnap
<1>3. rows'[r].status = new.status /\ \A q \in Rows \ {r} : rows'[q] = rows[q]
  BY <1>1, <1>2, OrmWriteFields DEF TypeOK
<1>4. /\ ~Calling(r)' /\ ~Taken(r)'
      /\ \A q \in Rows \ {r} : (Calling(q)' <=> Calling(q)) /\ (Taken(q)' <=> Taken(q))
  BY <1>1, RunPutsDown
<1>5. \A q \in Rows \ {r} : delivered'[q] = delivered[q]
  BY <1>1, FailedCall
<1>6. \A q \in Rows \ {r} : SeenSame(q)
  BY <1>3, <1>4, <1>5, SeenKept, RunCloses
<1>7. Hand(r) = "calling" /\ Hand(r)' = "free"
  BY <1>1, <1>2, <1>4 DEF HandsTold
<1>8. (Started(r)' <=> Started(r)) /\ Closing(r)' = Closing(r)
  BY SteppingTypes, RunCloses
<1> QED BY <1>1, <1>3, <1>6, <1>7, <1>8, RefuseMaps

LEMMA RunDropped ==
  ASSUME Stepping, NEW w \in Workers, InFlight(w), Fault, UNCHANGED <<rows, sess>>,
         UNCHANGED delivered \/ (wk[w].pc = "leased" /\ TakenBy(wk[w].row, 1)),
         NEW run, wk' = [wk EXCEPT ![w] = run], run.pc \notin {"leased", "accepted"}
  PROVE  Stepped
<1>1. TypeOK /\ TypeOK' /\ ExclusionInv /\ DeliveryInv /\ HandsTold /\ HandsTold'
  BY SteppingTypes DEF Stepping
<1> PICK r \in Rows : r = wk[w].row
  BY <1>1, HeldAlone
<1>2. Calling(r) \/ Taken(r)
  BY DEF InFlight, Calling, Taken
<1>3. wk[w].pc = "leased" => Calling(r)
  BY DEF Calling
<1>4. /\ ~Calling(r)' /\ ~Taken(r)'
      /\ \A q \in Rows \ {r} : (Calling(q)' <=> Calling(q)) /\ (Taken(q)' <=> Taken(q))
  BY <1>1, RunPutsDown
<1>5. \A q \in Rows \ {r} : delivered'[q] = delivered[q]
  BY <1>1, FailedCall DEF Failed
<1>6. \A q \in Rows \ {r} : SeenSame(q)
  BY <1>4, <1>5, SeenKept, RunCloses
<1>7. /\ Hand(r) \in {"calling", "taken"} /\ Hand(r)' = "free"
      /\ wk[w].pc = "leased" => Hand(r) = "calling"
  BY <1>1, <1>2, <1>3, <1>4 DEF HandsTold
<1>8. Closing(r)' = Closing(r)
  BY RunCloses
<1> QED BY <1>1, <1>6, <1>7, <1>8, DropMaps

LEMMA RunTook ==
  ASSUME Stepping, NEW w \in Workers, TelegramAccepts(w)
  PROVE  Stepped
<1>1. TypeOK /\ TypeOK' /\ ExclusionInv /\ DeliveryInv /\ InFlight(w) /\ HandsTold /\ HandsTold'
  BY SteppingTypes DEF Stepping, InFlight, TelegramAccepts
<1> PICK r \in Rows : r = wk[w].row
  BY <1>1, HeldAlone
<1>2. Calling(r) /\ Accepted(r) /\ UNCHANGED <<rows, sess>>
  BY DEF Calling, TelegramAccepts
<1>3. \A q \in Rows \ {r} : delivered'[q] = delivered[q]
  BY <1>1, <1>2, AnsweredCall, CallingCounted
<1> DEFINE run == [wk[w] EXCEPT !.pc = "accepted"]
<1>4. wk' = [wk EXCEPT ![w] = run] /\ run.pc = "accepted" /\ run.row = r
  BY <1>1 DEF TelegramAccepts, TypeOK, Run
<1> HIDE DEF run
<1>5. wk'[w] = run
  BY <1>1, <1>4 DEF TypeOK
<1>6. Taken(r)'
  BY <1>4, <1>5 DEF Taken
<1>7. \A q \in Rows \ {r} : (Calling(q)' <=> Calling(q)) /\ (Taken(q)' <=> Taken(q))
  BY <1>1, <1>2, <1>4, RunHands
<1>8. \A q \in Rows \ {r} : SeenSame(q)
  BY <1>2, <1>3, <1>7, SeenKept, RunCloses
<1>9. Hand(r) = "calling" /\ Hand(r)' = "taken" /\ Closing(r)' = Closing(r)
  BY <1>1, <1>2, <1>6, RunCloses DEF HandsTold
<1> QED BY <1>1, <1>2, <1>8, <1>9, TakeMaps

LEMMA RunSucceeded ==
  ASSUME Stepping, NEW w \in Workers, CompleteSuccess(w)
  PROVE  Stepped
<1>1. /\ TypeOK /\ TypeOK' /\ ExclusionInv /\ DeliveryInv /\ InFlight(w)
      /\ HandsTold /\ HandsTold' /\ wk[w].snap \in Row /\ wk[w].snap.status = "sending"
  BY SteppingTypes
     DEF Stepping, InFlight, CompleteSuccess, TypeOK, Run, ExclusionInv, SnapsSound, RunSnap
<1> PICK r \in Rows : r = wk[w].row
  BY <1>1, HeldAlone
<1>2. Taken(r)
  BY DEF Taken, CompleteSuccess
<1> DEFINE new == MarkSucceeded(wk[w].snap)
           run == [wk[w] EXCEPT !.pc = "notifying", !.snap = new]
<1>3. /\ wk' = [wk EXCEPT ![w] = run] /\ UNCHANGED <<sess, delivered, faults>>
      /\ rows' = [rows EXCEPT ![r] = OrmWrite(@, wk[w].snap, new)]
  BY <1>1 DEF CompleteSuccess, TypeOK
<1>4. run.pc = "notifying" /\ new.status = "succeeded"
  BY <1>1, MarkFields DEF TypeOK, Run
<1> HIDE DEF new, run
<1>5. rows'[r].status = "succeeded" /\ \A q \in Rows \ {r} : rows'[q] = rows[q]
  BY <1>1, <1>3, <1>4, OrmWriteFields DEF TypeOK
<1>6. /\ ~Calling(r)' /\ ~Taken(r)'
      /\ \A q \in Rows \ {r} : (Calling(q)' <=> Calling(q)) /\ (Taken(q)' <=> Taken(q))
  BY <1>1, <1>3, <1>4, RunPutsDown
<1>7. \A q \in Rows \ {r} : SeenSame(q)
  BY <1>3, <1>5, <1>6, SeenKept, RunCloses
<1>8. /\ Hand(r) = "taken" /\ Hand(r)' = "free" /\ Closing(r)' = Closing(r)
      /\ Started(r)' <=> Started(r)
  BY <1>1, <1>2, <1>3, <1>6, SteppingTypes, RunCloses DEF HandsTold
<1> QED BY <1>1, <1>3, <1>5, <1>7, <1>8, SucceedMaps

\* The lease is the one step that gives out a number, so it is not a Stepping.
LEMMA RunStarted ==
  ASSUME DeliveryInv, ExclusionInv', NEW w \in Workers, NEW r \in Rows,
         NEW src \in {"task", "due"}, AcquireLease(w, r, src)
  PROVE  Stepped
<1>1. TypeOK /\ TypeOK' /\ ExclusionInv /\ HandsTold /\ HandsTold'
  BY HandSays, HandSaysNext DEF DeliveryInv, ExclusionInv
<1>2. rows[r].status \in {"queued", "deferred"}
  BY <1>1 DEF AcquireLease, CanLease, Leasable, Takes, Entered, ExclusionInv, RunsSound, RunRows
<1>3. ~Calling(r) /\ ~Taken(r)
  BY <1>2, Loose
<1> DEFINE run == [pc |-> "leased", row |-> r, snap |-> Leased(rows[r]), src |-> src,
                   todo |-> wk[w].todo \ {r}, stale |-> {}]
<1>4. /\ wk' = [wk EXCEPT ![w] = run] /\ run.pc = "leased" /\ run.row = r /\ ~InFlight(w)
      /\ rows' = [rows EXCEPT ![r] = Leased(rows[r])] /\ UNCHANGED <<sess, delivered, faults>>
  BY DEF AcquireLease, Takes, InFlight
<1> HIDE DEF run
<1>5. rows'[r].status = "sending" /\ \A q \in Rows \ {r} : rows'[q] = rows[q]
  BY <1>1, <1>4, MarkFields DEF TypeOK
<1>6. Started(r)'
  BY <1>1, <1>4 DEF TypeOK, Leased, Row, Started
<1>7. wk'[w] = run
  BY <1>1, <1>4 DEF TypeOK
<1>8. Calling(r)'
  BY <1>4, <1>7 DEF Calling
<1>9. \A q \in Rows \ {r} : (Calling(q)' <=> Calling(q)) /\ (Taken(q)' <=> Taken(q))
  BY <1>1, <1>4, RunHands
<1>10. \A q \in Rows : Closing(q)' = Closing(q)
  BY <1>4, RunCloses
<1>11. \A q \in Rows \ {r} : SeenSame(q)
  BY <1>1, <1>4, <1>5, <1>9, <1>10 DEF SeenSame, HandsTold, Started
<1>12. Hand(r) = "free" /\ Hand(r)' = "calling"
  BY <1>1, <1>3, <1>8 DEF HandsTold
<1> QED BY <1>1, <1>2, <1>4, <1>5, <1>6, <1>10, <1>11, <1>12, StartMaps

\* A run that has no row in hand, and ends up with none.
LEMMA RunIdle ==
  ASSUME Stepping, NEW w \in Workers, ~InFlight(w), NEW run, wk' = [wk EXCEPT ![w] = run],
         run.pc \notin {"leased", "accepted"}, UNCHANGED <<sess, delivered>>,
         \A r \in Rows : rows'[r].status = rows[r].status, UNCHANGED faults \/ Fault
  PROVE  Stepped
<1>1. \A r \in Rows : (Calling(r)' <=> Calling(r)) /\ (Taken(r)' <=> Taken(r))
  BY SteppingTypes, RunHands
<1>2. \A r \in Rows : SeenSame(r)
  BY <1>1, SeenKept, RunCloses
<1> QED BY <1>2, SteppingTypes, IdleMaps

\* Locks that were read as stale are released: nobody has those rows in hand.
LEMMA RowsReleased ==
  ASSUME Stepping, NEW stale \in SUBSET Rows, rows' = Released(stale),
         \A r \in stale : rows[r].status = "sending" /\ ~Held(r),
         \A r \in Rows : /\ Calling(r)' <=> Calling(r)
                         /\ Taken(r)' <=> Taken(r)
                         /\ Closing(r)' = Closing(r),
         UNCHANGED <<delivered, faults>>
  PROVE  Stepped
<1>1. TypeOK /\ TypeOK' /\ ExclusionInv /\ HandsTold /\ HandsTold'
  BY SteppingTypes
<1>2. /\ \A r \in Rows \ stale : rows'[r] = rows[r]
      /\ \A r \in stale : rows'[r].status = "queued"
  BY <1>1, ReleasedRows
<1>3. \A r \in stale : ~Calling(r) /\ ~Taken(r)
  BY <1>1, SyncAlone DEF Held, InFlight, Calling, Taken, Syncing
<1>4. \A r \in stale : Hand(r) = "free"
  BY <1>1, <1>3 DEF HandsTold
<1>5. \A r \in Rows : Hand(r)' = Hand(r) /\ (Started(r)' <=> Started(r))
  BY <1>1, SteppingTypes DEF HandsTold
<1> QED BY <1>1, <1>2, <1>4, <1>5, ReleaseMaps

LEMMA RunMaps ==
  ASSUME Stepping, NEW w \in Workers,
         RunStep(w) \/ RunFault(w),
         \A r \in Rows, src \in {"task", "due"} : ~AcquireLease(w, r, src)
  PROVE  Stepped
<1>1. TypeOK /\ TypeOK' /\ ExclusionInv /\ wk[w].snap \in Row
  BY SteppingTypes DEF TypeOK, Run
<1>2. /\ MarkDeadLetter(wk[w].snap).status = "dead_letter"
      /\ MarkDeferred(wk[w].snap, RetryDue).status = "deferred"
      /\ MarkBlocked(wk[w].snap).status = "blocked"
  BY <1>1, MarkFields
<1>3. ASSUME wk[w].pc = "leased", Failed(wk[w].row), UNCHANGED sess, NEW new, NEW outcome,
             FinishRow(w, outcome, new),
             new.status \in {"deferred", "failed", "blocked", "dead_letter"}
      PROVE  Stepped
  <2>1. PICK run : wk' = [wk EXCEPT ![w] = run] /\ run.pc \notin {"leased", "accepted"}
    BY <1>3, RunEnds DEF FinishRow
  <2>2. rows' = [rows EXCEPT ![wk[w].row] = OrmWrite(@, wk[w].snap, new)]
    BY <1>3 DEF FinishRow
  <2> QED BY <1>3, <2>1, <2>2, RunRefused
<1>4. CASE TelegramTransient(w) \/ TelegramPermanent(w) \/ DeferLocally(w)
  <2>1. wk[w].pc = "leased" /\ Failed(wk[w].row) /\ UNCHANGED sess
    BY <1>4 DEF TelegramTransient, TelegramPermanent, DeferLocally, Unheard, Failed
  <2>2. \/ FinishRow(w, "dead_letter", MarkDeadLetter(wk[w].snap))
        \/ FinishRow(w, "deferred", MarkDeferred(wk[w].snap, RetryDue))
        \/ FinishRow(w, "blocked", MarkBlocked(wk[w].snap))
    BY <1>4 DEF TelegramTransient, TelegramPermanent, DeferLocally
  <2> QED BY <1>2, <1>3, <2>1, <2>2
<1>5. CASE CancelledWhileSending(w) \/ FinishFails(w) \/ (WorkerDies(w) /\ InFlight(w))
  <2>1. /\ InFlight(w) /\ Fault /\ UNCHANGED <<rows, sess>>
        /\ UNCHANGED delivered \/ (wk[w].pc = "leased" /\ TakenBy(wk[w].row, 1))
    BY <1>5 DEF CancelledWhileSending, FinishFails, WorkerDies, InFlight
  <2>2. EndRun(w) \/ wk' = [wk EXCEPT ![w] = IdleWorker]
    BY <1>5 DEF CancelledWhileSending, FinishFails, WorkerDies
  <2>3. PICK run : wk' = [wk EXCEPT ![w] = run] /\ run.pc \notin {"leased", "accepted"}
    BY <2>2, RunEnds, IdleIsQuiet
  <2> QED BY <2>1, <2>3, RunDropped
<1>6. ASSUME ~InFlight(w), UNCHANGED <<sess, delivered>>, UNCHANGED faults \/ Fault,
             \A r \in Rows : rows'[r].status = rows[r].status,
             NEW run, wk' = [wk EXCEPT ![w] = run], run.pc \notin {"leased", "accepted"}
      PROVE  Stepped
  BY <1>6, RunIdle
<1>7. CASE StartDueRun(w)
  <2> DEFINE run == [IdleWorker EXCEPT !.pc = "releasing", !.stale = StaleLocks({"stale"})]
  <2>1. /\ wk' = [wk EXCEPT ![w] = run] /\ run.pc \notin {"leased", "accepted"}
        /\ ~InFlight(w) /\ UNCHANGED <<rows, sess, delivered, faults>>
    BY <1>7 DEF StartDueRun, InFlight, IdleWorker
  <2> HIDE DEF run
  <2> QED BY <1>6, <2>1
<1>8. CASE EndDueRun(w) \/ (\E r \in Rows, src \in {"task", "due"} : BotMissing(w, r, src))
           \/ (WorkerDies(w) /\ ~InFlight(w))
  <2>1. /\ wk' = [wk EXCEPT ![w] = IdleWorker] /\ IdleWorker.pc \notin {"leased", "accepted"}
        /\ ~InFlight(w) /\ UNCHANGED <<rows, sess, delivered>>
        /\ UNCHANGED faults \/ Fault
    BY <1>8 DEF EndDueRun, BotMissing, WorkerDies, Takes, InFlight, IdleWorker
  <2> QED BY <1>6, <2>1
<1>9. CASE \E r \in Rows, src \in {"task", "due"} : SkipRow(w, r, src)
  <2>1. UNCHANGED <<rows, sess, delivered, faults>>
    BY <1>9 DEF SkipRow
  <2>2. \A v \in Workers : wk'[v].pc = wk[v].pc /\ wk'[v].row = wk[v].row
    BY <1>1, <1>9 DEF SkipRow, TypeOK, Run
  <2>3. \A q \in Rows : (Calling(q)' <=> Calling(q)) /\ (Taken(q)' <=> Taken(q))
    BY <2>1, <2>2 DEF Calling, Taken
  <2>4. \A q \in Rows : SeenSame(q)
    BY <2>1, <2>3, SeenKept, RunCloses
  <2> QED BY <1>1, <2>1, <2>4, IdleMaps
<1>10. CASE Notified(w)
  <2>1. PICK run : wk' = [wk EXCEPT ![w] = run] /\ run.pc \notin {"leased", "accepted"}
    BY <1>10, RunEnds DEF Notified
  <2>2. ~InFlight(w) /\ UNCHANGED <<rows, sess, delivered, faults>>
    BY <1>10 DEF Notified, InFlight
  <2> QED BY <1>6, <2>1, <2>2
<1>11. CASE CancelledWhileNotifying(w)
  <2> DEFINE new == MarkSucceeded(wk[w].snap)
  <2>1. new.status = wk[w].snap.status /\ wk[w].row \in Rows /\ ~InFlight(w)
    BY <1>1, <1>11, MarkFields
       DEF CancelledWhileNotifying, ExclusionInv, SnapsSound, RunSnap, TypeOK, InFlight
  <2>2. /\ rows' = [rows EXCEPT ![wk[w].row] = OrmWrite(@, wk[w].snap, new)]
        /\ UNCHANGED <<sess, delivered>> /\ Fault /\ EndRun(w)
    BY <1>11 DEF CancelledWhileNotifying
  <2>3. PICK run : wk' = [wk EXCEPT ![w] = run] /\ run.pc \notin {"leased", "accepted"}
    BY <2>2, RunEnds
  <2> HIDE DEF new
  <2>4. \A r \in Rows : rows'[r].status = rows[r].status
    BY <1>1, <2>1, <2>2, OrmWriteFields DEF TypeOK
  <2> QED BY <1>6, <2>1, <2>2, <2>3, <2>4
<1>12. CASE CommitStaleRelease(w)
  <2> DEFINE stale == wk[w].stale
             run == [IdleWorker EXCEPT !.pc = "looping", !.todo = ReadyRows']
  <2>1. /\ wk[w].pc = "releasing" /\ stale \in SUBSET Rows
        /\ \A r \in stale : rows[r].status = "sending" /\ ~Held(r)
    BY <1>1, <1>12 DEF CommitStaleRelease, ExclusionInv, RunsSound, RunRows, TypeOK, Run
  <2>2. /\ rows' = Released(stale) /\ wk' = [wk EXCEPT ![w] = run] /\ ~InFlight(w)
        /\ run.pc \notin {"leased", "accepted"} /\ UNCHANGED <<sess, delivered, faults>>
    BY <1>12, <2>1 DEF CommitStaleRelease, InFlight, IdleWorker
  <2> HIDE DEF stale, run
  <2>3. \A r \in Rows : (Calling(r)' <=> Calling(r)) /\ (Taken(r)' <=> Taken(r))
    BY <1>1, <2>2, RunHands
  <2> QED BY <2>1, <2>2, <2>3, RunCloses, RowsReleased
<1> QED BY <1>4, <1>5, <1>7, <1>8, <1>9, <1>10, <1>11, <1>12, RunTook, RunSucceeded
        DEF RunStep, RunFault

-----------------------------------------------------------------------------
(* Requests.                                                               *)

\* A handler that was not sending its row, and is not afterwards, leaves every hand as it is.
LEMMA HandlerSeen ==
  ASSUME Stepping, NEW s \in Sessions, NEW h, sess' = [sess EXCEPT ![s] = h], UNCHANGED wk,
         NEW r, Syncing(sess[s]) => sess[s].row # r, Syncing(h) => h.row # r
  PROVE  /\ (Calling(r)' <=> Calling(r)) /\ (Taken(r)' <=> Taken(r))
         /\ r \in Rows => Hand(r)' = Hand(r)
<1>1. TypeOK /\ HandsTold /\ HandsTold'
  BY SteppingTypes
<1>2. (Calling(r)' <=> Calling(r)) /\ (Taken(r)' <=> Taken(r))
  BY <1>1, HandlerHands
<1>3. r \in Rows => Hand(r)' = Hand(r)
  BY <1>1, <1>2 DEF HandsTold
<1> QED BY <1>2, <1>3

LEMMA HandlerCloses ==
  ASSUME TypeOK, NEW s \in Sessions, NEW h, sess' = [sess EXCEPT ![s] = h],
         NEW r,
         (sess[s].op = "cancel" /\ sess[s].row = r) <=> (h.op = "cancel" /\ h.row = r)
  PROVE  Closing(r)' = Closing(r)
<1>1. sess'[s] = h /\ \A t \in Sessions \ {s} : sess'[t] = sess[t]
  BY DEF TypeOK
<1> QED BY <1>1 DEF Closing

\* One that ends: only a cancel request is counted, and is counted out.
LEMMA AnswerCloses ==
  ASSUME TypeOK, NEW s \in Sessions, Answer(s), NEW r, sess[s].op = "cancel" => sess[s].row # r
  PROVE  Closing(r)' = Closing(r)
<1>1. sess' = [sess EXCEPT ![s] = IdleSession] /\ IdleSession.op # "cancel"
  BY DEF Answer, IdleSession
<1> QED BY <1>1, HandlerCloses

\* A handler that neither sends nor cancels, before or after.
LEMMA HandlerIdle ==
  ASSUME Stepping, NEW s \in Sessions, NEW h, sess' = [sess EXCEPT ![s] = h],
         UNCHANGED <<wk, delivered>>, ~Syncing(sess[s]), ~Syncing(h),
         sess[s].op # "cancel", h.op # "cancel",
         \A r \in Rows : rows'[r].status = rows[r].status, UNCHANGED faults \/ Fault
  PROVE  Stepped
<1>1. TypeOK /\ TypeOK'
  BY SteppingTypes
<1>2. \A r \in Rows : SeenSame(r)
  BY <1>1, HandlerSeen, HandlerCloses, SeenKept
<1> QED BY <1>1, <1>2, IdleMaps

LEMMA SyncRefusedMaps ==
  ASSUME Stepping, NEW s \in Sessions, SyncRefused(s)
  PROVE  Stepped
<1>1. /\ TypeOK /\ TypeOK' /\ ExclusionInv /\ DeliveryInv /\ HandsTold /\ HandsTold'
      /\ Syncing(sess[s]) /\ sess[s].snap \in Row /\ sess[s].snap.status = "created"
  BY SteppingTypes
     DEF Stepping, ExclusionInv, SyncRefused, Syncing, TypeOK, Handler, SnapsSound, HandlerSnap
<1> PICK r \in Rows : r = sess[s].row
  BY <1>1, SyncAlone
<1>2. Calling(r) /\ Failed(r) /\ UNCHANGED wk /\ Answer(s)
  BY DEF Calling, SyncRefused, Unheard, Failed
<1>3. \A q \in Rows \ {r} : delivered'[q] = delivered[q]
  BY <1>1, <1>2, FailedCall
<1>4. /\ ~Calling(r)' /\ ~Taken(r)'
      /\ \A q \in Rows \ {r} : (Calling(q)' <=> Calling(q)) /\ (Taken(q)' <=> Taken(q))
  BY <1>1, <1>2, HandlerPutsDown
<1>5. rows'[r].status = "failed" /\ \A q \in Rows \ {r} : rows'[q] = rows[q]
  <2> DEFINE new == MarkFailed(sess[s].snap)
  <2>1. new.status = "failed"
    BY <1>1, MarkFields
  <2>2. rows' = [rows EXCEPT ![r] = OrmWrite(@, sess[s].snap, new)]
    BY DEF SyncRefused, Commit
  <2> HIDE DEF new
  <2> QED BY <1>1, <2>1, <2>2, OrmWriteFields DEF TypeOK
<1>6. \A q \in Rows : Closing(q)' = Closing(q)
  BY <1>1, <1>2, AnswerCloses DEF Syncing
<1>7. \A q \in Rows \ {r} : SeenSame(q)
  BY <1>3, <1>4, <1>5, <1>6, SeenKept
<1>8. Hand(r) = "calling" /\ Hand(r)' = "free"
  BY <1>1, <1>2, <1>4 DEF HandsTold
<1>9. Started(r)' <=> Started(r)
  BY SteppingTypes
<1> QED BY <1>1, <1>2, <1>5, <1>6, <1>7, <1>8, <1>9, RefuseMaps

LEMMA SyncAcceptedMaps ==
  ASSUME Stepping, NEW s \in Sessions, SyncAccepted(s)
  PROVE  Stepped
<1>1. /\ TypeOK /\ TypeOK' /\ ExclusionInv /\ DeliveryInv /\ HandsTold /\ HandsTold'
      /\ Syncing(sess[s])
  BY SteppingTypes DEF Stepping, SyncAccepted, Syncing
<1> PICK r \in Rows : r = sess[s].row
  BY <1>1, SyncAlone
<1>2. Calling(r) /\ Accepted(r) /\ UNCHANGED <<rows, wk>>
  BY DEF Calling, SyncAccepted
<1>3. \A q \in Rows \ {r} : delivered'[q] = delivered[q]
  BY <1>1, <1>2, AnsweredCall, CallingCounted
<1> DEFINE h == [sess[s] EXCEPT !.op = "synced"]
<1>4. sess' = [sess EXCEPT ![s] = h] /\ h.op = "synced" /\ h.row = r
  BY <1>1 DEF SyncAccepted, TypeOK, Handler
<1> HIDE DEF h
<1>5. sess'[s] = h
  BY <1>1, <1>4 DEF TypeOK
<1>6. Taken(r)'
  BY <1>4, <1>5 DEF Taken
<1>7. \A q \in Rows \ {r} : (Calling(q)' <=> Calling(q)) /\ (Taken(q)' <=> Taken(q))
  BY <1>1, <1>2, <1>4, HandlerHands
<1>8. \A q \in Rows : Closing(q)' = Closing(q)
  BY <1>1, <1>4, HandlerCloses DEF Syncing
<1>9. \A q \in Rows \ {r} : SeenSame(q)
  BY <1>2, <1>3, <1>7, <1>8, SeenKept
<1>10. Hand(r) = "calling" /\ Hand(r)' = "taken"
  BY <1>1, <1>2, <1>6 DEF HandsTold
<1> QED BY <1>1, <1>2, <1>8, <1>9, <1>10, TakeMaps

LEMMA SyncSucceededMaps ==
  ASSUME Stepping, NEW s \in Sessions, SyncSucceeded(s)
  PROVE  Stepped
<1>1. /\ TypeOK /\ TypeOK' /\ ExclusionInv /\ DeliveryInv /\ HandsTold /\ HandsTold'
      /\ Syncing(sess[s]) /\ sess[s].snap \in Row /\ sess[s].snap.status = "created"
  BY SteppingTypes
     DEF Stepping, ExclusionInv, SyncSucceeded, Syncing, TypeOK, Handler, SnapsSound, HandlerSnap
<1> PICK r \in Rows : r = sess[s].row
  BY <1>1, SyncAlone
<1>2. Taken(r) /\ UNCHANGED <<wk, delivered, faults>> /\ Answer(s)
  BY DEF Taken, SyncSucceeded
<1>3. /\ ~Calling(r)' /\ ~Taken(r)'
      /\ \A q \in Rows \ {r} : (Calling(q)' <=> Calling(q)) /\ (Taken(q)' <=> Taken(q))
  BY <1>1, <1>2, HandlerPutsDown
<1>4. rows'[r].status = "succeeded" /\ \A q \in Rows \ {r} : rows'[q] = rows[q]
  <2> DEFINE new == MarkSucceeded(sess[s].snap)
  <2>1. new.status = "succeeded"
    BY <1>1, MarkFields
  <2>2. rows' = [rows EXCEPT ![r] = OrmWrite(@, sess[s].snap, new)]
    BY DEF SyncSucceeded, Commit
  <2> HIDE DEF new
  <2> QED BY <1>1, <2>1, <2>2, OrmWriteFields DEF TypeOK
<1>5. \A q \in Rows : Closing(q)' = Closing(q)
  BY <1>1, <1>2, AnswerCloses DEF Syncing
<1>6. \A q \in Rows \ {r} : SeenSame(q)
  BY <1>2, <1>3, <1>4, <1>5, SeenKept
<1>7. Hand(r) = "taken" /\ Hand(r)' = "free"
  BY <1>1, <1>2, <1>3 DEF HandsTold
<1>8. Started(r)' <=> Started(r)
  BY SteppingTypes
<1> QED BY <1>1, <1>2, <1>4, <1>5, <1>6, <1>7, <1>8, SucceedMaps

\* The cancel request opens its window, writes, or ends before its write.
LEMMA CancelRead ==
  ASSUME Stepping, NEW s \in Sessions, NEW r \in Rows, ReadForCancel(s, r)
  PROVE  Stepped
<1>1. TypeOK /\ TypeOK' /\ sess[s].op = "idle" /\ ~Syncing(sess[s])
  BY SteppingTypes DEF ReadForCancel, Syncing
<1>2. /\ rows[r].status \in Cancellable /\ UNCHANGED <<rows, wk, delivered, faults>>
  BY DEF ReadForCancel
<1> DEFINE h == [op |-> "cancel", row |-> r, snap |-> rows[r], prev |-> "none", stale |-> {}]
<1>3. /\ sess' = [sess EXCEPT ![s] = h] /\ h.op = "cancel" /\ h.row = r /\ ~Syncing(h)
  BY DEF ReadForCancel, Hold, Syncing
<1> HIDE DEF h
<1>4. \A q \in Rows : /\ (Calling(q)' <=> Calling(q)) /\ (Taken(q)' <=> Taken(q))
                      /\ Hand(q)' = Hand(q)
  BY <1>1, <1>2, <1>3, HandlerSeen
<1>5. \A q \in Rows \ {r} : Closing(q)' = Closing(q)
  BY <1>1, <1>3, HandlerCloses
<1>6. \A q \in Rows \ {r} : SeenSame(q)
  BY <1>2, <1>4, <1>5, SeenKept
<1>7. s \notin Closing(r) /\ Closing(r)' = Closing(r) \cup {s}
  <2>1. sess'[s] = h /\ \A t \in Sessions \ {s} : sess'[t] = sess[t]
    BY <1>1, <1>3 DEF TypeOK
  <2> QED BY <1>1, <1>3, <2>1 DEF Closing
<1>8. Started(r)' <=> Started(r)
  BY SteppingTypes
<1> QED BY <1>1, <1>2, <1>4, <1>6, <1>7, <1>8, CancelMaps

LEMMA CancelEnds ==
  ASSUME Stepping, NEW s \in Sessions, sess[s].op = "cancel", Answer(s), UNCHANGED <<wk, delivered>>,
         \/ CommitCancel(s)
         \/ UNCHANGED rows /\ Fault
  PROVE  Stepped
<1>1. /\ TypeOK /\ TypeOK' /\ ~Syncing(sess[s]) /\ sess[s].snap \in Row
      /\ sess[s].snap.status \in Cancellable /\ sess[s].row \in Rows
  BY SteppingTypes DEF Syncing, ExclusionInv, SnapsSound, HandlerSnap, TypeOK, Handler
<1> PICK r \in Rows : r = sess[s].row
  BY <1>1
<1>2. sess' = [sess EXCEPT ![s] = IdleSession]
  BY DEF Answer
<1>3. \A q \in Rows : /\ (Calling(q)' <=> Calling(q)) /\ (Taken(q)' <=> Taken(q))
                      /\ Hand(q)' = Hand(q)
  BY <1>1, <1>2, IdleIsQuiet, HandlerSeen
<1>4. \A q \in Rows \ {r} : Closing(q)' = Closing(q)
  BY <1>1, AnswerCloses
<1>5. /\ \A q \in Rows \ {r} : rows'[q] = rows[q]
      /\ \/ rows'[r].status = "cancelled" /\ UNCHANGED faults
         \/ rows'[r].status = rows[r].status /\ Fault
  <2> DEFINE new == MarkCancelled(sess[s].snap)
  <2>1. new.status = "cancelled" /\ sess[s].snap.status # "cancelled"
    BY <1>1, MarkFields DEF Cancellable
  <2>2. CASE CommitCancel(s)
    <3>1. rows' = [rows EXCEPT ![r] = OrmWrite(@, sess[s].snap, new)] /\ UNCHANGED faults
      BY <2>2 DEF CommitCancel, Commit
    <3> HIDE DEF new
    <3> QED BY <1>1, <2>1, <3>1, OrmWriteFields DEF TypeOK
  <2> QED BY <2>2
<1>6. \A q \in Rows \ {r} : SeenSame(q)
  BY <1>3, <1>4, <1>5, SeenKept
<1>7. s \in Closing(r) /\ Closing(r)' = Closing(r) \ {s}
  <2>1. sess'[s].op = "idle" /\ \A t \in Sessions \ {s} : sess'[t] = sess[t]
    BY <1>1, <1>2 DEF TypeOK, IdleSession
  <2> QED BY <1>1, <2>1 DEF Closing
<1>8. Started(r)' <=> Started(r)
  BY SteppingTypes
<1> QED BY <1>1, <1>3, <1>5, <1>6, <1>7, <1>8, CancelMaps

\* A request ends before its next write.
LEMMA SessionDiesMaps ==
  ASSUME Stepping, NEW s \in Sessions, SessionDies(s)
  PROVE  Stepped
<1>1. /\ TypeOK /\ TypeOK' /\ ExclusionInv /\ DeliveryInv /\ HandsTold /\ HandsTold'
      /\ Fault /\ UNCHANGED <<rows, wk, delivered>> /\ Answer(s)
  BY SteppingTypes DEF Stepping, SessionDies
<1>2. sess' = [sess EXCEPT ![s] = IdleSession] /\ IdleSession.op = "idle"
  BY <1>1 DEF Answer, IdleSession
<1>3. CASE Syncing(sess[s])
  <2> PICK r \in Rows : r = sess[s].row
    BY <1>1, <1>3, SyncAlone
  <2>1. Calling(r) \/ Taken(r)
    BY <1>3 DEF Syncing, Calling, Taken
  <2>2. /\ ~Calling(r)' /\ ~Taken(r)'
        /\ \A q \in Rows \ {r} : (Calling(q)' <=> Calling(q)) /\ (Taken(q)' <=> Taken(q))
    BY <1>1, <1>3, HandlerPutsDown
  <2>3. \A q \in Rows : Closing(q)' = Closing(q)
    BY <1>1, <1>3, AnswerCloses DEF Syncing
  <2>4. \A q \in Rows \ {r} : SeenSame(q)
    BY <1>1, <2>2, <2>3, SeenKept
  <2>5. Hand(r) \in {"calling", "taken"} /\ Hand(r)' = "free"
    BY <1>1, <2>1, <2>2 DEF HandsTold
  <2> QED BY <1>1, <2>3, <2>4, <2>5, DropMaps
<1>4. CASE sess[s].op = "cancel"
  BY <1>1, <1>4, CancelEnds
<1>5. CASE ~Syncing(sess[s]) /\ sess[s].op # "cancel"
  BY <1>1, <1>2, <1>5, IdleIsQuiet, HandlerIdle
<1> QED BY <1>3, <1>4, <1>5

\* The request that creates a row has it in hand when it sends it itself.
LEMMA Created ==
  ASSUME Stepping, NEW s \in Sessions, NEW r \in Rows, NEW mode \in {"sync", "now", "later"},
         CreateHistory(s, r, mode)
  PROVE  Stepped
<1> DEFINE new == [AbsentRow EXCEPT
                     !.status = IF mode = "sync" THEN "created" ELSE "queued",
                     !.next_retry_at = IF mode = "later" THEN "future" ELSE "none"]
<1>1. /\ TypeOK /\ TypeOK' /\ DeliveryInv /\ HandsTold /\ HandsTold'
      /\ rows[r].status = "absent" /\ sess[s].op = "idle" /\ ~Syncing(sess[s])
  BY SteppingTypes DEF Stepping, CreateHistory, Syncing
<1>2. ~Calling(r) /\ ~Taken(r)
  BY <1>1, Loose
<1>3. new.status = IF mode = "sync" THEN "created" ELSE "queued"
  BY DEF AbsentRow
<1>4. /\ rows' = [rows EXCEPT ![r] = new] /\ UNCHANGED <<wk, delivered, faults>>
      /\ \/ mode = "sync" /\ Hold(s, "sync", r, new, "none")
         \/ mode # "sync" /\ Hold(s, "enqueue", r, new, "none")
         \/ mode # "sync" /\ UNCHANGED sess
  BY DEF CreateHistory
<1> HIDE DEF new
<1>5. rows'[r].status = new.status /\ \A q \in Rows \ {r} : rows'[q] = rows[q]
  BY <1>1, <1>4 DEF TypeOK
<1>6. ASSUME NEW op, op # "cancel", Hold(s, op, r, new, "none")
      PROVE  /\ sess'[s].op = op /\ sess'[s].row = r
             /\ \A q \in Rows \ {r} : /\ (Calling(q)' <=> Calling(q))
                                      /\ (Taken(q)' <=> Taken(q))
             /\ op = "enqueue" => Hand(r)' = Hand(r)
             /\ \A q \in Rows : Closing(q)' = Closing(q)
  <2> DEFINE h == [op |-> op, row |-> r, snap |-> new, prev |-> "none", stale |-> {}]
  <2>1. sess' = [sess EXCEPT ![s] = h] /\ h.row = r /\ h.op = op
    BY <1>6 DEF Hold
  <2> HIDE DEF h
  <2>2. sess'[s] = h
    BY <1>1, <2>1 DEF TypeOK
  <2>3. op = "enqueue" => ~Syncing(h)
    BY <2>1 DEF Syncing
  <2>4. \A q \in Rows \ {r} : (Calling(q)' <=> Calling(q)) /\ (Taken(q)' <=> Taken(q))
    BY <1>1, <1>4, <2>1, HandlerHands
  <2>5. op = "enqueue" => Hand(r)' = Hand(r)
    BY <1>1, <1>4, <2>1, <2>3, HandlerSeen
  <2>6. \A q \in Rows : Closing(q)' = Closing(q)
    BY <1>1, <1>6, <2>1, HandlerCloses
  <2> QED BY <2>1, <2>2, <2>4, <2>5, <2>6
<1>7. ASSUME UNCHANGED sess
      PROVE  /\ \A q \in Rows \ {r} : /\ (Calling(q)' <=> Calling(q))
                                      /\ (Taken(q)' <=> Taken(q))
             /\ Hand(r)' = Hand(r)
             /\ \A q \in Rows : Closing(q)' = Closing(q)
  <2>1. \A q \in Rows : (Calling(q)' <=> Calling(q)) /\ (Taken(q)' <=> Taken(q))
    BY <1>4, <1>7 DEF Calling, Taken
  <2>2. Hand(r)' = Hand(r)
    BY <1>1, <2>1 DEF HandsTold
  <2> QED BY <1>7, <2>1, <2>2, RunCloses
<1>8. /\ \A q \in Rows \ {r} : (Calling(q)' <=> Calling(q)) /\ (Taken(q)' <=> Taken(q))
      /\ \A q \in Rows : Closing(q)' = Closing(q)
  BY <1>4, <1>6, <1>7
<1>9. \A q \in Rows \ {r} : SeenSame(q)
  BY <1>4, <1>5, <1>8, SeenKept
<1>10. \/ rows'[r].status = "queued" /\ Hand(r)' = Hand(r)
       \/ rows'[r].status = "created" /\ Hand(r)' = "calling"
  <2>1. CASE mode = "sync"
    <3>1. Calling(r)'
      BY <1>4, <1>6, <2>1 DEF Calling
    <3> QED BY <1>1, <1>3, <1>5, <2>1, <3>1 DEF HandsTold
  <2>2. CASE mode # "sync"
    BY <1>3, <1>4, <1>5, <1>6, <1>7, <2>2
  <2> QED BY <2>1, <2>2
<1>11. Started(r)' <=> Started(r)
  BY SteppingTypes
<1> QED BY <1>1, <1>4, <1>8, <1>9, <1>10, <1>11, CreateMaps

LEMMA RetryWritten ==
  ASSUME Stepping, NEW s \in Sessions, CommitRetry(s)
  PROVE  Stepped
<1>1. /\ TypeOK /\ TypeOK' /\ HandsTold /\ HandsTold' /\ ~Syncing(sess[s])
      /\ sess[s].op = "retry" /\ sess[s].snap \in Row /\ sess[s].snap.status \in Retryable
      /\ sess[s].row \in Rows /\ rows[sess[s].row].status \in Retryable
  BY SteppingTypes
     DEF CommitRetry, Syncing, ExclusionInv, SnapsSound, HandlerSnap, HandlersSound, HandlerRow,
         TypeOK, Handler
<1> PICK r \in Rows : r = sess[s].row
  BY <1>1
<1> DEFINE new == MarkRetried(sess[s].snap)
<1>2. new.status = "queued" /\ sess[s].snap.status # "queued"
  BY <1>1, MarkFields DEF Retryable
<1>3. /\ rows' = [rows EXCEPT ![r] = OrmWrite(@, sess[s].snap, new)]
      /\ UNCHANGED <<wk, delivered, faults>>
  BY DEF CommitRetry, Commit
<1>4. PICK op, prev : op \in {"enqueue", "restore"} /\ Hold(s, op, r, new, prev)
  BY DEF CommitRetry
<1> DEFINE h == [op |-> op, row |-> r, snap |-> new, prev |-> prev, stale |-> {}]
<1>5. sess' = [sess EXCEPT ![s] = h] /\ ~Syncing(h) /\ h.op # "cancel"
  BY <1>4 DEF Hold, Syncing
<1> HIDE DEF new, h
<1>6. rows'[r].status = "queued" /\ \A q \in Rows \ {r} : rows'[q] = rows[q]
  BY <1>1, <1>2, <1>3, OrmWriteFields DEF TypeOK
<1>7. \A q \in Rows : /\ (Calling(q)' <=> Calling(q)) /\ (Taken(q)' <=> Taken(q))
                      /\ Hand(q)' = Hand(q)
  BY <1>1, <1>3, <1>5, HandlerSeen
<1>8. \A q \in Rows : Closing(q)' = Closing(q)
  BY <1>1, <1>5, HandlerCloses
<1>9. \A q \in Rows \ {r} : SeenSame(q)
  BY <1>3, <1>6, <1>7, <1>8, SeenKept
<1>10. Started(r)' <=> Started(r)
  BY SteppingTypes
<1> QED BY <1>1, <1>3, <1>6, <1>7, <1>8, <1>9, <1>10, RetryMaps

\* The requests that change no status, and those that release.
LEMMA HandlerMaps ==
  ASSUME Stepping, NEW s \in Sessions,
         \/ \E r \in Rows : ReplayHistory(s, r) \/ ReadForRetry(s, r)
         \/ ReadForRelease(s) \/ EnqueueTask(s) \/ CommitTaskId(s)
         \/ CommitRestore(s) \/ CommitRelease(s) \/ RipenHeld(s)
  PROVE  Stepped
<1>1. /\ TypeOK /\ TypeOK' /\ ExclusionInv /\ HandlerSnap(sess[s]) /\ HandlerRow(sess[s])
      /\ sess[s] \in Handler /\ sess[s].snap \in Row
      /\ sess[s].op \notin {"idle", "release"} => sess[s].row \in Rows
  BY SteppingTypes DEF ExclusionInv, SnapsSound, HandlersSound, TypeOK, Handler
<1>2. UNCHANGED <<wk, delivered, faults>>
  BY DEF ReplayHistory, ReadForRetry, ReadForRelease, EnqueueTask, CommitTaskId,
         CommitRestore, CommitRelease, RipenHeld
<1>3. ASSUME NEW new, sess[s].row \in Rows, Commit(s, new), new.status = sess[s].snap.status
      PROVE  \A r \in Rows : rows'[r].status = rows[r].status
  BY <1>1, <1>3, OrmWriteFields DEF Commit, TypeOK
<1>4. ASSUME NEW h, sess' = [sess EXCEPT ![s] = h], ~Syncing(h), ~Syncing(sess[s]),
             h.op # "cancel", sess[s].op # "cancel",
             \A r \in Rows : rows'[r].status = rows[r].status
      PROVE  Stepped
  BY <1>2, <1>4, HandlerIdle
<1>5. IdleSession.op = "idle" /\ ~Syncing(IdleSession)
  BY DEF IdleSession, Syncing
<1>6. CASE \E r \in Rows : ReplayHistory(s, r) \/ ReadForRetry(s, r)
  <2>1. UNCHANGED rows /\ ~Syncing(sess[s]) /\ sess[s].op # "cancel"
    BY <1>6 DEF ReplayHistory, ReadForRetry, Syncing
  <2>2. PICK op, r, snap, prev : op \in {"enqueue", "retry"} /\ Hold(s, op, r, snap, prev)
    BY <1>6 DEF ReplayHistory, ReadForRetry
  <2> DEFINE h == [op |-> op, row |-> r, snap |-> snap, prev |-> prev, stale |-> {}]
  <2>3. sess' = [sess EXCEPT ![s] = h] /\ ~Syncing(h) /\ h.op # "cancel"
    BY <2>2 DEF Hold, Syncing
  <2> HIDE DEF h
  <2> QED BY <1>4, <2>1, <2>3
<1>7. CASE ReadForRelease(s)
  <2> DEFINE h == [IdleSession EXCEPT !.op = "release", !.stale = StaleLocks({"expired", "stale"})]
  <2>1. /\ sess' = [sess EXCEPT ![s] = h] /\ ~Syncing(h) /\ ~Syncing(sess[s])
        /\ h.op # "cancel" /\ sess[s].op # "cancel" /\ UNCHANGED rows
    BY <1>7 DEF ReadForRelease, Syncing, IdleSession
  <2> HIDE DEF h
  <2> QED BY <1>4, <2>1
<1>8. CASE EnqueueTask(s)
  <2> DEFINE h == [sess[s] EXCEPT !.op = "mark"]
  <2>1. /\ sess' = [sess EXCEPT ![s] = h] /\ ~Syncing(sess[s]) /\ sess[s].op # "cancel"
        /\ UNCHANGED rows
    BY <1>1, <1>8 DEF EnqueueTask, Syncing, TypeOK
  <2>2. ~Syncing(h) /\ h.op # "cancel"
    BY <1>1 DEF Syncing, Handler
  <2> HIDE DEF h
  <2> QED BY <1>4, <2>1, <2>2
<1>9. CASE CommitTaskId(s)
  <2> DEFINE new == MarkQueued(sess[s].snap)
  <2>1. /\ new.status = sess[s].snap.status /\ sess[s].row \in Rows /\ ~Syncing(sess[s])
        /\ sess[s].op # "cancel"
    BY <1>1, <1>9, MarkFields DEF CommitTaskId, HandlerSnap, Syncing
  <2>2. Commit(s, new) /\ sess' = [sess EXCEPT ![s] = IdleSession]
    BY <1>9 DEF CommitTaskId, Answer
  <2> HIDE DEF new
  <2>3. \A r \in Rows : rows'[r].status = rows[r].status
    BY <1>3, <2>1, <2>2
  <2> QED BY <1>4, <1>5, <2>1, <2>2, <2>3
<1>10. CASE CommitRestore(s)
  <2> DEFINE new == [sess[s].snap EXCEPT !.next_retry_at = sess[s].prev]
             h == [op |-> "enqueue", row |-> sess[s].row, snap |-> new, prev |-> "none",
                   stale |-> {}]
  <2>1. /\ new.status = sess[s].snap.status /\ sess[s].row \in Rows /\ ~Syncing(sess[s])
        /\ sess[s].op # "cancel"
    BY <1>1, <1>10 DEF CommitRestore, Syncing, Row
  <2>2. Commit(s, new)
    BY <1>10 DEF CommitRestore
  <2>3. /\ ~Syncing(h) /\ h.op # "cancel"
        /\ sess' = [sess EXCEPT ![s] = h] \/ sess' = [sess EXCEPT ![s] = IdleSession]
    BY <1>10 DEF CommitRestore, Hold, Answer, Syncing
  <2> HIDE DEF new, h
  <2>4. \A r \in Rows : rows'[r].status = rows[r].status
    BY <1>3, <2>1, <2>2
  <2> QED BY <1>4, <1>5, <2>1, <2>3, <2>4
<1>11. CASE CommitRelease(s)
  <2>1. /\ sess[s].stale \in SUBSET Rows /\ ~Syncing(sess[s]) /\ sess[s].op # "cancel"
        /\ \A r \in sess[s].stale : rows[r].status = "sending" /\ ~Held(r)
    BY <1>1, <1>11 DEF CommitRelease, HandlerRow, Handler, Syncing
  <2>2. rows' = Released(sess[s].stale) /\ Answer(s) /\ sess' = [sess EXCEPT ![s] = IdleSession]
    BY <1>11 DEF CommitRelease, Answer
  <2>3. \A r \in Rows : (Calling(r)' <=> Calling(r)) /\ (Taken(r)' <=> Taken(r))
    BY <1>2, <1>5, <2>1, <2>2, HandlerSeen
  <2>4. \A r \in Rows : Closing(r)' = Closing(r)
    BY <1>1, <2>1, <2>2, AnswerCloses
  <2> QED BY <1>2, <2>1, <2>2, <2>3, <2>4, RowsReleased
<1>12. CASE RipenHeld(s)
  <2> DEFINE h == [sess[s] EXCEPT !.prev = "past"]
  <2>1. sess' = [sess EXCEPT ![s] = h] /\ UNCHANGED rows
    BY <1>1, <1>12 DEF RipenHeld, TypeOK
  <2>2. h.op = sess[s].op /\ h.row = sess[s].row
    BY <1>1 DEF Handler
  <2> HIDE DEF h
  <2>3. \A t \in Sessions : sess'[t].op = sess[t].op /\ sess'[t].row = sess[t].row
    BY <1>1, <2>1, <2>2 DEF TypeOK
  <2>4. \A r \in Rows : (Calling(r)' <=> Calling(r)) /\ (Taken(r)' <=> Taken(r))
    BY <1>2, <2>3 DEF Calling, Taken
  <2>5. \A r \in Rows : Closing(r)' = Closing(r)
    BY <2>3 DEF Closing
  <2>6. \A r \in Rows : SeenSame(r)
    BY <1>2, <2>1, <2>4, <2>5, SeenKept
  <2> QED BY <1>1, <1>2, <2>6, IdleMaps
<1> QED BY <1>6, <1>7, <1>8, <1>9, <1>10, <1>11, <1>12

-----------------------------------------------------------------------------
(* Every step, and the theorem.                                            *)

\* A row is unlocked with age, or due: nothing the contract speaks of.
LEMMA ClockMaps ==
  ASSUME Stepping, UNCHANGED <<wk, sess, delivered, faults>>,
         \A r \in Rows : rows'[r].status = rows[r].status
  PROVE  Stepped
<1>1. \A r \in Rows : (Calling(r)' <=> Calling(r)) /\ (Taken(r)' <=> Taken(r))
  BY DEF Calling, Taken
<1>2. \A r \in Rows : SeenSame(r)
  BY <1>1, SeenKept, RunCloses
<1> QED BY <1>2, SteppingTypes, IdleMaps

LEMMA ContractStep ==
  ASSUME LeasesOutliveRuns, DeliveryInv, AbsentUncounted, [Next]_vars
  PROVE  Stepped
<1>1. ExclusionInv' /\ TypeOK /\ TypeOK'
  BY ExclusionStep DEF DeliveryInv, ExclusionInv
<1>2. ASSUME NEW w \in Workers, NEW r \in Rows, NEW src \in {"task", "due"},
             AcquireLease(w, r, src)
      PROVE  Stepped
  BY <1>1, <1>2, RunStarted
<1>3. CASE \A w \in Workers, r \in Rows, src \in {"task", "due"} : ~AcquireLease(w, r, src)
  <2>1. Stepping
    BY <1>1, <1>3, CountsStep DEF Stepping
  <2>2. ASSUME NEW s \in Sessions, Request(s) \/ SessionStep(s) \/ SessionDies(s) \/ RipenHeld(s)
        PROVE  Stepped
    <3>1. CASE Request(s)
      BY <2>1, <3>1, Created, CancelRead, HandlerMaps DEF Request
    <3>2. CASE CommitCancel(s)
      <4>1. sess[s].op = "cancel" /\ Answer(s) /\ UNCHANGED <<wk, delivered>>
        BY <3>2 DEF CommitCancel
      <4> QED BY <2>1, <3>2, <4>1, CancelEnds
    <3>3. CASE SessionStep(s) /\ ~CommitCancel(s)
      BY <2>1, <3>3, SyncAcceptedMaps, SyncRefusedMaps, SyncSucceededMaps, RetryWritten,
         HandlerMaps DEF SessionStep
    <3> QED BY <2>1, <2>2, <3>1, <3>2, <3>3, SessionDiesMaps, HandlerMaps
  <2>3. ASSUME NEW w \in Workers, RunStep(w) \/ RunFault(w)
        PROVE  Stepped
    BY <1>3, <2>1, <2>3, RunMaps
  <2>4. ASSUME NEW r \in Rows, LeaseAges(r) \/ Ripen(r) \/ DeactivateBot(r)
        PROVE  Stepped
    <3>1. UNCHANGED <<wk, sess, delivered, faults>>
      BY <2>4 DEF LeaseAges, Ripen, DeactivateBot
    <3>2. \A q \in Rows : rows'[q].status = rows[q].status
      <4>1. CASE LeaseAges(r)
        <5> DEFINE age == Older[rows[r].lock_expires_at]
        <5>1. rows' = [rows EXCEPT ![r] = [rows[r] EXCEPT !.lock_expires_at = age]]
          BY <1>1, <4>1 DEF LeaseAges, TypeOK
        <5> HIDE DEF age
        <5> QED BY <1>1, <5>1 DEF TypeOK, Row
      <4>2. CASE Ripen(r)
        <5>1. rows' = [rows EXCEPT ![r] = [rows[r] EXCEPT !.next_retry_at = "past"]]
          BY <1>1, <4>2 DEF Ripen, TypeOK
        <5> QED BY <1>1, <5>1 DEF TypeOK, Row
      <4> QED BY <2>4, <4>1, <4>2 DEF DeactivateBot
    <3> QED BY <2>1, <3>1, <3>2, ClockMaps
  <2>5. CASE UNCHANGED vars
    <3>1. UNCHANGED <<rows, wk, sess, delivered, faults>>
      BY <2>5 DEF vars
    <3> QED BY <2>1, <3>1, ClockMaps
  <2> QED BY <2>2, <2>3, <2>4, <2>5 DEF Next
<1> QED BY <1>2, <1>3

(***************************************************************************)
(* For any number of rows, workers, requests and faults, in the            *)
(* environments where a row has one worker: leases, streams, clocks,       *)
(* crashes and rows written back from stale copies let a row do only what  *)
(* the contract of the queue allows.                                       *)
(***************************************************************************)
THEOREM QueueImplementsContract ==
  ASSUME LeasesOutliveRuns
  PROVE  Spec => ImplementsContract
<1>1. Init => Contract!ContractInit
  <2> SUFFICES ASSUME Init PROVE Contract!ContractInit
    OBVIOUS
  <2>1. \A r \in Rows : /\ Hand(r) = "free"
                        /\ Cardinality({s \in Sessions :
                                         sess[s].op = "cancel" /\ sess[s].row = r}) = 0
    <3> SUFFICES ASSUME NEW r \in Rows
                 PROVE  /\ Hand(r) = "free"
                        /\ Cardinality({s \in Sessions :
                                         sess[s].op = "cancel" /\ sess[s].row = r}) = 0
      BY DEF Init
    <3>1. Hand(r) = "free"
      BY DEF Init, Hand, IdleWorker, IdleSession
    <3>2. {s \in Sessions : sess[s].op = "cancel" /\ sess[s].row = r} = {}
      BY DEF Init, IdleSession
    <3> QED BY <3>1, <3>2, FS_EmptySet
  <2>2. \A r \in Rows : rows[r].status = "absent" /\ rows[r].attempt_count = 0
    BY DEF Init, AbsentRow
  <2>3. StatusSeen = [r \in Rows |-> "absent"] /\ HandSeen = [r \in Rows |-> "free"]
    BY <2>1, <2>2 DEF StatusSeen, HandSeen
  <2>4. StartedSeen = {} /\ ClosersSeen = [r \in Rows |-> 0]
    BY <2>1, <2>2 DEF StartedSeen, ClosersSeen
  <2>5. delivered = [r \in Rows |-> 0] /\ faults = 0
    BY DEF Init
  <2> QED BY <2>3, <2>4, <2>5
          DEF Contract!ContractInit, StatusSeen, HandSeen, StartedSeen, ClosersSeen
<1>2. DeliveryInv /\ AbsentUncounted /\ [Next]_vars =>
        [Contract!ContractNext]_Contract!contractVars
  <2>1. Stepped => [Contract!ContractNext]_Contract!contractVars
    BY DEF Stepped, Seen, Contract!contractVars, StatusSeen, HandSeen, StartedSeen, ClosersSeen
  <2> QED BY <2>1, ContractStep
<1>3. Init => TypeOK /\ NumberingInv
  BY InitSound DEF Init, NumberingInv, AttemptsDistinct, AbsentUncounted, NumbersGiven,
                   NumbersUnused, SuccessLogged, InFlight, IdleWorker, AbsentRow
<1>4. NumberingInv => AbsentUncounted
  BY DEF NumberingInv
<1> QED BY <1>1, <1>2, <1>3, <1>4, DeliveryHolds, TypeStep, NumberingStep, PTL
        DEF Spec, ImplementsContract, Contract!ContractSpec

-----------------------------------------------------------------------------
(* Ends.                                                                   *)

\* The contract takes no row up again that has ended.
LEMMA ContractLeavesEnds ==
  ASSUME TypeOK, Stepped, NEW r \in Rows, Over(r)
  PROVE  /\ Over(r)' /\ delivered'[r] = delivered[r]
         /\ rows[r].status = "cancelled" => rows'[r].status = "cancelled"
<1>1. /\ StatusSeen[r] = rows[r].status /\ StatusSeen'[r] = rows'[r].status
      /\ HandSeen[r] = Hand(r) /\ HandSeen'[r] = Hand(r)'
  BY DEF StatusSeen, HandSeen, Hand
<1>2. StatusSeen[r] \in {"succeeded", "cancelled"} /\ HandSeen[r] = "free"
  BY <1>1 DEF Over
<1>3. /\ StatusSeen'[r] \in {StatusSeen[r], "cancelled"} /\ HandSeen'[r] = "free"
      /\ delivered'[r] = delivered[r]
  <2>1. CASE UNCHANGED Seen
    BY <1>2, <2>1 DEF Seen
  <2>2. ASSUME NEW q \in Rows,
               \/ Contract!CreateQueued(q) \/ Contract!CreateSync(q) \/ Contract!SenderStep(q)
               \/ Contract!Retry(q)
        PROVE  /\ q # r
               /\ UNCHANGED StatusSeen \/ \E s : StatusSeen' = [StatusSeen EXCEPT ![q] = s]
               /\ UNCHANGED HandSeen \/ \E h : HandSeen' = [HandSeen EXCEPT ![q] = h]
               /\ UNCHANGED delivered \/ \E n : delivered' = [delivered EXCEPT ![q] = n]
    BY <1>2, <2>2 DEF Contract!CreateQueued, Contract!CreateSync, Contract!SenderStep,
         Contract!Start, Contract!Take, Contract!Refuse, Contract!Succeed, Contract!Drop,
         Contract!Retry, Contract!Becomes, Contract!Passes, Contract!Accepts, Contract!Waiting,
         Contract!Retryable, StatusSeen, HandSeen
  <2>3. ASSUME NEW q \in Rows,
               Contract!BeginCancel(q) \/ Contract!EndCancel(q) \/ Contract!AbandonCancel(q)
        PROVE  /\ UNCHANGED <<HandSeen, delivered>>
               /\ \/ UNCHANGED StatusSeen
                  \/ StatusSeen' = [StatusSeen EXCEPT ![q] = "cancelled"]
    BY <2>3 DEF Contract!BeginCancel, Contract!EndCancel, Contract!AbandonCancel,
         Contract!Becomes, StatusSeen, HandSeen
  <2>4. ASSUME NEW stale \in SUBSET Rows, Contract!Release(stale)
        PROVE  /\ r \notin stale /\ UNCHANGED <<HandSeen, delivered>>
               /\ StatusSeen' = [q \in Rows |-> IF q \in stale THEN "queued" ELSE StatusSeen[q]]
    BY <1>2, <2>4 DEF Contract!Release, StatusSeen, HandSeen
  <2>5. Contract!LapseElsewhere => UNCHANGED <<StatusSeen, HandSeen, delivered>>
    BY DEF Contract!LapseElsewhere, StatusSeen, HandSeen
  <2>6. DOMAIN StatusSeen = Rows /\ DOMAIN HandSeen = Rows /\ DOMAIN delivered = Rows
    BY DEF StatusSeen, HandSeen, TypeOK
  <2>7. CASE \E q \in Rows : \/ Contract!CreateQueued(q) \/ Contract!CreateSync(q)
                             \/ Contract!SenderStep(q) \/ Contract!Retry(q)
    BY <1>2, <2>2, <2>6, <2>7
  <2>8. CASE \E q \in Rows : Contract!BeginCancel(q) \/ Contract!EndCancel(q)
                             \/ Contract!AbandonCancel(q)
    BY <1>2, <2>3, <2>6, <2>8
  <2>9. CASE \E stale \in SUBSET Rows : Contract!Release(stale)
    BY <1>2, <2>4, <2>9
  <2> QED BY <1>2, <2>1, <2>5, <2>7, <2>8, <2>9 DEF Stepped, Contract!ContractNext
<1> QED BY <1>1, <1>2, <1>3 DEF Over

(***************************************************************************)
(* For any number of rows, workers, requests and faults, in the same       *)
(* environments: a row that succeeded or was cancelled and that nobody has *)
(* in hand is never sent again, whoever still holds an old copy of it.     *)
(* The contract starts only waiting rows and retries only refused ones.    *)
(***************************************************************************)
THEOREM EndedRowsStay ==
  ASSUME LeasesOutliveRuns
  PROVE  Spec => EndsAreFinal
<1>1. DeliveryInv /\ AbsentUncounted /\ [Next]_vars =>
        [\A r \in Rows :
           /\ rows[r].status = "succeeded" => rows'[r].status \in {"succeeded", "cancelled"}
           /\ Over(r) => /\ Over(r)' /\ delivered'[r] = delivered[r]
                         /\ rows[r].status = "cancelled" => rows'[r].status = "cancelled"]_vars
  <2> SUFFICES ASSUME DeliveryInv, AbsentUncounted, [Next]_vars, NEW r \in Rows
               PROVE  /\ rows[r].status = "succeeded" => rows'[r].status \in {"succeeded", "cancelled"}
                      /\ Over(r) => /\ Over(r)' /\ delivered'[r] = delivered[r]
                                    /\ rows[r].status = "cancelled" => rows'[r].status = "cancelled"
    OBVIOUS
  <2>1. rows[r].status = "succeeded" => rows'[r].status \in {"succeeded", "cancelled"}
    BY DeliveryStep DEF Accounted, Kept, Unsent, Sent, vars
  <2>2. TypeOK /\ Stepped
    BY ContractStep DEF DeliveryInv, ExclusionInv
  <2> QED BY <2>1, <2>2, ContractLeavesEnds
<1>2. Init => TypeOK /\ NumberingInv
  BY InitSound DEF Init, NumberingInv, AttemptsDistinct, AbsentUncounted, NumbersGiven,
                   NumbersUnused, SuccessLogged, InFlight, IdleWorker, AbsentRow
<1>3. NumberingInv => AbsentUncounted
  BY DEF NumberingInv
<1> QED BY <1>1, <1>2, <1>3, DeliveryHolds, TypeStep, NumberingStep, PTL DEF Spec, EndsAreFinal

=============================================================================
