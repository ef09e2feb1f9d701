----------------------------- MODULE UnitOfWork -----------------------------
(***************************************************************************)
(* Units of work over one SQLite file: a lock in Redis that expires, a     *)
(* lock inside the process where Redis cannot be reached, and the          *)
(* transaction of the body between entering and leaving.                   *)
(***************************************************************************)
EXTENDS Naturals

CONSTANTS
  Units,        \* units of work that may be under way at once
  NoUnit,
  Processes,    \* API, worker, scheduler...
  Home,         \* the process of each unit
  LockTimeout,  \* sqlite_uow_lock_timeout_seconds
  LockWait,     \* sqlite_uow_lock_wait_seconds
  MaxOutages,   \* bound: changes of what a process can reach
  MaxMishaps    \* bound: bodies cancelled while they close, processes that die

ASSUME UnitAssumption ==
  /\ NoUnit \notin Units /\ Home \in [Units -> Processes]
  /\ LockTimeout \in Nat \ {0} /\ LockWait \in Nat \ {0}
  /\ MaxOutages \in Nat /\ MaxMishaps \in Nat

VARIABLES
  owner, left,   \* the Redis lock: who holds it and for how long
  localLock,     \* _PROCESS_LOCAL_SQLITE_LOCKS
  reach,         \* processes that reach Redis
  uow,           \* the units
  outages, mishaps

unitVars == <<owner, left, localLock, reach, uow, outages, mishaps>>

(* A unit: where it is, by which lock, for how long it has waited; whether its  *)
(* session has open writes and whether the body committed itself.  Observers:   *)
(* lapsed, its lock expired under the body; lost, the session was closed over   *)
(* writes that were neither committed nor rolled back.                          *)
Unit == [at : {"out", "waiting", "body", "closing"}, lock : {"redis", "local"}, waited : 0..LockWait,
         pending : BOOLEAN, completed : BOOLEAN, lapsed : BOOLEAN, lost : BOOLEAN]
Out == [at |-> "out", lock |-> "redis", waited |-> 0, pending |-> FALSE, completed |-> FALSE,
        lapsed |-> FALSE, lost |-> FALSE]

UnitTypeOK ==
  /\ owner \in Units \cup {NoUnit} /\ left \in 0..LockTimeout
  /\ owner = NoUnit <=> left = 0
  /\ localLock \in [Processes -> Units \cup {NoUnit}]
  /\ reach \subseteq Processes
  /\ uow \in [Units -> Unit]
  /\ outages \in 0..MaxOutages /\ mishaps \in 0..MaxMishaps

UnitInit ==
  /\ owner = NoUnit /\ left = 0
  /\ localLock = [p \in Processes |-> NoUnit]
  /\ reach = Processes
  /\ uow = [u \in Units |-> Out]
  /\ outages = 0 /\ mishaps = 0

-----------------------------------------------------------------------------

Inside(u) == uow[u].at \in {"body", "closing"}

Enter(u) ==
  /\ uow[u].at = "out"
  /\ uow' = [uow EXCEPT ![u] = [Out EXCEPT !.at = "waiting"]]
  /\ UNCHANGED <<owner, left, localLock, reach, outages, mishaps>>

AcquireRedis(u) ==
  /\ uow[u].at = "waiting" /\ uow[u].lock = "redis" /\ Home[u] \in reach
  /\ owner = NoUnit
  /\ owner' = u /\ left' = LockTimeout
  /\ uow' = [uow EXCEPT ![u].at = "body", ![u].waited = 0]
  /\ UNCHANGED <<localLock, reach, outages, mishaps>>

\* RedisConnectionError: wait for the lock of the process instead, from the start.
FallBack(u) ==
  /\ uow[u].at = "waiting" /\ uow[u].lock = "redis" /\ Home[u] \notin reach
  /\ uow' = [uow EXCEPT ![u].lock = "local", ![u].waited = 0]
  /\ UNCHANGED <<owner, left, localLock, reach, outages, mishaps>>

AcquireLocal(u) ==
  /\ uow[u].at = "waiting" /\ uow[u].lock = "local"
  /\ localLock[Home[u]] = NoUnit
  /\ localLock' = [localLock EXCEPT ![Home[u]] = u]
  /\ uow' = [uow EXCEPT ![u].at = "body", ![u].waited = 0]
  /\ UNCHANGED <<owner, left, reach, outages, mishaps>>

\* Mutant: only the wait for Redis has an end.
GiveUpRedis(u) ==
  /\ uow[u].at = "waiting" /\ uow[u].lock = "redis" /\ uow[u].waited = LockWait
  /\ uow' = [uow EXCEPT ![u] = Out]
  /\ UNCHANGED <<owner, left, localLock, reach, outages, mishaps>>
GiveUp(u) ==
  /\ uow[u].at = "waiting" /\ uow[u].waited = LockWait
  /\ uow' = [uow EXCEPT ![u] = Out]
  /\ UNCHANGED <<owner, left, localLock, reach, outages, mishaps>>

BodyWrites(u) ==
  /\ uow[u].at = "body"
  /\ uow' = [uow EXCEPT ![u].pending = TRUE]
  /\ UNCHANGED <<owner, left, localLock, reach, outages, mishaps>>

\* The body commits and may go on.
BodyCommits(u) ==
  /\ uow[u].at = "body"
  /\ uow' = [uow EXCEPT ![u].pending = FALSE, ![u].completed = TRUE]
  /\ UNCHANGED <<owner, left, localLock, reach, outages, mishaps>>

\* __aexit__ without an exception: a transaction still open is committed.
LeaveWell(u) ==
  /\ uow[u].at = "body"
  /\ uow' = [uow EXCEPT ![u].at = "closing", ![u].pending = FALSE, ![u].completed = FALSE]
  /\ UNCHANGED <<owner, left, localLock, reach, outages, mishaps>>

\* The body or the last commit raises: rollback.
LeaveRaising(u) ==
  /\ uow[u].at = "body"
  /\ uow' = [uow EXCEPT ![u].at = "closing", ![u].pending = FALSE, ![u].completed = FALSE]
  /\ UNCHANGED <<owner, left, localLock, reach, outages, mishaps>>

Closed(u) == [Out EXCEPT !.lost = uow[u].pending]

\* Mutant: the key is deleted, whoever holds it.
ReleaseAnyRedis(u) ==
  /\ uow[u].at = "closing" /\ uow[u].lock = "redis" /\ Home[u] \in reach
  /\ owner' = NoUnit /\ left' = 0
  /\ uow' = [uow EXCEPT ![u] = Closed(u)]
  /\ UNCHANGED <<localLock, reach, outages, mishaps>>

\* The lock is given back if it is still this unit's; otherwise release raises, with the
\* body's work committed.
ReleaseRedis(u) ==
  /\ uow[u].at = "closing" /\ uow[u].lock = "redis"
  /\ LET held == owner = u /\ Home[u] \in reach
     IN /\ owner' = IF held THEN NoUnit ELSE owner
        /\ left' = IF held THEN 0 ELSE left
        /\ uow' = [uow EXCEPT ![u] = Closed(u)]
  /\ UNCHANGED <<localLock, reach, outages, mishaps>>

ReleaseLocal(u) ==
  /\ uow[u].at = "closing" /\ uow[u].lock = "local"
  /\ localLock' = [localLock EXCEPT ![Home[u]] = NoUnit]
  /\ uow' = [uow EXCEPT ![u] = Closed(u)]
  /\ UNCHANGED <<owner, left, reach, outages, mishaps>>

\* session.close() is cancelled or raises: no lock is released.
CloseFails(u) ==
  /\ uow[u].at = "closing"
  /\ mishaps < MaxMishaps /\ mishaps' = mishaps + 1
  /\ uow' = [uow EXCEPT ![u] = Closed(u)]
  /\ UNCHANGED <<owner, left, localLock, reach, outages>>

\* A process dies with its units and its local lock; what it holds in Redis expires.
ProcessDies(p) ==
  /\ mishaps < MaxMishaps /\ mishaps' = mishaps + 1
  /\ uow' = [u \in Units |-> IF Home[u] = p THEN Out ELSE uow[u]]
  /\ localLock' = [localLock EXCEPT ![p] = NoUnit]
  /\ UNCHANGED <<owner, left, reach, outages>>

ReachChanges(p) ==
  /\ outages < MaxOutages /\ outages' = outages + 1
  /\ reach' = IF p \in reach THEN reach \ {p} ELSE reach \cup {p}
  /\ UNCHANGED <<owner, left, localLock, uow, mishaps>>

\* A second passes; nobody waits beyond the time allowed.
UnitClock ==
  /\ \A u \in Units : uow[u].at = "waiting" => uow[u].waited < LockWait
  /\ left' = IF left > 0 THEN left - 1 ELSE 0
  /\ owner' = IF left = 1 THEN NoUnit ELSE owner
  /\ uow' = [u \in Units |->
               CASE uow[u].at = "waiting" -> [uow[u] EXCEPT !.waited = @ + 1]
                 [] Inside(u) /\ owner = u /\ left = 1 -> [uow[u] EXCEPT !.lapsed = TRUE]
                 [] OTHER -> uow[u]]
  /\ UNCHANGED <<localLock, reach, outages, mishaps>>

UnitNext ==
  \/ \E u \in Units :
       \/ Enter(u) \/ AcquireRedis(u) \/ FallBack(u) \/ AcquireLocal(u) \/ GiveUp(u)
       \/ BodyWrites(u) \/ BodyCommits(u) \/ LeaveWell(u) \/ LeaveRaising(u)
       \/ ReleaseRedis(u) \/ ReleaseLocal(u) \/ CloseFails(u)
  \/ \E p \in Processes : ProcessDies(p) \/ ReachChanges(p)
  \/ UnitClock

UnitSpec == UnitInit /\ [][UnitNext]_unitVars

\* Deadlines are kept; bodies may take as long as they like.
UnitTimers == UnitClock \/ \E u \in Units : GiveUp(u)

-----------------------------------------------------------------------------
(* Properties.                                                             *)

(***************************************************************************)
(* Two units of work are inside together only when the lock of one has     *)
(* expired under its body, or when they hold different locks because one   *)
(* of their processes did not reach Redis.  In particular nobody ever      *)
(* takes away the lock of another, however late it leaves.                 *)
(***************************************************************************)
OneWriterWhileLocksLast ==
  \A u, v \in Units :
    u # v /\ Inside(u) /\ Inside(v) =>
      \/ uow[u].lapsed \/ uow[v].lapsed
      \/ uow[u].lock # uow[v].lock
      \/ uow[u].lock = "local" /\ Home[u] # Home[v]

(***************************************************************************)
(* However a body mixes writes with commits of its own, no session is      *)
(* closed over writes that nobody committed or rolled back.                *)
(***************************************************************************)
NoWritesDropped == \A u \in Units : ~uow[u].lost

(***************************************************************************)
(* Whoever waits for a lock gets it or an error, though its holder never   *)
(* leaves and a local lock was left behind by a failed close.              *)
(***************************************************************************)
WaitingEnds == \A u \in Units : (uow[u].at = "waiting") ~> (uow[u].at # "waiting")

\* What a unit of work promises (UnitOfWork.__aenter__, __aexit__): nobody else is inside
\* while its lock lasts, and what it wrote has been decided when it is closed.
UnitsOfWorkHold ==
  /\ OneWriterWhileLocksLast
  /\ NoWritesDropped
=============================================================================
