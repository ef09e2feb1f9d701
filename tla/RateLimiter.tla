---------------------------- MODULE RateLimiter ----------------------------
(***************************************************************************)
(* The send rate limiter: a counter with an expiry per bucket, in Redis    *)
(* or in memory.  A send lists its buckets (global, bot, chat,             *)
(* destination), in this order; one script checks them all and then counts *)
(* the send in each.                                                       *)
(*                                                                         *)
(* A bucket's window begins with its first send.  Time is what is left of  *)
(* it, so that the clock needs no bound.                                   *)
(***************************************************************************)
EXTENDS Integers, FiniteSets, FiniteSetsExt

CONSTANTS
  BucketCount,    \* buckets, numbered in the order a send lists them
  SendLists,      \* the sets of buckets that sends list
  Window,         \* window_seconds
  MaxLimit,       \* bound: the limits in the settings
  MaxLostExpiries \* bound: how often a key loses its expiry

Buckets == 1..BucketCount

ASSUME LimiterAssumption ==
  /\ BucketCount \in Nat /\ MaxLimit \in Nat /\ MaxLostExpiries \in Nat
  /\ SendLists \subseteq SUBSET Buckets
  /\ Window \in Nat \ {0}

VARIABLES
  limits,       \* the settings: sends a minute for each bucket
  used,         \* GET of a bucket's key, 0 without one
  ttl,          \* TTL of the key
  admitted,     \* per bucket and age, sends admitted in the last age + 1 seconds (an observer)
  lostExpiries

limiterVars == <<limits, used, ttl, admitted, lostExpiries>>

NoExpiry == -1
KeyAbsent == -2
Ages == 0..(Window - 1)

LimiterTypeOK ==
  /\ limits \in [Buckets -> 1..MaxLimit]
  /\ used \in [Buckets -> Nat]
  /\ ttl \in [Buckets -> {KeyAbsent, NoExpiry} \cup 1..Window]
  /\ admitted \in [Buckets -> [Ages -> Nat]]
  /\ lostExpiries \in 0..MaxLostExpiries

LimiterInit ==
  /\ limits \in [Buckets -> 1..MaxLimit]
  /\ used = [b \in Buckets |-> 0]
  /\ ttl = [b \in Buckets |-> KeyAbsent]
  /\ admitted = [b \in Buckets |-> [a \in Ages |-> 0]]
  /\ lostExpiries = 0

-----------------------------------------------------------------------------

\* Mutant: one send more.
FullBeyond(list) == {b \in list : used[b] > limits[b]}
Full(list) == {b \in list : used[b] >= limits[b]}

\* Mutant: a full bucket without an expiry stays as it is.
RefuseOnly(list) == Full(list) # {} /\ UNCHANGED limiterVars
\* The first full bucket refuses; if its key has no expiry it gets one.
Refuse(list) ==
  /\ Full(list) # {}
  /\ LET b == Min(Full(list)) IN
       ttl' = [ttl EXCEPT ![b] = IF @ < 0 THEN Window ELSE @]
  /\ UNCHANGED <<limits, used, admitted, lostExpiries>>

\* INCR in each bucket; EXPIRE where the key is new or has no expiry.
Admit(list) ==
  /\ Full(list) = {}
  /\ used' = [b \in Buckets |-> IF b \in list THEN used[b] + 1 ELSE used[b]]
  /\ ttl' = [b \in Buckets |-> IF b \in list /\ ttl[b] < 0 THEN Window ELSE ttl[b]]
  /\ admitted' = [b \in Buckets |->
                    IF b \in list THEN [a \in Ages |-> admitted[b][a] + 1] ELSE admitted[b]]
  /\ UNCHANGED <<limits, lostExpiries>>

CheckAndIncrement(list) == Refuse(list) \/ Admit(list)

\* A second passes; keys whose time is up are gone.
Second ==
  /\ used' = [b \in Buckets |-> IF ttl[b] = 1 THEN 0 ELSE used[b]]
  /\ ttl' = [b \in Buckets |-> IF ttl[b] = 1 THEN KeyAbsent
                               ELSE IF ttl[b] > 1 THEN ttl[b] - 1 ELSE ttl[b]]
  /\ admitted' = [b \in Buckets |->
                    [a \in Ages |-> IF a = 0 THEN 0 ELSE admitted[b][a - 1]]]
  /\ UNCHANGED <<limits, lostExpiries>>

\* A key without expiry, as a restored or hand-edited Redis has them.
LoseExpiry(b) ==
  /\ ttl[b] > 0
  /\ lostExpiries < MaxLostExpiries /\ lostExpiries' = lostExpiries + 1
  /\ ttl' = [ttl EXCEPT ![b] = NoExpiry]
  /\ UNCHANGED <<limits, used, admitted>>

LimiterNext ==
  \/ \E list \in SendLists : CheckAndIncrement(list)
  \/ Second
  \/ \E b \in Buckets : LoseExpiry(b)

\* A send that lists the bucket is asked for while the buckets before it have room.
SendReaches(b) ==
  \E list \in SendLists :
    b \in list /\ (\A c \in Full(list) : c >= b) /\ CheckAndIncrement(list)

LimiterSpec == LimiterInit /\ [][LimiterNext]_limiterVars

-----------------------------------------------------------------------------
(* Properties.                                                             *)

(***************************************************************************)
(* Windows begin with a send and not with the minute, so two of them meet  *)
(* in any minute: a bucket admits at most twice its limit in one, whoever  *)
(* asks and whatever expiry was lost.                                      *)
(***************************************************************************)
TwoWindowsAMinute == \A b \in Buckets : admitted[b][Window - 1] <= 2 * limits[b]

(***************************************************************************)
(* A refusal is free of charge: a bucket has counted exactly the sends     *)
(* that were admitted since its window began, though most sends are        *)
(* refused by another bucket of their list.                                *)
(***************************************************************************)
CountsOnlyAdmitted ==
  \A b \in Buckets :
    lostExpiries = 0 /\ ttl[b] > 0 => used[b] = admitted[b][Window - ttl[b]]

(***************************************************************************)
(* No bucket stays full for ever while sends keep reaching it, though its  *)
(* key has lost its expiry.  (They need not reach it: sends to others that *)
(* take the global bucket's place in each window hide a full bucket behind *)
(* it, and its key is repaired only by a refusal of its own.)              *)
(***************************************************************************)
FullBucketsReopen ==
  \A b \in Buckets : (used[b] = limits[b]) ~> (used[b] < limits[b])

\* What a bucket promises (check_and_increment_window of both stores): no minute sees more
\* than two windows' worth of sends, and no send is counted that was not let through.
LimitsHold ==
  /\ TwoWindowsAMinute
  /\ CountsOnlyAdmitted
=============================================================================
