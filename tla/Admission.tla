----------------------------- MODULE Admission -----------------------------
(***************************************************************************)
(* Requests to send, from the check of the bot's policy to the first       *)
(* answer: _queue_or_send with its three database accesses and its call.   *)
(* Other requests run between them.  What workers and operators do with a  *)
(* row afterwards is reduced to its status.                                *)
(*                                                                         *)
(* One bot and one minute: every row is as young as the policy counts.     *)
(* A key is unique over all bots, and the fingerprint that a repeated      *)
(* request must match covers the message and its chat only.                *)
(***************************************************************************)
EXTENDS Naturals, Sequences, FiniteSets

CONSTANTS
  Callers,      \* requests that may be under way at once
  Keys, NoKey,  \* idempotency keys
  Prints,       \* fingerprints of request payloads
  PolicyLimit,  \* rate_limit_per_minute
  MaxSends,     \* bound: rows created
  MaxRevivals,  \* bound: rows that come back into the policy's count
  MaxAborts     \* bound: requests that die

ASSUME AdmissionAssumption ==
  /\ NoKey \notin Keys /\ PolicyLimit \in Nat /\ MaxSends \in Nat
  /\ IsFiniteSet(Callers) /\ Callers # {}
  /\ MaxRevivals \in Nat /\ MaxAborts \in Nat

VARIABLES
  sent,      \* the send_history table, by id
  asking,    \* the requests
  told,      \* pairs of a request's print and the row it was answered with (an observer)
  calls,     \* calls made without a worker, by row (an observer)
  revived,   \* rows that came back into the policy's count (an observer)
  aborts

admissionVars == <<sent, asking, told, calls, revived, aborts>>

Ids == 1..MaxSends
Counted == {"created", "queued", "succeeded"}
SentRow == [key : Keys \cup {NoKey}, print : Prints, status : Counted \cup {"failed"}]
Quiet == [at |-> "idle", key |-> NoKey, print |-> NoKey, mode |-> "sync", row |-> 0]

AdmissionTypeOK ==
  /\ sent \in Seq(SentRow) /\ Len(sent) <= MaxSends
  /\ asking \in [Callers -> [at : {"idle", "lookup", "insert", "call", "taken", "refused"},
                             key : Keys \cup {NoKey}, print : Prints \cup {NoKey}, mode : {"sync", "queued"},
                             row : 0..MaxSends]]
  /\ \A c \in Callers : asking[c].at \in {"call", "taken", "refused"} => asking[c].row \in DOMAIN sent
  /\ told \subseteq Prints \X Ids
  /\ calls \in [Ids -> Nat]
  /\ revived \in 0..MaxRevivals /\ aborts \in 0..MaxAborts

AdmissionInit ==
  /\ sent = <<>>
  /\ asking = [c \in Callers |-> Quiet]
  /\ told = {} /\ calls = [i \in Ids |-> 0]
  /\ revived = 0 /\ aborts = 0

-----------------------------------------------------------------------------

Goes(c, at) == asking' = [asking EXCEPT ![c].at = at]
Ends(c) == asking' = [asking EXCEPT ![c] = Quiet]
Tells(c, i) == told' = IF asking[c].key = NoKey THEN told ELSE told \cup {<<asking[c].print, i>>}
WithKey(k) == {i \in DOMAIN sent : k # NoKey /\ sent[i].key = k}
CountForBot == Cardinality({i \in DOMAIN sent : sent[i].status \in Counted})

\* Bot, target, template and file are found, the payload is built and the bot's policy
\* allows one more.  Otherwise the request ends here and leaves nothing.  Nobody reads the
\* fingerprint of a request without a key: one stands for all.
BeginSend(c, key, print, mode) ==
  /\ key = NoKey => print = (CHOOSE p \in Prints : TRUE)
  /\ asking[c].at = "idle" /\ Len(sent) < MaxSends
  /\ CountForBot < PolicyLimit
  /\ asking' = [asking EXCEPT ![c] = [at |-> "lookup", key |-> key, print |-> print,
                                      mode |-> mode, row |-> 0]]
  /\ UNCHANGED <<sent, told, calls, revived, aborts>>

\* Mutant: the fingerprint is not compared.
FindExistingAnyPrint(c) ==
  /\ asking[c].at = "lookup"
  /\ IF WithKey(asking[c].key) = {} THEN Goes(c, "insert") /\ UNCHANGED told
     ELSE Ends(c) /\ (\E i \in WithKey(asking[c].key) : Tells(c, i))
  /\ UNCHANGED <<sent, calls, revived, aborts>>

\* _idempotent_existing: nothing, a conflict, or the row to answer with, unsent.
FindExisting(c) ==
  /\ asking[c].at = "lookup"
  /\ \/ WithKey(asking[c].key) = {} /\ Goes(c, "insert") /\ UNCHANGED told
     \/ \E i \in WithKey(asking[c].key) :
          /\ Ends(c)
          /\ IF sent[i].print = asking[c].print THEN Tells(c, i) ELSE UNCHANGED told
  /\ UNCHANGED <<sent, calls, revived, aborts>>

\* The row is inserted and committed; a key taken meanwhile fails the request.
InsertRow(c) ==
  /\ asking[c].at = "insert" /\ Len(sent) < MaxSends
  /\ IF WithKey(asking[c].key) # {}
       THEN Ends(c) /\ UNCHANGED <<sent, told>>
       ELSE LET a == asking[c]
                i == Len(sent) + 1
            IN /\ sent' = Append(sent, [key |-> a.key, print |-> a.print,
                                        status |-> IF a.mode = "queued" THEN "queued" ELSE "created"])
               /\ IF a.mode = "queued"
                    THEN Ends(c) /\ Tells(c, i)
                    ELSE asking' = [asking EXCEPT ![c].at = "call", ![c].row = i] /\ UNCHANGED told
  /\ UNCHANGED <<calls, revived, aborts>>

CallTelegram(c) ==
  /\ asking[c].at = "call"
  /\ calls' = [calls EXCEPT ![asking[c].row] = @ + 1]
  /\ Goes(c, "taken") \/ Goes(c, "refused")
  /\ UNCHANGED <<sent, told, revived, aborts>>

SaveAnswer(c) ==
  /\ asking[c].at \in {"taken", "refused"}
  /\ sent' = [sent EXCEPT ![asking[c].row].status =
                IF asking[c].at = "taken" THEN "succeeded" ELSE "failed"]
  /\ Tells(c, asking[c].row) /\ Ends(c)
  /\ UNCHANGED <<calls, revived, aborts>>

\* The client is gone, the process dies or a statement fails; nothing more is committed.
RequestDies(c) ==
  /\ asking[c].at # "idle" /\ aborts < MaxAborts /\ aborts' = aborts + 1
  /\ Ends(c)
  /\ UNCHANGED <<sent, told, calls, revived>>

\* A worker settles or defers a queued row or takes a deferred one; an operator cancels or
\* retries.  "queued" stands for sending too, "failed" for every status that is not counted.
RowMoves(i, to) ==
  /\ <<sent[i].status, to>> \in
       {<<"queued", "succeeded">>, <<"queued", "failed">>, <<"failed", "queued">>}
  /\ sent' = [sent EXCEPT ![i].status = to]
  /\ IF to = "queued" THEN revived < MaxRevivals /\ revived' = revived + 1 ELSE UNCHANGED revived
  /\ UNCHANGED <<asking, told, calls, aborts>>

AdmissionNext ==
  \/ \E c \in Callers :
       \/ \E key \in Keys \cup {NoKey}, print \in Prints, mode \in {"sync", "queued"} :
            BeginSend(c, key, print, mode)
       \/ FindExisting(c) \/ InsertRow(c) \/ CallTelegram(c) \/ SaveAnswer(c)
       \/ RequestDies(c)
  \/ \E i \in DOMAIN sent, to \in Counted \cup {"failed"} : RowMoves(i, to)

AdmissionSpec == AdmissionInit /\ [][AdmissionNext]_admissionVars

-----------------------------------------------------------------------------
(* Properties.                                                             *)

(***************************************************************************)
(* Requests that were given one row asked for one message, and all         *)
(* requests with a key that were given a row were given the same one,      *)
(* though two of them may have found no row and gone on to insert.         *)
(***************************************************************************)
AnswersAgree ==
  /\ \A t \in told : sent[t[2]].print = t[1]
  /\ \A i, j \in DOMAIN sent : i # j /\ sent[i].key # NoKey => sent[i].key # sent[j].key

(***************************************************************************)
(* A synchronous request calls Telegram at most once for a row, and never  *)
(* for the row of an earlier request with its key, whatever died.          *)
(***************************************************************************)
CalledOncePerRow == \A i \in Ids : calls[i] <= 1

(***************************************************************************)
(* The count is read before the row is written, so that requests under way *)
(* together may pass the limit together; and a row that was deferred or    *)
(* failed is out of the count until it comes back.  Nothing else exceeds   *)
(* the limit.                                                              *)
(***************************************************************************)
LimitExceededOnlyByRacers ==
  Cardinality({i \in DOMAIN sent : sent[i].status \in Counted}) <=
    PolicyLimit + Cardinality(Callers) + revived - 1

(***************************************************************************)
(* Nobody lists rows in created; only a request that died may leave one    *)
(* there, one each.                                                        *)
(***************************************************************************)
Abandoned ==
  {i \in DOMAIN sent : sent[i].status = "created" /\ \A c \in Callers : asking[c].row # i}
AbandonedRowsExplained == Cardinality(Abandoned) <= aborts

\* What the way of a request to its row promises (SendService._queue_or_send), though the
\* policy, the key and the row are looked at in steps other requests come between: one row
\* per key, one call per row, no more over the limit and no more left behind than there
\* were racers and deaths.
RequestsExplained ==
  /\ AnswersAgree
  /\ CalledOncePerRow
  /\ LimitExceededOnlyByRacers
  /\ AbandonedRowsExplained
=============================================================================
