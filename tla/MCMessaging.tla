---------------------------- MODULE MCMessaging ----------------------------
(* Small instances, for TLC, of what sends to Telegram and of what watches *)
(* it: the send queue, what it asks before a send, the polling bots and    *)
(* the event stream.                                                       *)
(*                                                                         *)
(* They keep their state apart: no step of one reads or writes the state   *)
(* of another.  They are explored side by side, and not in all their       *)
(* interleavings: part says whose steps a behaviour takes.                 *)
EXTENDS SendQueueProps, RateLimiter, RetryPolicy, Admission, UnitOfWork, Polling,
  EventStream

CONSTANT Parts

VARIABLE part

HomeOf == [u \in Units |-> IF u = 3 THEN "api" ELSE "worker"]
TwoBots == <<<<"message", "joined">>, <<"left">>>>
Lists == {{1, 2}, {1, 3}}

MessagingInit ==
  /\ part \in Parts
  /\ Init
  /\ LimiterInit /\ (part # "limiter" => limits = [b \in Buckets |-> 1])
  /\ PolicyInit /\ (part # "policy" => base = 1 /\ cap = 1 /\ budget = 1)
  /\ AdmissionInit
  /\ UnitInit
  /\ PollingInit
     /\ (part # "polling" => refusing = {} /\ diag.bot = 1 /\ ~disc[1].on /\ ~disc[2].on)
  /\ EventInit

MessagingNext ==
  /\ UNCHANGED part
  /\ IF part = "queue" THEN TRUE ELSE UNCHANGED vars
  /\ IF part = "limiter" THEN TRUE ELSE UNCHANGED limiterVars
  /\ IF part = "policy" THEN TRUE ELSE UNCHANGED policyVars
  /\ IF part = "admission" THEN TRUE ELSE UNCHANGED admissionVars
  /\ IF part = "unit" THEN TRUE ELSE UNCHANGED unitVars
  /\ IF part = "polling" THEN TRUE ELSE UNCHANGED pollingVars
  /\ IF part = "events" THEN TRUE ELSE UNCHANGED eventVars
  /\ \/ part = "queue" /\ Next
     \/ part = "limiter" /\ LimiterNext
     \/ part = "policy" /\ PolicyNext
     \/ part = "admission" /\ AdmissionNext
     \/ part = "unit" /\ UnitNext
     \/ part = "polling" /\ PollingNext
     \/ part = "events" /\ EventNext

messagingVars == <<part, vars, limiterVars, policyVars, admissionVars,
                   unitVars, pollingVars, eventVars>>
MessagingSpec == MessagingInit /\ [][MessagingNext]_messagingVars
-----------------------------------------------------------------------------
\* Type invariant of these services.
MessagingTypeOK ==
  /\ TypeOK /\ LimiterTypeOK /\ PolicyTypeOK /\ AdmissionTypeOK /\ UnitTypeOK
  /\ PollingTypeOK /\ EventTypeOK
=============================================================================
