---------------------------- MODULE MCProgress ----------------------------
(* Small instances, for TLC, of the services that owe progress: the send   *)
(* queue, the limiter, units of work and the polling bots.  As in          *)
(* MCMessaging, part says whose steps a behaviour takes.                   *)
EXTENDS SendQueueProps, RateLimiter, UnitOfWork, Polling

CONSTANT Parts

VARIABLE part

HomeOf == [u \in Units |-> "worker"]
TwoBots == <<<<"message", "joined">>, <<"left">>>>
Lists == {{1}, {1, 2}}

ProgressInit ==
  /\ part \in Parts
  /\ Init
  /\ LimiterInit /\ (part # "limiter" => limits = [b \in Buckets |-> 1])
  /\ UnitInit
  /\ PollingInit
     /\ (part # "polling" => refusing = {} /\ diag.bot = 1 /\ ~disc[1].on /\ ~disc[2].on)

ProgressNext ==
  /\ UNCHANGED part
  /\ IF part = "queue" THEN TRUE ELSE UNCHANGED vars
  /\ IF part = "limiter" THEN TRUE ELSE UNCHANGED limiterVars
  /\ IF part = "unit" THEN TRUE ELSE UNCHANGED unitVars
  /\ IF part = "polling" THEN TRUE ELSE UNCHANGED pollingVars
  /\ \/ part = "queue" /\ Next
     \/ part = "limiter" /\ LimiterNext
     \/ part = "unit" /\ UnitNext
     \/ part = "polling" /\ PollingNext

ProgressSpec ==
  ProgressInit /\ [][ProgressNext]_<<part, vars, limiterVars, unitVars, pollingVars>>

\* Fairness of one service counts while the behaviour is its own.
Fair(p, step) == part = p /\ step /\ UNCHANGED part

QueueFairness ==
  /\ \A s \in Sessions : WF_vars(Fair("queue", SessionStep(s))) /\ WF_vars(Fair("queue", RipenHeld(s)))
  /\ \A w \in Workers : WF_vars(Fair("queue", RunStep(w)))
  /\ \A r \in Rows : WF_vars(Fair("queue", LeaseAges(r))) /\ WF_vars(Fair("queue", Ripen(r)))

\* The clocks of the limiter and of the units of work, and the rounds of discovery.
ClockFairness ==
  /\ WF_<<limiterVars, unitVars, pollingVars>>(
       \/ Fair("limiter", Second) /\ UNCHANGED <<unitVars, pollingVars>>
       \/ Fair("unit", UnitTimers) /\ UNCHANGED <<limiterVars, pollingVars>>
       \/ Fair("polling", DiscRound) /\ UNCHANGED <<limiterVars, unitVars>>)
  /\ \A b \in Buckets : SF_limiterVars(Fair("limiter", SendReaches(b)))

FairProgressSpec == ProgressSpec /\ QueueFairness /\ ClockFairness
=============================================================================
