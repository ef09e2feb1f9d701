------------------------------ MODULE McpTools ------------------------------
(* MCP tools: the settings row that opens them, the gate each passes first, *)
(* and the tools that read, await and then write: the check of a            *)
(* destination, destinations made from diagnostic updates, and the bulk     *)
(* retry and cancel of history rows.  Tools open plain sessions, so nothing *)
(* keeps two calls, an endpoint or a worker apart.                          *)
(*                                                                          *)
(* A session writes the columns that differ from the row as it loaded it.   *)
EXTENDS Naturals, Sequences, FiniteSets

CONSTANTS McpCalls, Places, HistoryRows, MaxMcpCalls, MaxMcpEdits, MaxFailures

VARIABLES
  mcpRow,     \* the settings row, or its absence
  places,     \* destinations, each with a thread: absent, or their kind and whether they are on
  history,    \* status of each history row
  mcpCall,    \* the tools under way
  called, edited, failed,   \* counters, for the bounds
  acted,      \* tools that passed their gate
  opened,     \* somebody looked at the settings or patched them
  down,       \* destinations switched off, and not switched on since by anyone who saw them off
  retyped,    \* destinations the tool has checked
  requeued,   \* how often each history row was put back
  failures,   \* how often each failed
  overrun     \* history rows a retry was committed over, changed since it was loaded

mcpVars == <<mcpRow, places, history, mcpCall, called, edited, failed, acted, opened, down,
             retyped, requeued, failures, overrun>>

NoTool == [at |-> "free"]
NoSettings == [on |-> TRUE, tools |-> {}, stored |-> FALSE]
Missing == [kind |-> "none", active |-> FALSE]
ToolNames == {"list_destinations", "check_destination",
              "create_destination_from_diagnostic_update", "bulk_retry_sends", "bulk_cancel_sends"}
BootstrapTools == {"list_destinations"}
DefaultTools == ToolNames \ {"create_destination_from_diagnostic_update"}

McpInit ==
  /\ mcpRow = NoSettings
  /\ places = [d \in Places |-> [kind |-> "forum_topic", active |-> TRUE]]
  /\ history = [h \in HistoryRows |-> "failed"]
  /\ mcpCall = [c \in McpCalls |-> NoTool]
  /\ called = 0 /\ edited = 0 /\ failed = 0
  /\ acted = {} /\ opened = FALSE /\ down = {} /\ retyped = {}
  /\ requeued = [h \in HistoryRows |-> 0] /\ failures = [h \in HistoryRows |-> 1]
  /\ overrun = {}

-----------------------------------------------------------------------------
\* The settings.

Created(on, tools) == [on |-> on, tools |-> tools, stored |-> TRUE]

\* Reading the settings makes the row, with more tools than its absence opens.
SettingsShown ==
  /\ ~mcpRow.stored /\ mcpRow' = Created(TRUE, DefaultTools) /\ opened' = TRUE
  /\ UNCHANGED <<places, history, mcpCall, called, edited, failed, acted, down, retyped,
                 requeued, failures, overrun>>

\* A patch names what it changes; {"same"} keeps the tools.
SettingsPatched(on, tools) ==
  /\ edited < MaxMcpEdits /\ edited' = edited + 1
  /\ mcpRow' = Created(on, IF tools # {"same"} THEN tools
                           ELSE IF mcpRow.stored THEN mcpRow.tools ELSE DefaultTools)
  /\ opened' = TRUE
  /\ UNCHANGED <<places, history, mcpCall, called, failed, acted, down, retyped,
                 requeued, failures, overrun>>

EnabledTools == IF mcpRow.stored THEN mcpRow.tools ELSE BootstrapTools

-----------------------------------------------------------------------------
\* Tools.

McpEnds(c) == mcpCall' = [mcpCall EXCEPT ![c] = NoTool]
McpGoes(c, call) == mcpCall' = [mcpCall EXCEPT ![c] = call]

\* The gate reads the settings in a session of its own; the tool begins after it, whatever
\* becomes of the settings.  Lists do no more.
CallTool(c, tool, given) ==
  /\ mcpCall[c] = NoTool /\ called < MaxMcpCalls /\ called' = called + 1
  /\ IF mcpRow.on /\ tool \in EnabledTools
     THEN /\ acted' = acted \cup {tool}
          /\ IF tool \in BootstrapTools THEN UNCHANGED mcpCall
             ELSE McpGoes(c, [at |-> tool, given |-> given])
     ELSE UNCHANGED <<acted, mcpCall>>
  /\ UNCHANGED <<mcpRow, places, history, edited, failed, opened, down, retyped, requeued,
                 failures, overrun>>

\* The destination and its bot are read; then Telegram is asked for the chat.
CheckBegins(c) ==
  LET d == mcpCall[c].given IN
    /\ mcpCall[c].at = "check_destination"
    /\ IF places[d] = Missing THEN McpEnds(c)
       ELSE McpGoes(c, [at |-> "asked", given |-> d, loaded |-> places[d]])
    /\ UNCHANGED <<mcpRow, places, history, called, edited, failed, acted, opened, down,
                   retyped, requeued, failures, overrun>>

\* The chat's type becomes the kind, the thread forgotten, and the destination is active.
Written(held, loaded) ==
  [kind |-> IF loaded.kind = "group" THEN held.kind ELSE "group",
   active |-> IF loaded.active THEN held.active ELSE TRUE]

\* Telegram may refuse, and the row may be gone: the tool fails and nothing is written.
CheckWrites(c) ==
  LET call == mcpCall[c]
      d == call.given
  IN /\ call.at = "asked"
     /\ \/ /\ places[d] # Missing
           /\ places' = [places EXCEPT ![d] = Written(places[d], call.loaded)]
           /\ down' = IF call.loaded.active THEN down ELSE down \ {d}
           /\ retyped' = retyped \cup {d}
        \/ UNCHANGED <<places, down, retyped>>
     /\ McpEnds(c)
     /\ UNCHANGED <<mcpRow, history, called, edited, failed, acted, opened, requeued,
                    failures, overrun>>

\* The destination of an update with a thread is made or brought up to date, and active.
FromUpdate(c) ==
  LET d == mcpCall[c].given IN
    /\ mcpCall[c].at = "create_destination_from_diagnostic_update"
    /\ places' = [places EXCEPT ![d] = [kind |-> "forum_topic", active |-> TRUE]]
    /\ down' = down \ {d} /\ retyped' = retyped \ {d}
    /\ McpEnds(c)
    /\ UNCHANGED <<mcpRow, history, called, edited, failed, acted, opened, requeued,
                   failures, overrun>>

BulkRetryable == {"failed", "dead_letter", "blocked"}
BulkCancellable == {"created", "queued", "deferred"}

\* A bulk tool takes up the next row, or answers.  A row it may not change is skipped.
BulkLoads(c, from) ==
  LET call == mcpCall[c] IN
    /\ call.at = IF from = BulkRetryable THEN "bulk_retry_sends" ELSE "bulk_cancel_sends"
    /\ IF call.given = <<>> THEN McpEnds(c)
       ELSE LET h == Head(call.given) IN
         McpGoes(c, IF history[h] \notin from THEN [call EXCEPT !.given = Tail(@)]
                    ELSE [at |-> "loaded", tool |-> call.at, given |-> call.given,
                          loaded |-> history[h]])
    /\ UNCHANGED <<mcpRow, places, history, called, edited, failed, acted, opened, down,
                   retyped, requeued, failures, overrun>>

\* The row is committed as queued or cancelled, whatever it has become.
BulkCommits(c) ==
  LET call == mcpCall[c]
      h == Head(call.given)
      retry == call.tool = "bulk_retry_sends"
  IN /\ call.at = "loaded"
     /\ history' = [history EXCEPT ![h] = IF retry THEN "queued" ELSE "cancelled"]
     /\ requeued' = IF retry THEN [requeued EXCEPT ![h] = @ + 1] ELSE requeued
     /\ overrun' = IF history[h] # call.loaded THEN overrun \cup {h} ELSE overrun
     /\ McpGoes(c, [at |-> IF retry THEN "enqueue" ELSE call.tool, tool |-> call.tool,
                    given |-> IF retry THEN call.given ELSE Tail(call.given)])
     /\ UNCHANGED <<mcpRow, places, called, edited, failed, acted, opened, down, retyped, failures>>

\* Mutant: a broker that fails takes the row's turn again.
AfterEnqueueAgain(call) ==
  {[at |-> call.tool, given |-> Tail(call.given)],
   [at |-> "loaded", tool |-> call.tool, given |-> call.given, loaded |-> "queued"]}

\* The broker takes the task, or the whole call fails and the rows behind are left.
AfterEnqueue(call) == {[at |-> call.tool, given |-> Tail(call.given)], NoTool}

BulkEnqueues(c) ==
  /\ mcpCall[c].at = "enqueue"
  /\ \E after \in AfterEnqueue(mcpCall[c]) :
       McpGoes(c, after)
  /\ UNCHANGED <<mcpRow, places, history, called, edited, failed, acted, opened, down,
                 retyped, requeued, failures, overrun>>

-----------------------------------------------------------------------------
\* Endpoints and workers meanwhile.

PlaceSwitched(d, active) ==
  /\ edited < MaxMcpEdits /\ edited' = edited + 1
  /\ places[d] # Missing /\ places' = [places EXCEPT ![d].active = active]
  /\ down' = IF active THEN down \ {d} ELSE down \cup {d}
  /\ UNCHANGED <<mcpRow, history, mcpCall, called, failed, acted, opened, retyped, requeued,
                 failures, overrun>>

PlaceDeleted(d) ==
  /\ edited < MaxMcpEdits /\ edited' = edited + 1
  /\ places[d] # Missing /\ places' = [places EXCEPT ![d] = Missing]
  /\ down' = down \ {d} /\ retyped' = retyped \ {d}
  /\ UNCHANGED <<mcpRow, history, mcpCall, called, failed, acted, opened, requeued, failures, overrun>>

\* A destination with a thread stays a topic.
CheckedKind(d) == [kind |-> "forum_topic", active |-> TRUE]

\* The endpoint's check holds the unit of work, which keeps the other endpoints away.
EndpointChecks(d) ==
  /\ edited < MaxMcpEdits /\ edited' = edited + 1
  /\ places[d] # Missing /\ places' = [places EXCEPT ![d] = CheckedKind(d)]
  /\ down' = down \ {d} /\ retyped' = retyped \ {d}
  /\ UNCHANGED <<mcpRow, history, mcpCall, called, failed, acted, opened, requeued, failures, overrun>>

WorkerTakes(h) ==
  /\ history[h] = "queued" /\ history' = [history EXCEPT ![h] = "sending"]
  /\ UNCHANGED <<mcpRow, places, mcpCall, called, edited, failed, acted, opened, down, retyped,
                 requeued, failures, overrun>>

WorkerSettles(h, status) ==
  /\ history[h] = "sending" /\ history' = [history EXCEPT ![h] = status]
  /\ IF status = "failed"
     THEN failed < MaxFailures /\ failed' = failed + 1
            /\ failures' = [failures EXCEPT ![h] = @ + 1]
     ELSE UNCHANGED <<failed, failures>>
  /\ UNCHANGED <<mcpRow, places, mcpCall, called, edited, acted, opened, down, retyped,
                 requeued, overrun>>

Bulks == {<<a, b>> : a, b \in HistoryRows}

McpNext ==
  \/ SettingsShown
  \/ \E on \in BOOLEAN, tools \in {{"same"}, ToolNames} : SettingsPatched(on, tools)
  \/ \E c \in McpCalls :
       \/ \E t \in {"bulk_retry_sends", "bulk_cancel_sends"}, ids \in Bulks : CallTool(c, t, ids)
       \/ \E t \in ToolNames \ {"bulk_retry_sends", "bulk_cancel_sends"}, d \in Places :
            CallTool(c, t, d)
       \/ CheckBegins(c) \/ CheckWrites(c) \/ FromUpdate(c)
       \/ BulkLoads(c, BulkRetryable) \/ BulkLoads(c, BulkCancellable) \/ BulkCommits(c) \/ BulkEnqueues(c)
  \/ \E d \in Places : PlaceDeleted(d) \/ EndpointChecks(d) \/ \E a \in BOOLEAN : PlaceSwitched(d, a)
  \/ \E h \in HistoryRows :
       WorkerTakes(h) \/ \E s \in {"failed", "success"} : WorkerSettles(h, s)

-----------------------------------------------------------------------------
\* The settings name tools that exist, and a row is never open without being stored.
McpTypeOK ==
  /\ mcpRow.tools \subseteq ToolNames /\ (mcpRow.stored \/ mcpRow = NoSettings)
  /\ \A d \in Places : places[d] = Missing
                       \/ places[d] \in [kind : {"forum_topic", "group"}, active : BOOLEAN]
  /\ \A h \in HistoryRows :
       history[h] \in {"failed", "queued", "sending", "success", "cancelled"}

\* Until somebody looks at the settings or patches them, only the tools that read have acted.
OnlyReadsBeforeSettings == ~opened => acted \subseteq BootstrapTools

\* A destination switched off while a check of it is under way stays off: the check, having
\* loaded it as active, has nothing of that column to write.
SwitchedOffStaysOff == \A d \in down : ~places[d].active

\* A destination with a thread is a forum topic, except after the tool's check, which takes
\* the chat's type where the endpoint's keeps the topic.
TopicsStayTopics ==
  \A d \in Places : places[d] = Missing \/ d \in retyped \/ places[d].kind = "forum_topic"

\* However calls fail half way, are repeated or overlap, a history row is put back once for
\* each time it failed, unless a retry was committed over a row changed since it was loaded.
RequeuedOncePerFailure ==
  \A h \in HistoryRows : h \in overrun \/ requeued[h] <= failures[h]

McpSpec == McpInit /\ [][McpNext]_mcpVars

\* What the tools that write may do (McpServer), with the endpoints, the worker and other
\* calls in between: nothing before the settings were opened, no destination switched on
\* behind an operator's back or turned from a topic into a group unnoticed, and no row put
\* back more often than it failed.
ToolsExplained ==
  /\ OnlyReadsBeforeSettings
  /\ SwitchedOffStaysOff
  /\ TopicsStayTopics
  /\ RequeuedOncePerFailure
=============================================================================
