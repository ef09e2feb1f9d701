----------------------------- MODULE EventStream -----------------------------
(***************************************************************************)
(* The API's event bus and its readers (infra/events.py, api/v1/events.py, *)
(* connectEvents of the dashboard).                                        *)
(*                                                                         *)
(* The bus of the API process is a list in its memory; an event's id is    *)
(* its place in the list, and a page that connects again tells the id of   *)
(* the last event it was shown.  The list ends with the process, the page  *)
(* and the id it remembers do not.  Worker tasks publish to a stream in    *)
(* Redis, from which nothing reads.                                        *)
(***************************************************************************)
EXTENDS Naturals, Sequences

CONSTANTS
  Pages,          \* dashboards in browsers
  MaxEvents,      \* bound on events published, by all processes
  MaxRestarts     \* bound on ends of the API process

ASSUME EventAssumption == MaxEvents \in Nat

VARIABLES
  published,      \* events published so far; an event is its number
  bus,            \* MemoryEventBus._records of the API process
  redisEvents,    \* the stream tg-bot-aggregator:events
  page,           \* the page's EventSource: the id it was shown last, what it was shown
  stream,         \* next_index of the page's generator in the API process
  restarts

eventVars == <<published, bus, redisEvents, page, stream, restarts>>

NoStream == [open |-> FALSE, next |-> 0, sent |-> FALSE]
NewSource == [lastEventId |-> 0, shown |-> <<>>, outlived |-> FALSE]

EventInit ==
  /\ published = 0 /\ bus = <<>> /\ redisEvents = <<>> /\ restarts = 0
  /\ page = [p \in Pages |-> NewSource]
  /\ stream = [p \in Pages |-> NoStream]

-----------------------------------------------------------------------------
\* Publishers: a handler of the API, a task of a worker.

Publish ==
  /\ published < MaxEvents /\ published' = published + 1
  /\ bus' = Append(bus, published')
  /\ UNCHANGED <<redisEvents, page, stream, restarts>>

WorkerPublishes ==
  /\ published < MaxEvents /\ published' = published + 1
  /\ redisEvents' = Append(redisEvents, published')
  /\ UNCHANGED <<bus, page, stream, restarts>>

-----------------------------------------------------------------------------
\* Readers.

\* Mutant: the id is taken for the index of the last event.
StartBehind(lastEventId) == IF lastEventId = 0 THEN 0 ELSE lastEventId - 1

\* The id of an event is the index of the one behind it.
StartAt(lastEventId) == lastEventId

\* GET /events, by a new EventSource or by one that connects again.
Connects(p) ==
  /\ ~stream[p].open
  /\ stream' = [stream EXCEPT ![p] = [open |-> TRUE, next |-> StartAt(page[p].lastEventId), sent |-> FALSE]]
  /\ UNCHANGED <<published, bus, redisEvents, page, restarts>>

\* The generator wakes up when the list is longer than its index.
Yields(p) ==
  /\ stream[p].open /\ ~stream[p].sent /\ Len(bus) > stream[p].next
  /\ stream' = [stream EXCEPT ![p].next = @ + 1, ![p].sent = TRUE]
  /\ UNCHANGED <<published, bus, redisEvents, page, restarts>>

\* The frame arrives: the page refreshes and remembers the id.
Shows(p) ==
  /\ stream[p].sent
  /\ page' = [page EXCEPT ![p].lastEventId = stream[p].next,
                          ![p].shown = Append(@, bus[stream[p].next])]
  /\ stream' = [stream EXCEPT ![p].sent = FALSE]
  /\ UNCHANGED <<published, bus, redisEvents, restarts>>

\* The connection breaks, with a frame under way or without.
Breaks(p) ==
  /\ stream[p].open
  /\ stream' = [stream EXCEPT ![p] = NoStream]
  /\ UNCHANGED <<published, bus, redisEvents, page, restarts>>

\* The page signs in again or is loaded again: a new EventSource remembers no id.
Reloads(p) ==
  /\ page[p] # NewSource
  /\ page' = [page EXCEPT ![p] = NewSource]
  /\ stream' = [stream EXCEPT ![p] = NoStream]
  /\ UNCHANGED <<published, bus, redisEvents, restarts>>

\* The list is lost; pages connect again by themselves and tell ids of the old list.
ApiRestarted ==
  /\ restarts < MaxRestarts /\ restarts' = restarts + 1
  /\ bus' = <<>>
  /\ stream' = [p \in Pages |-> NoStream]
  /\ page' = [p \in Pages |-> [page[p] EXCEPT !.outlived = page[p].lastEventId > 0]]
  /\ UNCHANGED <<published, redisEvents>>

EventNext ==
  \/ Publish \/ WorkerPublishes \/ ApiRestarted
  \/ \E p \in Pages : Connects(p) \/ Yields(p) \/ Shows(p) \/ Breaks(p) \/ Reloads(p)

EventSpec == EventInit /\ [][EventNext]_eventVars

-----------------------------------------------------------------------------
\* Type invariant of the lists and the readers.
EventTypeOK ==
  /\ bus \in Seq(1..MaxEvents) /\ redisEvents \in Seq(1..MaxEvents)
  /\ \A p \in Pages :
       /\ stream[p].sent => stream[p].open
       /\ page[p].lastEventId \in 0..MaxEvents /\ page[p].shown \in Seq(1..MaxEvents)

\* However often its connection breaks, an EventSource has been shown the events of the
\* API process from the first to the one whose id it remembers, each once and in order,
\* and is next sent the one behind it: except one that has outlived a process, whose id
\* counts the old list, so that the first events of the new one are passed over
\* (MemoryEventBus.stream).
NoEventPassedOver ==
  \A p \in Pages :
    ~page[p].outlived =>
      /\ page[p].shown = SubSeq(bus, 1, page[p].lastEventId)
      /\ stream[p].open =>
           stream[p].next = page[p].lastEventId + (IF stream[p].sent THEN 1 ELSE 0)
=============================================================================
