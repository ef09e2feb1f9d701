------------------------------ MODULE Polling ------------------------------
(***************************************************************************)
(* The two polling bots: the diagnostic bot answers each message with a    *)
(* report, for one selected bot; the discovery bot records where the bots  *)
(* are added, removed or promoted, for every bot that is enabled, in       *)
(* rounds.  Telegram keeps the updates of a bot until a getUpdates asks    *)
(* for later ones.                                                         *)
(***************************************************************************)
EXTENDS Naturals, Sequences, FiniteSets

CONSTANTS
  PolledBots,  \* in the order of their discovery settings
  Updates,     \* bound: the updates of each bot, by id, in the order they come
  MaxDeaths,   \* bound: pollers that die
  MaxSwitches  \* bound: changes of the settings

PollKinds == {"message", "joined", "left"}

ASSUME PollingAssumption ==
  /\ PolledBots \subseteq Nat \ {0} /\ IsFiniteSet(PolledBots)
  /\ Updates \in [PolledBots -> Seq(PollKinds)]
  /\ MaxDeaths \in Nat /\ MaxSwitches \in Nat

VARIABLES
  issued, forgotten,  \* Telegram: the last update of each bot, the last one it has let go
  refusing,           \* bots whose token Telegram refuses
  diag, diagRun,      \* the settings of the diagnostic bot; its round
  recorded, replies,  \* diagnostic_updates; reports sent, by bot and update (an observer)
  disc, discRun,      \* the settings of discovery; its round
  found, member,      \* bot_discovery_events; is_active of the bot's destination
  pollers,            \* who has asked for the updates of each bot (an observer)
  deaths, switches

pollingVars == <<issued, forgotten, refusing, diag, diagRun, recorded, replies, disc, discRun,
                 found, member, pollers, deaths, switches>>

UpdateIds(b) == 1..Len(Updates[b])
AllUpdates == UNION {{b} \X UpdateIds(b) : b \in PolledBots}
Largest == CHOOSE n \in {Len(Updates[b]) : b \in PolledBots} :
             \A b \in PolledBots : Len(Updates[b]) <= n
Offsets == 0..Largest  \* last_update_id; 0 where it is not set

DiagRun == [at : {"idle", "ready", "record", "reply", "store"}, bot : PolledBots \cup {0},
            from : Offsets, batch : SUBSET (1..Largest)]
DiagIdle == [at |-> "idle", bot |-> 0, from |-> 0, batch |-> {}]
DiscRun == [todo : SUBSET PolledBots, from : [PolledBots -> Offsets], bot : PolledBots \cup {0},
            batch : SUBSET (1..Largest)]
DiscIdle == [todo |-> {}, from |-> [b \in PolledBots |-> 0], bot |-> 0, batch |-> {}]

PollingTypeOK ==
  /\ issued \in [PolledBots -> Offsets] /\ forgotten \in [PolledBots -> Offsets]
  /\ \A b \in PolledBots : forgotten[b] <= issued[b]
  /\ refusing \subseteq PolledBots
  /\ diag \in [bot : PolledBots, on : BOOLEAN, last : Offsets] /\ diagRun \in DiagRun
  /\ recorded \subseteq AllUpdates /\ replies \in [AllUpdates -> Nat]
  /\ disc \in [PolledBots -> [on : BOOLEAN, last : Offsets]] /\ discRun \in DiscRun
  /\ discRun.batch # {} => discRun.bot # 0
  /\ found \subseteq AllUpdates /\ member \in [PolledBots -> BOOLEAN]
  /\ pollers \in [PolledBots -> SUBSET {"diag", "disc"}]
  /\ deaths \in 0..MaxDeaths /\ switches \in 0..MaxSwitches

PollingInit ==
  /\ issued = [b \in PolledBots |-> 0] /\ forgotten = issued
  /\ refusing \in SUBSET PolledBots
  /\ \E b \in PolledBots : diag = [bot |-> b, on |-> TRUE, last |-> 0]
  /\ diagRun = DiagIdle /\ recorded = {} /\ replies = [u \in AllUpdates |-> 0]
  /\ disc \in [PolledBots -> [on : BOOLEAN, last : {0}]]
  /\ discRun = DiscIdle /\ found = {} /\ member = [b \in PolledBots |-> FALSE]
  /\ pollers = [b \in PolledBots |-> {}] /\ deaths = 0 /\ switches = 0

-----------------------------------------------------------------------------
(* Telegram.                                                               *)

First(batch) == CHOOSE i \in batch : \A j \in batch : i <= j

NewUpdate(b) ==
  /\ issued[b] < Len(Updates[b])
  /\ issued' = [issued EXCEPT ![b] = @ + 1]
  /\ UNCHANGED <<forgotten, refusing, diag, diagRun, recorded, replies, disc, discRun,
                 found, member, pollers, deaths, switches>>

\* getUpdates after `from`: what came before is forgotten, of every kind, and what is there
\* is returned, of every kind that came before the bot was asked for some kinds only.
Fetched(b, from) == {i \in 1..issued[b] : i > from /\ i > forgotten[b]}
Forgets(b, from) ==
  forgotten' = [forgotten EXCEPT ![b] =
    IF from > @ THEN IF from < issued[b] THEN from ELSE issued[b] ELSE @]

-----------------------------------------------------------------------------
(* The diagnostic bot.                                                     *)

\* Mutant: the offset is one too far.
DiagReadsLate ==
  /\ diagRun.at = "idle" /\ diag.on
  /\ diagRun' = [DiagIdle EXCEPT !.at = "ready", !.bot = diag.bot, !.from = diag.last + 1]
  /\ UNCHANGED <<issued, forgotten, refusing, diag, recorded, replies, disc, discRun,
                 found, member, pollers, deaths, switches>>

\* _active_bot: the selected bot and the offset, whichever bot the offset is of.
DiagReads ==
  /\ diagRun.at = "idle" /\ diag.on
  /\ diagRun' = [DiagIdle EXCEPT !.at = "ready", !.bot = diag.bot, !.from = diag.last]
  /\ UNCHANGED <<issued, forgotten, refusing, diag, recorded, replies, disc, discRun,
                 found, member, pollers, deaths, switches>>

DiagNext(batch) ==
  diagRun' = IF batch = {} THEN DiagIdle ELSE [diagRun EXCEPT !.at = "record", !.batch = batch]

DiagFetches ==
  LET b == diagRun.bot
  IN /\ diagRun.at = "ready"
     /\ IF b \in refusing THEN diagRun' = DiagIdle /\ UNCHANGED forgotten
        ELSE DiagNext(Fetched(b, diagRun.from)) /\ Forgets(b, diagRun.from)
     /\ pollers' = [pollers EXCEPT ![b] = @ \cup {"diag"}]
     /\ UNCHANGED <<issued, refusing, diag, recorded, replies, disc, discRun,
                    found, member, deaths, switches>>

\* _store_update: an update id that is there already is not recorded again.
DiagRecords ==
  LET i == First(diagRun.batch)
  IN /\ diagRun.at = "record"
     /\ recorded' = IF \E u \in recorded : u[2] = i THEN recorded
                    ELSE recorded \cup {<<diagRun.bot, i>>}
     /\ diagRun' = [diagRun EXCEPT !.at = "reply"]
     /\ UNCHANGED <<issued, forgotten, refusing, diag, replies, disc, discRun,
                    found, member, pollers, deaths, switches>>

\* The report, in as many messages as it takes; a message that is refused ends it, and the
\* update counts as done all the same.
DiagReplies ==
  LET u == <<diagRun.bot, First(diagRun.batch)>>
  IN /\ diagRun.at = "reply"
     /\ replies' = IF Updates[u[1]][u[2]] = "message" THEN [replies EXCEPT ![u] = @ + 1] ELSE replies
     /\ diagRun' = [diagRun EXCEPT !.at = "store"]
     /\ UNCHANGED <<issued, forgotten, refusing, diag, recorded, disc, discRun,
                    found, member, pollers, deaths, switches>>

DiagStores ==
  /\ diagRun.at = "store"
  /\ diag' = [diag EXCEPT !.last = First(diagRun.batch)]
  /\ DiagNext(diagRun.batch \ {First(diagRun.batch)})
  /\ UNCHANGED <<issued, forgotten, refusing, recorded, replies, disc, discRun,
                 found, member, pollers, deaths, switches>>

\* Killed, or ended by an error that is not Telegram's; started again by its container.
DiagDies ==
  /\ diagRun.at # "idle" /\ deaths < MaxDeaths /\ deaths' = deaths + 1
  /\ diagRun' = DiagIdle
  /\ UNCHANGED <<issued, forgotten, refusing, diag, recorded, replies, disc, discRun,
                 found, member, pollers, switches>>

\* PATCH /diagnostics/bot: the offset stays.
SelectDiag(b, on) ==
  /\ switches < MaxSwitches /\ switches' = switches + 1
  /\ diag' = [diag EXCEPT !.bot = b, !.on = on]
  /\ UNCHANGED <<issued, forgotten, refusing, diagRun, recorded, replies, disc, discRun,
                 found, member, pollers, deaths>>

-----------------------------------------------------------------------------
(* The discovery bot.                                                      *)

\* _active_bots: the round's bots and all their offsets.
DiscBegins ==
  /\ discRun = DiscIdle /\ \E b \in PolledBots : disc[b].on
  /\ discRun' = [DiscIdle EXCEPT !.todo = {b \in PolledBots : disc[b].on},
                                 !.from = [b \in PolledBots |-> disc[b].last]]
  /\ UNCHANGED <<issued, forgotten, refusing, diag, diagRun, recorded, replies, disc,
                 found, member, pollers, deaths, switches>>

\* A round goes on with the batch it has, or with the bots it has left.
DiscNext(todo, batch) ==
  discRun' = IF batch # {} THEN [discRun EXCEPT !.todo = todo, !.batch = batch]
             ELSE IF todo = {} THEN DiscIdle ELSE [discRun EXCEPT !.todo = todo, !.bot = 0, !.batch = {}]

\* The next bot of the round; one that Telegram refuses ends the round for those behind it.
DiscFetches ==
  LET b == First(discRun.todo)
      batch == Fetched(b, discRun.from[b])
  IN /\ discRun.todo # {} /\ discRun.bot = 0
     /\ IF b \in refusing THEN discRun' = DiscIdle /\ UNCHANGED forgotten
        ELSE /\ Forgets(b, discRun.from[b])
             /\ discRun' = IF batch # {} THEN [discRun EXCEPT !.todo = @ \ {b}, !.bot = b, !.batch = batch]
                           ELSE IF discRun.todo = {b} THEN DiscIdle
                           ELSE [discRun EXCEPT !.todo = @ \ {b}]
     /\ pollers' = [pollers EXCEPT ![b] = @ \cup {"disc"}]
     /\ UNCHANGED <<issued, refusing, diag, diagRun, recorded, replies, disc,
                    found, member, deaths, switches>>

\* Mutant: an update without a membership ends the round.
DiscSkipsAll ==
  /\ discRun.batch # {} /\ Updates[discRun.bot][First(discRun.batch)] = "message"
  /\ discRun' = DiscIdle
  /\ UNCHANGED <<issued, forgotten, refusing, diag, diagRun, recorded, replies, disc,
                 found, member, pollers, deaths, switches>>

\* An update without a membership is passed over, and no progress is stored for it.
DiscSkips ==
  /\ discRun.batch # {} /\ Updates[discRun.bot][First(discRun.batch)] = "message"
  /\ DiscNext(discRun.todo, discRun.batch \ {First(discRun.batch)})
  /\ UNCHANGED <<issued, forgotten, refusing, diag, diagRun, recorded, replies, disc,
                 found, member, pollers, deaths, switches>>

\* Mutant: the status before the update is taken for the one after it.
DiscProcessesOld ==
  LET b == discRun.bot
      i == First(discRun.batch)
  IN /\ discRun.batch # {} /\ Updates[b][i] # "message"
     /\ member' = [member EXCEPT ![b] = Updates[b][i] = "left"]
     /\ found' = found \cup {<<b, i>>}
     /\ disc' = [disc EXCEPT ![b].last = i]
     /\ DiscNext(discRun.todo, discRun.batch \ {i})
     /\ UNCHANGED <<issued, forgotten, refusing, diag, diagRun, recorded, replies,
                    pollers, deaths, switches>>

\* Destination, event and progress in one transaction.
DiscProcesses ==
  LET b == discRun.bot
      i == First(discRun.batch)
  IN /\ discRun.batch # {} /\ Updates[b][i] # "message"
     /\ member' = [member EXCEPT ![b] = Updates[b][i] = "joined"]
     /\ found' = found \cup {<<b, i>>}
     /\ disc' = [disc EXCEPT ![b].last = i]
     /\ DiscNext(discRun.todo, discRun.batch \ {i})
     /\ UNCHANGED <<issued, forgotten, refusing, diag, diagRun, recorded, replies,
                    pollers, deaths, switches>>

DiscDies ==
  /\ discRun # DiscIdle /\ deaths < MaxDeaths /\ deaths' = deaths + 1
  /\ discRun' = DiscIdle
  /\ UNCHANGED <<issued, forgotten, refusing, diag, diagRun, recorded, replies, disc,
                 found, member, pollers, switches>>

\* PATCH /discovery/bots/{bot_id}
ToggleDiscovery(b) ==
  /\ switches < MaxSwitches /\ switches' = switches + 1
  /\ disc' = [disc EXCEPT ![b].on = ~@]
  /\ UNCHANGED <<issued, forgotten, refusing, diag, diagRun, recorded, replies, discRun,
                 found, member, pollers, deaths>>

-----------------------------------------------------------------------------

DiagRound == DiagReads \/ DiagFetches \/ DiagRecords \/ DiagReplies \/ DiagStores
DiscRound == DiscBegins \/ DiscFetches \/ DiscSkips \/ DiscProcesses

PollingNext ==
  \/ DiagRound \/ DiagDies
  \/ DiscRound \/ DiscDies
  \/ \E b \in PolledBots : NewUpdate(b) \/ ToggleDiscovery(b)
  \/ \E b \in PolledBots, on \in BOOLEAN : SelectDiag(b, on)

PollingSpec == PollingInit /\ [][PollingNext]_pollingVars

-----------------------------------------------------------------------------
(* Properties.                                                             *)

(***************************************************************************)
(* Telegram lets an update go only after the poller that asks for it has   *)
(* handled it, whenever that dies: a message is recorded and its report    *)
(* sent, a membership is in the events.  Excepted are bots that both       *)
(* pollers ask for, each of which lets go what is the other's, and         *)
(* messages once the selection has changed, where the offset and the ids   *)
(* of one bot are taken for another's.                                     *)
(***************************************************************************)
LetGoWhenHandled ==
  \A u \in AllUpdates : u[2] <= forgotten[u[1]] =>
    LET kind == Updates[u[1]][u[2]]
    IN /\ pollers[u[1]] = {"disc"} /\ kind # "message" => u \in found
       /\ pollers[u[1]] = {"diag"} /\ kind = "message" /\ switches = 0 =>
            replies[u] > 0 /\ u \in recorded

(***************************************************************************)
(* A message is answered with one report, and with another one only for    *)
(* each death between a report and its progress: the progress never goes   *)
(* back, whatever bot is selected meanwhile.                               *)
(***************************************************************************)
ReportsExplained == \A u \in AllUpdates : replies[u] <= 1 + deaths

(***************************************************************************)
(* The destination of a bot is active as its latest recorded membership    *)
(* says, and each membership is recorded in the order Telegram had them.   *)
(***************************************************************************)
DestinationFollowsMembership ==
  \A b \in PolledBots :
    LET ids == {u[2] : u \in {v \in found : v[1] = b}}
    IN ids # {} => /\ member[b] <=> Updates[b][CHOOSE i \in ids : \A j \in ids : j <= i] = "joined"
                   /\ disc[b].last \in ids /\ \A j \in ids : j <= disc[b].last

(***************************************************************************)
(* A membership is recorded in the end, however the poller dies: unless    *)
(* discovery of the bot is switched off, an earlier bot of the round is    *)
(* refused by Telegram and ends every round, or the diagnostic bot polls   *)
(* the same bot.                                                           *)
(***************************************************************************)
MembershipsAreFound ==
  \A b \in PolledBots : \A i \in UpdateIds(b) :
    (i <= issued[b] /\ Updates[b][i] # "message") ~>
      \/ <<b, i>> \in found
      \/ ~disc[b].on \/ "diag" \in pollers[b]
      \/ \E c \in refusing : c <= b /\ disc[c].on

\* What the two pollers owe each update (DiagnosticBot, MembershipDiscoveryBot): it is
\* handled before Telegram lets it go, and a message is reported again only for a death or
\* a change of bot in between.
UpdatesExplained ==
  /\ LetGoWhenHandled
  /\ ReportsExplained
=============================================================================
