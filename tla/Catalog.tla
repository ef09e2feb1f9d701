------------------------------ MODULE Catalog ------------------------------
(* The tables behind the endpoints of bots, destinations, send profiles    *)
(* and message templates.                                                  *)
(*                                                                         *)
(* An endpoint works in one unit of work, whose lock keeps the others out  *)
(* (UnitOfWork), so it is one action; its errors change nothing.  SQLite   *)
(* is opened without foreign keys: a row that goes takes along only what   *)
(* the mapper cascades to, and the id of the last row is given out again.  *)
EXTENDS Integers, Sequences, FiniteSets, FiniteSetsExt, Functions

CONSTANTS
  ChatNames,  \* chats a destination may name
  Texts,      \* contents of templates
  Starts,     \* tables to begin with, which calls of the endpoints can make
  MaxRows,    \* bound: rows of a table; an endpoint that needs more is not called
  MaxCalls    \* bound: calls of the endpoints

ASSUME CatalogAssumption == MaxRows \in Nat \ {0} /\ MaxCalls \in Nat

VARIABLES
  tables,     \* section |-> rows by id
  catalogCalls, \* calls so far
  strays,     \* history: destinations left without a bot
  reusedIds,  \* history: destination ids a profile held while their row changed
  apart       \* history: versions were restored without their templates

catalogVars == <<tables, catalogCalls, strays, reusedIds, apart>>

RowIds == 1..MaxRows
NoId == 0
Sections == {"bots", "destinations", "templates", "template_versions", "send_profiles"}

VersionsOf(t, i) == {v \in DOMAIN t.template_versions : t.template_versions[v].of = i}
NumbersOf(t, i) == {t.template_versions[v].number : v \in VersionsOf(t, i)}
LatestNumber(t, i) == Max(NumbersOf(t, i) \cup {0})

IsLatestVersion(t, i) ==
  \E v \in VersionsOf(t, i) : /\ t.template_versions[v].number = LatestNumber(t, i)
                              /\ t.template_versions[v].text = t.templates[i]

NumberedRows(t) ==
  /\ DOMAIN t = Sections /\ \A s \in Sections : DOMAIN t[s] \subseteq RowIds
  /\ \A v \in DOMAIN t.template_versions : t.template_versions[v].number \in Nat

\* The rows have their columns.  No two destinations of a bot name one chat, and no two
\* versions of a template bear one number.
SoundDestinations(rows) ==
  /\ \A d \in DOMAIN rows : rows[d] \in [bot : RowIds, chat : ChatNames]
  /\ \A d, e \in DOMAIN rows : rows[d] = rows[e] => d = e

SoundProfiles(rows) == \A p \in DOMAIN rows : rows[p] \in [bot : RowIds, dest : RowIds \cup {NoId}]

SoundVersions(rows) ==
  /\ \A v \in DOMAIN rows : rows[v] \in [of : RowIds, number : Nat, text : Texts]
  /\ \A v, w \in DOMAIN rows : rows[v].of = rows[w].of /\ rows[v].number = rows[w].number => v = w

SoundRows(t) ==
  /\ SoundDestinations(t.destinations) /\ SoundProfiles(t.send_profiles)
  /\ SoundVersions(t.template_versions)
  /\ \A i \in DOMAIN t.templates : t.templates[i] \in Texts

\* Calls of the endpoints, with no id given out twice, leave these.
ASSUME StartsAssumption ==
  \A t \in Starts :
    /\ NumberedRows(t) /\ SoundRows(t)
    /\ \A i \in DOMAIN t.templates : IsLatestVersion(t, i)
    /\ \A d \in DOMAIN t.destinations : t.destinations[d].bot \in DOMAIN t.bots
    /\ \A p \in DOMAIN t.send_profiles :
         t.send_profiles[p].dest \in DOMAIN t.destinations =>
           t.destinations[t.send_profiles[p].dest].bot = t.send_profiles[p].bot

NewId(t) == Max(DOMAIN t \cup {NoId}) + 1
Room(s) == NewId(tables[s]) \in RowIds
With(t, i, row) == [j \in DOMAIN t \cup {i} |-> IF j = i THEN row ELSE t[j]]
Without(t, gone) == Restrict(t, DOMAIN t \ gone)

CatalogInit ==
  /\ tables \in Starts
  /\ catalogCalls = 0 /\ strays = {} /\ reusedIds = {} /\ apart = FALSE

Called == catalogCalls < MaxCalls /\ catalogCalls' = catalogCalls + 1
Put(s, rows) == tables' = [tables EXCEPT ![s] = rows]

(* bots *)
CreateBot ==
  /\ Called /\ Room("bots")
  /\ Put("bots", With(tables.bots, NewId(tables.bots), "bot"))
  /\ UNCHANGED <<strays, reusedIds, apart>>

\* The mapper deletes the destinations of a bot with it, nothing else.
DeleteBot(i) ==
  LET own == {d \in DOMAIN tables.destinations : tables.destinations[d].bot = i} IN
  /\ Called /\ i \in DOMAIN tables.bots
  /\ tables' = [tables EXCEPT !.bots = Without(@, {i}), !.destinations = Without(@, own)]
  /\ strays' = strays \ own
  /\ UNCHANGED <<reusedIds, apart>>

(* destinations: one for each bot and chat *)
SameTarget(b, c) == {d \in DOMAIN tables.destinations : tables.destinations[d] = [bot |-> b, chat |-> c]}
NamedByProfiles == {tables.send_profiles[p].dest : p \in DOMAIN tables.send_profiles}

\* The bot is not looked up.
CreateDestination(b, c) ==
  LET d == NewId(tables.destinations) IN
  /\ Called /\ Room("destinations") /\ SameTarget(b, c) = {}
  /\ Put("destinations", With(tables.destinations, d, [bot |-> b, chat |-> c]))
  /\ strays' = IF b \in DOMAIN tables.bots THEN strays ELSE strays \cup {d}
  /\ reusedIds' = reusedIds \cup ({d} \cap NamedByProfiles)
  /\ UNCHANGED apart

UpdateDestination(d, c) ==
  /\ Called /\ d \in DOMAIN tables.destinations
  /\ SameTarget(tables.destinations[d].bot, c) = {}
  /\ Put("destinations", [tables.destinations EXCEPT ![d].chat = c])
  /\ UNCHANGED <<strays, reusedIds, apart>>

DeleteDestination(d) ==
  /\ Called /\ d \in DOMAIN tables.destinations
  /\ Put("destinations", Without(tables.destinations, {d}))
  /\ strays' = strays \ {d}
  /\ UNCHANGED <<reusedIds, apart>>

(* send profiles *)
ValidRefs(b, d) ==
  /\ b \in DOMAIN tables.bots
  /\ d # NoId => d \in DOMAIN tables.destinations /\ tables.destinations[d].bot = b

CreateProfile(b, d) ==
  /\ Called /\ Room("send_profiles") /\ ValidRefs(b, d)
  /\ Put("send_profiles", With(tables.send_profiles, NewId(tables.send_profiles), [bot |-> b, dest |-> d]))
  /\ UNCHANGED <<strays, reusedIds, apart>>

\* What the request leaves out is taken from the row before the references are checked.
UpdateProfile(p, given) ==
  /\ Called /\ p \in DOMAIN tables.send_profiles
  /\ LET row == [f \in {"bot", "dest"} |-> IF f \in DOMAIN given THEN given[f] ELSE tables.send_profiles[p][f]] IN
     /\ ValidRefs(row.bot, row.dest)
     /\ Put("send_profiles", [tables.send_profiles EXCEPT ![p] = row])
  /\ UNCHANGED <<strays, reusedIds, apart>>


DeleteProfile(p) ==
  /\ Called /\ p \in DOMAIN tables.send_profiles
  /\ Put("send_profiles", Without(tables.send_profiles, {p}))
  /\ UNCHANGED <<strays, reusedIds, apart>>

(* templates and their versions *)

\* A write of a template ends with a version that repeats it.
WriteTemplate(i, text) ==
  /\ Room("template_versions")
  /\ tables' = [tables EXCEPT
       !.templates = With(@, i, text),
       !.template_versions = With(@, NewId(@),
          [of |-> i, number |-> LatestNumber(tables, i) + 1, text |-> text])]
  /\ UNCHANGED <<strays, reusedIds, apart>>

\* One tag: the constraint refuses a second template.
CreateTemplate(text) ==
  /\ Called /\ DOMAIN tables.templates = {}
  /\ WriteTemplate(NewId(tables.templates), text)

UpdateTemplate(i, text) ==
  /\ Called /\ i \in DOMAIN tables.templates
  /\ WriteTemplate(i, text)

RollbackTemplate(i, v) ==
  /\ Called /\ i \in DOMAIN tables.templates /\ v \in VersionsOf(tables, i)
  /\ WriteTemplate(i, tables.template_versions[v].text)


\* The versions stay, and the next template gets the id.
DeleteTemplate(i) ==
  /\ Called /\ i \in DOMAIN tables.templates
  /\ Put("templates", Without(tables.templates, {i}))
  /\ UNCHANGED <<strays, reusedIds, apart>>

BotCalls == CreateBot \/ \E i \in RowIds : DeleteBot(i)
DestinationCalls ==
  \E i \in RowIds : \/ DeleteDestination(i)
                    \/ \E c \in ChatNames : CreateDestination(i, c) \/ UpdateDestination(i, c)
ProfileCalls ==
  \E i \in RowIds :
    \/ DeleteProfile(i)
    \/ \E d \in RowIds \cup {NoId} :
         \/ CreateProfile(i, d)
         \/ \E p \in RowIds : \E given \in {[bot |-> i], [dest |-> d], [bot |-> i, dest |-> d]} :
              UpdateProfile(p, given)
TemplateCalls ==
  \/ \E text \in Texts : CreateTemplate(text) \/ \E i \in RowIds : UpdateTemplate(i, text)
  \/ \E i, v \in RowIds : RollbackTemplate(i, v)
  \/ \E i \in RowIds : DeleteTemplate(i)

CatalogNext == BotCalls \/ DestinationCalls \/ ProfileCalls \/ TemplateCalls

(* Properties *)
\* The rows keep their ids, their columns and what no two of them may share, whatever is
\* deleted, numbered anew or restored.
CatalogTypeOK == NumberedRows(tables) /\ SoundRows(tables)

\* The newest version of a template is the template, also when the template
\* took over the id, and with it the versions, of a deleted one, and after a
\* restore; only versions restored without their templates may differ.
TemplateIsItsLatestVersion ==
  apart \/ \A i \in DOMAIN tables.templates : IsLatestVersion(tables, i)

\* A profile names a destination of its own bot, unless the destination's id
\* was given to another row, or one of the two was restored, under the profile.
ProfileRefsExplained ==
  \A p \in DOMAIN tables.send_profiles :
    LET d == tables.send_profiles[p].dest IN
    d \in DOMAIN tables.destinations =>
      d \in reusedIds \/ tables.destinations[d].bot = tables.send_profiles[p].bot
=============================================================================
