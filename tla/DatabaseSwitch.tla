--------------------------- MODULE DatabaseSwitch ---------------------------
(* Runtime settings, and the switch from the bootstrap SQLite database to   *)
(* PostgreSQL: what the API runs with, what a worker's task resolves for    *)
(* itself, and the writes that are under way meanwhile.                     *)
(*                                                                          *)
(* One optional setting stands for all, with "env" for the environment's    *)
(* value.  Items stand for rows: those of kind "config" belong to the       *)
(* sections of a snapshot, those of kind "queue" (history, batches, runs,   *)
(* recommendations) to none.  Patches exclude each other, as they do by the *)
(* lock of the units of work while the database is SQLite.                  *)
EXTENDS Naturals, FiniteSets

CONSTANTS Writers, MaxItems, MaxSettingsPatches, MaxImports, MaxStarts

ASSUME DatabaseAssumption == MaxItems \in Nat

VARIABLES
  db,           \* both databases
  app,          \* the API process: its session factory, its settings
  patch,        \* the settings patch under way
  writer,       \* requests and tasks that hold a session factory and will write
  snapshotKept, \* a backup taken earlier
  items, patches, imports, starts,   \* counters, for the bounds
  late,         \* items committed to SQLite after the snapshot of a switch
  dropped,      \* items a restore replaced
  foreign,      \* a restore brought a database URL of another time
  cleared       \* a setting was cleared since the API started

databaseVars == <<db, app, patch, writer, snapshotKept, items, patches, imports, starts,
                  late, dropped, foreign, cleared>>

Urls == {"none", "sqlite", "pg"}
NoPatch == [at |-> "idle"]
NoWriter == [in |-> "none"]
Filed(kind) == [kind : {kind}, id : 1..MaxItems]

-----------------------------------------------------------------------------
\* Settings in layers, and the database they name.

Overlay(base, value) == IF value = "none" THEN base ELSE value

\* The bootstrap row's URL names the active database, whose own row must name no other.
Override == Overlay("sqlite", db["sqlite"].url)
Resolves == Override = "sqlite" \/ Overlay(Override, db["pg"].url) = Override

\* The active row lies over the bootstrap row, and that over the environment.
ResolvedOpt ==
  LET below == Overlay("env", db["sqlite"].opt) IN
    IF Override = "sqlite" THEN below ELSE Overlay(below, db["pg"].opt)

AppAfter(settings, row) ==
  [settings EXCEPT !.opt = Overlay(@, row.opt), !.url = Overlay(@, row.url)]

DatabaseInit ==
  /\ db = [d \in {"sqlite", "pg"} |->
             [rows |-> FALSE, url |-> "none", opt |-> "none", items |-> {}]]
  /\ app = [up |-> TRUE, db |-> "sqlite", url |-> "sqlite", opt |-> "env"]
  /\ patch = NoPatch /\ writer = [w \in Writers |-> NoWriter] /\ snapshotKept = {}
  /\ items = 0 /\ patches = 0 /\ imports = 0 /\ starts = 0
  /\ late = {} /\ dropped = {} /\ foreign = FALSE /\ cleared = FALSE

-----------------------------------------------------------------------------
\* PATCH /operations/settings.

Switches(url) == url \notin {"none", app.url}
SettingsRow(d, opt, url) ==
  [db[d] EXCEPT !.rows = TRUE, !.opt = IF opt = "same" THEN @ ELSE opt,
                !.url = IF url = "none" THEN @ ELSE url]

\* Without another URL the rows are committed and laid over the settings the API runs with.
PatchSettings(opt, url) ==
  LET row == SettingsRow(app.db, opt, url) IN
    /\ app.up /\ patch = NoPatch /\ ~Switches(url)
    /\ patches < MaxSettingsPatches /\ patches' = patches + 1
    /\ db' = [db EXCEPT ![app.db] = row]
    /\ app' = AppAfter(app, row)
    /\ cleared' = (cleared \/ opt = "none")
    /\ UNCHANGED <<patch, writer, snapshotKept, items, imports, starts, late, dropped, foreign>>

\* Only SQLite can be left, and only for PostgreSQL.  The snapshot is read in the patch's
\* own unit of work, which has written when the payload holds more than the URL or the
\* settings rows were missing.
SwitchBegins(opt) ==
  LET row == SettingsRow(app.db, opt, "none") IN
    /\ app.up /\ patch = NoPatch /\ app.url = "sqlite"
    /\ patches < MaxSettingsPatches /\ patches' = patches + 1
    /\ patch' = [at |-> "import", home |-> app.db, dirty |-> row # db[app.db] \/ opt # "same",
                 snapshot |-> [opt |-> row.opt,
                               items |-> {i \in row.items : i.kind = "config"}]]
    /\ UNCHANGED <<db, app, writer, snapshotKept, items, imports, starts, late, dropped,
                   foreign, cleared>>

\* Mutant: a target that has rows already is taken as imported.
ImportedOnce(held, snapshot) == IF held.items # {} THEN held.items ELSE snapshot.items

Imported(held, snapshot) == snapshot.items \cup {i \in held.items : i.kind # "config"}

\* The target's sections are replaced by the snapshot, its URL rewritten, and committed;
\* or the target fails, and with it the patch.  Where the target is the unit of work's own
\* database, rows it has written block the import.
SwitchImports ==
  /\ patch.at = "import"
  /\ \/ /\ ~(patch.dirty /\ patch.home = "pg")
        /\ db' = [db EXCEPT !["pg"] = [rows |-> TRUE, url |-> "pg", opt |-> patch.snapshot.opt,
                                       items |-> Imported(db["pg"], patch.snapshot)]]
        /\ patch' = [patch EXCEPT !.at = "override"]
        /\ dropped' = IF patch.home = "pg"
                      THEN dropped \cup (db["pg"].items \ Imported(db["pg"], patch.snapshot))
                      ELSE dropped
     \/ patch' = NoPatch /\ UNCHANGED <<db, dropped>>
  /\ UNCHANGED <<app, writer, snapshotKept, items, patches, imports, starts, late, foreign, cleared>>

\* The override is committed to the bootstrap database in a session of its own, which finds
\* that database locked when the patch's unit of work has written to it.
SwitchOverrides ==
  /\ patch.at = "override"
  /\ IF patch.dirty /\ patch.home = "sqlite" THEN patch' = NoPatch /\ UNCHANGED db
     ELSE /\ db' = [db EXCEPT !["sqlite"].url = "pg", !["sqlite"].rows = TRUE]
          /\ patch' = [patch EXCEPT !.at = "swap"]
  /\ UNCHANGED <<app, writer, snapshotKept, items, patches, imports, starts, late, dropped,
                 foreign, cleared>>

\* Mutant: the settings change and the sessions do not.
SwappedInName == AppAfter(app, db["pg"])
Swapped == [AppAfter(app, db["pg"]) EXCEPT !.db = "pg"]

SwitchSwaps ==
  /\ patch.at = "swap"
  /\ app' = Swapped /\ patch' = NoPatch
  /\ UNCHANGED <<db, writer, snapshotKept, items, patches, imports, starts, late, dropped,
                 foreign, cleared>>

-----------------------------------------------------------------------------
\* Backup and restore, as far as they carry settings.

\* The URL is a secret, and left out of a backup without secrets.
TakeSnapshot(secrets) ==
  /\ app.up /\ snapshotKept = {} /\ db[app.db].rows
  /\ snapshotKept' = {[opt |-> db[app.db].opt,
                       url |-> IF secrets THEN db[app.db].url ELSE "none",
                       items |-> {i \in db[app.db].items : i.kind = "config"}]}
  /\ UNCHANGED <<db, app, patch, writer, items, patches, imports, starts, late, dropped,
                 foreign, cleared>>

\* A restore replaces the sections in the API's database and lays the restored rows over
\* the settings it runs with; its sessions stay.
RestoreSnapshot(s) ==
  LET d == app.db
      restored == [db[d] EXCEPT !.opt = s.opt, !.url = s.url,
                                !.items = s.items \cup {i \in @ : i.kind # "config"}]
  IN /\ app.up /\ patch = NoPatch /\ imports < MaxImports /\ imports' = imports + 1
     /\ db' = [db EXCEPT ![d] = restored]
     /\ app' = AppAfter(app, restored)
     /\ dropped' = dropped \cup (db[d].items \ restored.items)
     /\ foreign' = (foreign \/ s.url \notin {"none", d})
     /\ cleared' = (cleared \/ s.opt = "none")
     /\ UNCHANGED <<patch, writer, snapshotKept, items, patches, starts, late>>

-----------------------------------------------------------------------------
\* Writers: requests of the API, and the worker's tasks, which resolve for themselves.

WriterOpens(w, d) ==
  /\ writer[w] = NoWriter /\ items < MaxItems
  /\ \/ app.up /\ d = app.db
     \/ Resolves /\ d = Override
  /\ writer' = [writer EXCEPT ![w] = [in |-> d]]
  /\ UNCHANGED <<db, app, patch, snapshotKept, items, patches, imports, starts, late, dropped,
                 foreign, cleared>>

\* A unit of work on SQLite waits for the patch's to end; a plain session only while the
\* patch has rows written.  Either then commits where it was to.
WriterCommits(w, kind, unit) ==
  LET d == writer[w].in
      item == [kind |-> kind, id |-> items + 1]
      held == patch # NoPatch /\ patch.home = d
  IN /\ d # "none" /\ items < MaxItems /\ items' = items + 1
     /\ ~(held /\ d = "sqlite" /\ (unit \/ patch.dirty))
     /\ db' = [db EXCEPT ![d].items = @ \cup {item}]
     /\ late' = IF patch # NoPatch \/ d # Override THEN late \cup {item} ELSE late
     /\ writer' = [writer EXCEPT ![w] = NoWriter]
     /\ UNCHANGED <<app, patch, snapshotKept, patches, imports, starts, dropped, foreign, cleared>>

-----------------------------------------------------------------------------
\* The API process.

ApiEnds ==
  /\ app.up /\ app' = [app EXCEPT !.up = FALSE]
  /\ patch' = NoPatch /\ writer' = [w \in Writers |-> NoWriter]
  /\ UNCHANGED <<db, snapshotKept, items, patches, imports, starts, late, dropped, foreign, cleared>>

ApiBegins ==
  /\ ~app.up /\ Resolves /\ starts < MaxStarts /\ starts' = starts + 1
  /\ app' = [up |-> TRUE, db |-> Override, url |-> Override, opt |-> ResolvedOpt]
  /\ cleared' = FALSE
  /\ UNCHANGED <<db, patch, writer, snapshotKept, items, patches, imports, late, dropped, foreign>>

DatabaseNext ==
  \/ \E opt \in {"same", "none", "a"}, url \in Urls : PatchSettings(opt, url)
  \/ \E opt \in {"same", "none", "a"} : SwitchBegins(opt)
  \/ SwitchImports \/ SwitchOverrides \/ SwitchSwaps
  \/ \E secrets \in BOOLEAN : TakeSnapshot(secrets)
  \/ \E s \in snapshotKept : RestoreSnapshot(s)
  \/ \E w \in Writers :
       \/ \E d \in {"sqlite", "pg"} : WriterOpens(w, d)
       \/ \E k \in {"config", "queue"}, unit \in BOOLEAN : WriterCommits(w, k, unit)
  \/ ApiEnds \/ ApiBegins

-----------------------------------------------------------------------------
\* Rows, settings and items are of the kinds the code writes, whatever layers lie over
\* each other.
DatabaseTypeOK ==
  /\ \A d \in DOMAIN db :
       /\ db[d].url \in Urls /\ db[d].opt \in {"none", "a"}
       /\ db[d].items \subseteq Filed("config") \cup Filed("queue")
  /\ app.db \in {"sqlite", "pg"} /\ app.url \in {"sqlite", "pg"} /\ app.opt \in {"env", "a"}
  /\ patch.at \in {"idle", "import", "override", "swap"}

\* Wherever a switch is cut off or repeated, a committed row is in the database the next
\* start takes, except: rows of no section, which a switch leaves in SQLite; rows committed
\* while a switch was under way or to a database it had left; and rows a restore replaced.
NothingLostUnexplained ==
  ~foreign =>
    \A i \in (db["sqlite"].items \cup db["pg"].items) \ (dropped \cup late) :
      i \in db[Override].items \/ (i.kind = "queue" /\ i \in db["sqlite"].items)

\* The API writes to the database that a worker's task and the next start resolve, and they
\* can resolve one, except between override and swap and after a restore of a backup that
\* names another database.
OneDatabase ==
  app.up /\ patch.at # "swap" /\ ~foreign => Resolves /\ app.db = Override

\* The API runs with the settings a worker's task resolves, except between override and swap
\* and after a setting was cleared, which reaches the API only when it starts again.
SettingsAgree ==
  app.up /\ patch.at # "swap" /\ ~foreign /\ ~cleared => app.opt = ResolvedOpt

DatabaseSpec == DatabaseInit /\ [][DatabaseNext]_databaseVars

\* The API and the worker's tasks use one database and the same settings: the worker reads
\* them anew for each task, the API changes them in place (apply_runtime_settings).
ProcessesAgree ==
  /\ OneDatabase
  /\ SettingsAgree
=============================================================================
