------------------------------ MODULE Restore ------------------------------
(* Snapshots of the catalogue and their restore, over the tables of        *)
(* Catalog.                                                                *)
(*                                                                         *)
(* A restore previews, copies the tables, previews again, deletes and      *)
(* inserts the chosen sections and commits with the copy as a pre_restore  *)
(* run.  It holds the lock of its unit of work, as the endpoints do.  The  *)
(* sections left out hold rows that name no others.                        *)
EXTENDS Catalog

CONSTANTS
  SectionChoices,    \* sections a request may ask for
  MaxSaved    \* bound: snapshots, safety copies included

ASSUME RestoreAssumption == SectionChoices \subseteq SUBSET Sections

VARIABLES
  saved,      \* snapshots of the backup runs
  restoring   \* the restore under way

restoreVars == <<catalogVars, saved, restoring>>

NotRestoring == [at |-> "no"]

\* Templates bring their versions along.
Expanded(chosen) == chosen \cup (IF "templates" \in chosen THEN {"template_versions"} ELSE {})

\* Without secrets a bot has no token, which its table requires.
MissesFields(snap, secs) == "bots" \in secs /\ ~snap.secrets /\ DOMAIN snap.holds.bots # {}

BotsNamed(snap) == {snap.holds.destinations[d].bot : d \in DOMAIN snap.holds.destinations}

\* Mutant: bots are looked for only where the restore brings bots too.
MissesBotsOfOthers(snap, secs) ==
  /\ "destinations" \in secs /\ "bots" \in secs
  /\ ~(BotsNamed(snap) \subseteq DOMAIN snap.holds.bots)

MissesBots(snap, secs) ==
  /\ "destinations" \in secs
  /\ ~(BotsNamed(snap) \subseteq DOMAIN (IF "bots" \in secs THEN snap.holds.bots ELSE tables.bots))

BlockedRestore(snap, secs) == MissesFields(snap, secs) \/ MissesBots(snap, secs)

\* Which rows differ, by section and id.
Diff(old, new, secs) ==
  {c \in secs \X RowIds :
     LET before == old[c[1]]
         after == new[c[1]]
         in(t) == c[2] \in DOMAIN t IN
     in(before) # in(after) \/ (in(before) /\ in(after) /\ before[c[2]] # after[c[2]])}

Replaced(snap, secs) == [s \in Sections |-> IF s \in secs THEN snap.holds[s] ELSE tables[s]]

\* Mutant: a restore does not wait for the unit of work that holds the lock.
LockIgnored == TRUE

LockFree == restoring = NotRestoring

RestoreInit == CatalogInit /\ saved = <<>> /\ restoring = NotRestoring

\* The endpoints of the catalogue wait for the lock.
Edit == LockFree /\ CatalogNext /\ UNCHANGED <<saved, restoring>>

\* What the repository's host may answer; anything but a plain yes or no is unknown.
RepoAnswers == {"private", "public", "no repository", "no connection", "refused", "error", "not json", "no field"}
Privacy(answer) == IF answer \in {"private", "public"} THEN answer ELSE "unknown"

\* A backup run: secrets are in it when they are asked for or the repository is private.
Export(requested, answer) ==
  /\ LockFree /\ Len(saved) < MaxSaved
  /\ saved' = Append(saved, [holds |-> tables, status |-> "succeeded",
                             secrets |-> requested \/ Privacy(answer) = "private"])
  /\ UNCHANGED <<catalogVars, restoring>>

\* The preview and the safety copy.
RestoreReads(k, chosen) ==
  LET secs == Expanded(chosen) IN
  /\ LockFree /\ k \in DOMAIN saved /\ Len(saved) < MaxSaved
  /\ restoring' = [at |-> "copied", from |-> saved[k], secs |-> secs, copy |-> tables,
                   diff |-> Diff(tables, saved[k].holds, secs)]
  /\ UNCHANGED <<catalogVars, saved>>

\* The second preview looks at the tables again; a blocked restore is rolled back.
RestoreApplies ==
  LET snap == restoring.from
      secs == restoring.secs
      new == Replaced(snap, secs) IN
  /\ restoring.at = "copied" /\ ~BlockedRestore(snap, secs)
  /\ tables' = new
  /\ saved' = Append(saved, [holds |-> restoring.copy, secrets |-> TRUE, status |-> "pre_restore"])
  /\ restoring' = NotRestoring
  /\ strays' = {d \in DOMAIN new.destinations :
                  /\ new.destinations[d].bot \notin DOMAIN new.bots
                  /\ "destinations" \notin secs}
  /\ reusedIds' = IF {"destinations", "send_profiles"} \cap secs = {} THEN reusedIds ELSE RowIds
  /\ apart' = (apart \/ secs \cap {"templates", "template_versions"} = {"template_versions"})
  /\ UNCHANGED catalogCalls

RestoreRefused ==
  /\ restoring.at = "copied" /\ BlockedRestore(restoring.from, restoring.secs)
  /\ restoring' = NotRestoring
  /\ UNCHANGED <<catalogVars, saved>>

\* The process dies, or another error ends the unit of work: it is rolled back.
RestoreDies ==
  /\ restoring.at = "copied"
  /\ restoring' = NotRestoring
  /\ UNCHANGED <<catalogVars, saved>>

ApplyRestore == (\E k \in 1..MaxSaved, c \in SectionChoices : RestoreReads(k, c))
                \/ RestoreApplies \/ RestoreRefused \/ RestoreDies

RestoreNext == Edit \/ (\E requested \in BOOLEAN, answer \in RepoAnswers : Export(requested, answer)) \/ ApplyRestore

RestoreSpec == RestoreInit /\ [][RestoreNext]_restoreVars

(* Properties *)
\* A destination without a bot was created so or lost its bot to a restore of
\* the bots alone; a restore that brings destinations leaves none.
OrphansExplained ==
  \A d \in DOMAIN tables.destinations :
    tables.destinations[d].bot \in DOMAIN tables.bots \/ d \in strays

\* A restore that commits has kept what it replaced, and what it changed is
\* what its answer's diff says; nothing slips in between the copy and the commit.
RestoresCanBeUndone ==
  [][ Len(saved') > Len(saved) /\ saved'[Len(saved')].status = "pre_restore" =>
        /\ saved'[Len(saved')].holds = tables
        /\ Diff(tables, tables', Sections) = restoring.diff ]_restoreVars

\* What refers to what in the catalog, though foreign keys are not enforced and restores
\* replace sections one by one: a template is its newest version, a profile's bot and
\* destination belong together, and each row without its parent has its reason.
CatalogExplained ==
  /\ TemplateIsItsLatestVersion
  /\ ProfileRefsExplained
  /\ OrphansExplained
=============================================================================
