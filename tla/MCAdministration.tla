------------------------- MODULE MCAdministration -------------------------
(* Small instances, for TLC, of what operators and agents use:             *)
(* recommendations, the catalog with its restores, backups, sign-in and    *)
(* tokens, analytics, the egress, the database switch and the MCP tools.   *)
(*                                                                         *)
(* They keep their state apart and are explored side by side: part says    *)
(* whose steps a behaviour takes.                                          *)
EXTENDS OpsRecommendations, Restore, Backups, AdminAuth, ApiAccess, AnalyticsRuns, Egress,
  DatabaseSwitch, McpTools

CONSTANT Parts

VARIABLE part

Renamed == <<[chat |-> "c1", title |-> "t1"], [chat |-> "c1", title |-> "t2"]>>
Filled == [bots |-> <<"bot", "bot">>, destinations |-> <<[bot |-> 1, chat |-> "c1"]>>,
           templates |-> <<"x">>, template_versions |-> <<[of |-> 1, number |-> 1, text |-> "x"]>>,
           send_profiles |-> <<[bot |-> 1, dest |-> 1]>>]
OnlyFilled == {Filled}
AllOrReading == {{}, {"read", "unheard_of"}}
OneOrAll == {{s} : s \in Sections} \cup {Sections}

AdministrationInit ==
  /\ part \in Parts
  /\ OpsInit
  /\ RestoreInit /\ (part # "restore" => tables = Filled)
  /\ BackupsInit /\ (part # "backups" => configuration = 1)
  /\ AdminInit
  /\ AccessInit
  /\ AnalyticsInit
  /\ EgressInit /\ (part # "egress" => control = "none")
  /\ DatabaseInit
  /\ McpInit

AdministrationNext ==
  /\ UNCHANGED part
  /\ IF part = "ops" THEN TRUE ELSE UNCHANGED opsVars
  /\ IF part = "restore" THEN TRUE ELSE UNCHANGED restoreVars
  /\ IF part = "backups" THEN TRUE ELSE UNCHANGED backupsVars
  /\ IF part = "admin" THEN TRUE ELSE UNCHANGED adminVars
  /\ IF part = "access" THEN TRUE ELSE UNCHANGED accessVars
  /\ IF part = "analytics" THEN TRUE ELSE UNCHANGED analyticsVars
  /\ IF part = "egress" THEN TRUE ELSE UNCHANGED egressVars
  /\ IF part = "database" THEN TRUE ELSE UNCHANGED databaseVars
  /\ IF part = "mcp" THEN TRUE ELSE UNCHANGED mcpVars
  /\ \/ part = "ops" /\ OpsNext
     \/ part = "restore" /\ RestoreNext
     \/ part = "backups" /\ BackupsNext
     \/ part = "admin" /\ AdminNext
     \/ part = "access" /\ AccessNext
     \/ part = "analytics" /\ AnalyticsNext
     \/ part = "egress" /\ EgressNext
     \/ part = "database" /\ DatabaseNext
     \/ part = "mcp" /\ McpNext

administrationVars == <<part, opsVars, restoreVars, backupsVars, adminVars, accessVars,
                        analyticsVars, egressVars, databaseVars, mcpVars>>
AdministrationSpec == AdministrationInit /\ [][AdministrationNext]_administrationVars
-----------------------------------------------------------------------------
\* Type invariant of these services.
AdministrationTypeOK ==
  /\ OpsTypeOK /\ CatalogTypeOK /\ BackupsTypeOK /\ AdminTypeOK /\ AccessTypeOK /\ AnalyticsTypeOK
  /\ EgressTypeOK /\ DatabaseTypeOK /\ McpTypeOK
=============================================================================
