------------------------------- MODULE Egress -------------------------------
(* Telegram egress control: the settings row with the mode, the provider    *)
(* and the last observation of the tunnel, the profile files, the tunnel at *)
(* the control server, and the endpoints that configure, command and observe*)
(* it.  A command, the reading of the tunnel's status, and the two halves   *)
(* of storing the observation are steps with an await between them; every   *)
(* endpoint has a session of its own and nothing excludes two of them.      *)
(*                                                                          *)
(* Storing writes the columns whose value differs from the row as the       *)
(* session loaded it, which is how the ORM forms the UPDATE.                *)
EXTENDS Naturals, FiniteSets

CONSTANTS EgressCalls, Providers, MaxEgressCalls, MaxTunnelChanges, MaxPatches, MaxUploads

VARIABLES
  egress,       \* the settings row
  profiles,     \* the file of each provider: "none", "bad" or "good"
  tunnel,       \* status at the control server
  control,      \* "none": no URL; "deaf": a URL, and no HTTP client held by the app; "ready"
  egressCall,   \* the endpoints under way
  begun, changed, patched, uploaded,   \* counters, for the bounds
  crossed,      \* the last observation was stored over a row changed since it was loaded
  unseen,       \* the tunnel changed after what the row says of it was read
  odd           \* a patch named a provider without its mode, or the settings were set bare

egressVars == <<egress, profiles, tunnel, control, egressCall, begun, changed, patched,
                uploaded, crossed, unseen, odd>>

NoCall == [at |-> "free"]
Modes == {"direct"} \cup Providers
States == {"none", "not_applicable", "disconnected", "misconfigured", "connected", "degraded"}

EgressInit ==
  /\ egress = [mode |-> "direct", provider |-> "none", status |-> "none", since |-> FALSE]
  /\ profiles = [p \in Providers |-> "none"]
  /\ tunnel = "stopped" /\ control \in {"none", "deaf", "ready"}
  /\ egressCall = [c \in EgressCalls |-> NoCall]
  /\ begun = 0 /\ changed = 0 /\ patched = 0 /\ uploaded = 0
  /\ crossed = FALSE /\ unseen = FALSE /\ odd = FALSE

-----------------------------------------------------------------------------
\* Which provider answers, and what it finds.

\* Mutant: the provider defaults to the mode, the direct one too.
ResolvedByMode(mode, provider) == IF provider # "none" THEN provider ELSE mode

Resolved(mode, provider) ==
  IF provider # "none" THEN provider ELSE IF mode \in Providers THEN mode ELSE "none"

ProviderFor(mode, provider) ==
  IF mode = "direct" THEN "direct" ELSE Resolved(mode, provider)

ValidConfig(p) == profiles[p] = "good"

Heard == IF control = "ready" THEN {tunnel, "none"} ELSE {"none"}

\* What the status of the tunnel is called; heard is "none" when nobody answers.
\* Mutant: whatever is not stopped is connected.
TunnelStateTrusting(heard) == IF heard = "stopped" THEN "disconnected" ELSE "connected"

TunnelState(heard) ==
  CASE heard = "running" -> "connected"
    [] heard = "stopped" -> "disconnected"
    [] OTHER -> IF control = "none" THEN "disconnected" ELSE "degraded"

-----------------------------------------------------------------------------
\* Endpoints that answer at once.

PatchedProvider(mode, provider) == Resolved(mode, provider)

\* mode is "same" when the payload has none; a mode that is named must fit the provider.
PatchEgress(mode, provider) ==
  /\ patched < MaxPatches /\ patched' = patched + 1
  /\ mode # "same" => provider \in {"none", mode}
  /\ LET m == IF mode = "same" THEN egress.mode ELSE mode IN
       egress' = [egress EXCEPT !.mode = m, !.provider = PatchedProvider(m, provider)]
  /\ odd' = (mode = "same" /\ provider \notin {"none", egress.mode})
  /\ UNCHANGED <<profiles, tunnel, control, egressCall, begun, changed, uploaded, crossed, unseen>>

\* The runtime settings endpoint writes the two fields as they come.
SetEgress(mode, provider) ==
  /\ patched < MaxPatches /\ patched' = patched + 1
  /\ egress' = [egress EXCEPT !.mode = mode, !.provider = provider]
  /\ odd' = TRUE
  /\ UNCHANGED <<profiles, tunnel, control, egressCall, begun, changed, uploaded, crossed, unseen>>

\* The file is replaced as a whole, whatever it holds.
ConfigureEgress(p, quality) ==
  /\ uploaded < MaxUploads /\ uploaded' = uploaded + 1
  /\ profiles' = [profiles EXCEPT ![p] = quality]
  /\ UNCHANGED <<egress, tunnel, control, egressCall, begun, changed, patched, crossed, unseen, odd>>

\* A changed base URL replaces the app's Bot API client by one without an HTTP client, and
\* with it goes the control server.
BaseUrlChanges ==
  /\ control = "ready" /\ control' = "deaf"
  /\ UNCHANGED <<egress, profiles, tunnel, egressCall, begun, changed, patched, uploaded,
                 crossed, unseen, odd>>

-----------------------------------------------------------------------------
\* Check, connect, disconnect and restart.

CallEnds(c) == egressCall' = [egressCall EXCEPT ![c] = NoCall]
CallGoes(c, call) == egressCall' = [egressCall EXCEPT ![c] = call]

\* Connect and restart ask for a valid profile before any command.  Each kind begins with
\* its first command, or with the status when there is none to give.
BeginEgress(c, kind) ==
  LET p == ProviderFor(egress.mode, egress.provider)
      refused == kind \in {"connect", "restart"} /\ p # "direct" /\ ~ValidConfig(p)
  IN /\ egressCall[c] = NoCall /\ begun < MaxEgressCalls /\ begun' = begun + 1
     /\ IF refused THEN UNCHANGED egressCall
        ELSE CallGoes(c, [at |-> CASE kind = "check" \/ p = "direct" -> "observe"
                                   [] kind = "connect" -> "run"
                                   [] kind = "disconnect" -> "stop"
                                   [] kind = "restart" -> "stop_run",
                         provider |-> p])
     /\ UNCHANGED <<egress, profiles, tunnel, control, changed, patched, uploaded, crossed,
                    unseen, odd>>

\* What is held of the tunnel is old news once it changes.
Aged(held) == [c \in EgressCalls |->
  IF held[c].at \in {"load", "store"} THEN [held[c] EXCEPT !.fresh = FALSE] ELSE held[c]]

NextStep(at) == IF at = "stop_run" THEN "run" ELSE "observe"

\* The control server takes the command or not, and its answer may be lost; without an
\* answer the call ends in an error.  Without control the command is not even sent.
CommandTunnel(c) ==
  LET call == egressCall[c]
      wanted == IF call.at = "run" THEN "running" ELSE "stopped"
  IN /\ call.at \in {"run", "stop", "stop_run"}
     /\ \/ /\ control = "ready"
           /\ changed' = IF tunnel = wanted THEN changed ELSE changed + 1
           /\ changed' <= MaxTunnelChanges
           /\ tunnel' = wanted /\ unseen' = (unseen \/ tunnel # wanted)
           /\ LET held == IF tunnel = wanted THEN egressCall ELSE Aged(egressCall) IN
                \E after \in {NoCall, [call EXCEPT !.at = NextStep(call.at)]} :
                  egressCall' = [held EXCEPT ![c] = after]
        \/ CallEnds(c) /\ UNCHANGED <<tunnel, changed, unseen>>
     /\ UNCHANGED <<egress, profiles, control, begun, patched, uploaded, crossed, odd>>

\* The profile is looked at again; only then is the control server asked.
\* fresh says that the tunnel has not changed since.
ReadStatus(c) ==
  LET call == egressCall[c]
      holding(status, asked) == CallGoes(c, [at |-> "load", status |-> status, fresh |-> asked])
  IN /\ call.at = "observe"
     /\ \/ call.provider = "direct" /\ holding("not_applicable", TRUE)
        \/ call.provider \in Providers /\ ~ValidConfig(call.provider)
             /\ holding("misconfigured", TRUE)
        \/ /\ call.provider \in Providers /\ ValidConfig(call.provider)
           /\ \E heard \in Heard : holding(TunnelState(heard), TRUE)
     /\ UNCHANGED <<egress, profiles, tunnel, control, begun, changed, patched, uploaded,
                    crossed, unseen, odd>>

\* The row is loaded; what is to be written is decided from it.
LoadRow(c) ==
  LET call == egressCall[c]
  IN /\ call.at = "load"
     /\ CallGoes(c, [at |-> "store", status |-> call.status, fresh |-> call.fresh,
                    loaded |-> [status |-> egress.status, since |-> egress.since]])
     /\ UNCHANGED <<egress, profiles, tunnel, control, begun, changed, patched, uploaded,
                    crossed, unseen, odd>>

SinceAfter(status, before) == status = "connected"

\* The columns that differ from what was loaded.
StoreRow(c) ==
  LET call == egressCall[c]
      since == SinceAfter(call.status, call.loaded.since)
      writesStatus == call.status # call.loaded.status
      moved == egress.status # call.loaded.status \/ egress.since # call.loaded.since
  IN /\ call.at = "store"
     /\ egress' = [egress EXCEPT
          !.status = IF writesStatus THEN call.status ELSE @,
          !.since = IF since # call.loaded.since THEN since ELSE @]
     /\ crossed' = moved
     /\ unseen' = ~call.fresh
     /\ CallEnds(c)
     /\ UNCHANGED <<profiles, tunnel, control, begun, changed, patched, uploaded, odd>>

-----------------------------------------------------------------------------
\* The world.

TunnelTurns(status) ==
  /\ changed < MaxTunnelChanges /\ changed' = changed + 1
  /\ tunnel # status /\ tunnel' = status
  /\ unseen' = TRUE /\ egressCall' = Aged(egressCall)
  /\ UNCHANGED <<egress, profiles, control, begun, patched, uploaded, crossed, odd>>

ApiStops ==
  /\ \E c \in EgressCalls : egressCall[c] # NoCall
  /\ egressCall' = [c \in EgressCalls |-> NoCall]
  /\ UNCHANGED <<egress, profiles, tunnel, control, begun, changed, patched, uploaded, crossed,
                 unseen, odd>>

EgressNext ==
  \/ \E m \in Modes \cup {"same"}, p \in Providers \cup {"none"} : PatchEgress(m, p)
  \/ \E m \in Modes, p \in Providers \cup {"none"} : SetEgress(m, p)
  \/ \E p \in Providers, q \in {"bad", "good"} : ConfigureEgress(p, q)
  \/ BaseUrlChanges
  \/ \E c \in EgressCalls :
       \/ \E k \in {"check", "connect", "disconnect", "restart"} : BeginEgress(c, k)
       \/ CommandTunnel(c) \/ ReadStatus(c) \/ LoadRow(c) \/ StoreRow(c)
  \/ \E s \in {"stopped", "crashed"} : TunnelTurns(s)
  \/ ApiStops

\* The row, the files and the calls hold what the code can put there.
EgressTypeOK ==
  /\ egress \in [mode : Modes, provider : Providers \cup {"none"}, status : States,
                 since : BOOLEAN]
  /\ profiles \in [Providers -> {"none", "bad", "good"}]
  /\ tunnel \in {"running", "stopped", "crashed"}
  /\ \A c \in EgressCalls :
       egressCall[c].at \in {"free", "run", "stop", "stop_run", "observe", "load", "store"}

\* connected_at is set exactly while the recorded status is connected, except after two
\* observations were stored across each other: each writes only what differs from the row it
\* had loaded, and the columns of the two mix.
SinceGoesWithStatus == egress.since = (egress.status = "connected") \/ crossed

\* What the row says of the tunnel is what the tunnel is, unless the tunnel has changed since
\* the status was read: by itself, by a command whose call ended in an error or with the API,
\* or by another call whose observation this one overtook.  Without a control server the
\* tunnel is taken to be down.
RecordSpeaksOfTunnel ==
  unseen \/ crossed
  \/ /\ egress.status = "connected" => tunnel = "running"
     /\ egress.status = "disconnected" => (tunnel # "running" \/ control = "none")

\* The stored provider is none or the mode's own, whatever order patches come in, except after
\* a patch that names a provider alone or the runtime settings endpoint.
ProviderFitsMode == odd \/ egress.provider \in {"none", egress.mode}

EgressSpec == EgressInit /\ [][EgressNext]_egressVars

\* What the stored egress row may be taken for (TelegramEgressService), though commands,
\* observations and patches overlap: its time goes with its status, its status with the
\* tunnel and its provider with its mode, but for what is named.
EgressRowExplained ==
  /\ SinceGoesWithStatus
  /\ RecordSpeaksOfTunnel
  /\ ProviderFitsMode
=============================================================================
