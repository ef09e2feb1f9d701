------------------------- MODULE OpsRecommendations -------------------------
(***************************************************************************)
(* Recommendations to create or correct destinations, made by scans of the *)
(* updates the bots have recorded, and previewed, dismissed or applied by  *)
(* requests and by the runs of an automation rule.                         *)
(*                                                                         *)
(* A request reads first and writes later.  From its first write to its    *)
(* commit it holds the write lock of the database, so that its writes are  *)
(* one step; what it loaded while reading stays in its session and is not  *)
(* read again.  The log of action runs is only appended to and left out.   *)
(***************************************************************************)
EXTENDS Naturals, Sequences, FiniteSets, SequencesExt

CONSTANTS
  Chats, NoChat,
  Titles, NoTitle,
  Askers,       \* requests and rule runs that may be under way at once
  MaxDests,     \* bound: destination ids
  Feed,         \* bound: the updates that are recorded (a scan reads the newest 500)
  MaxRecs,      \* bound: recommendations
  MaxEdits      \* bound: changes of destinations and of the rule by operators, and statuses
                \* written over a later one

ASSUME OpsAssumption ==
  /\ Feed \in Seq([chat : Chats, title : Titles])
  /\ NoChat \notin Chats /\ NoTitle \notin Titles
  /\ {MaxDests, MaxRecs, MaxEdits} \subseteq Nat

VARIABLES
  seen,        \* recorded updates, oldest first
  dests,       \* the destinations, by id
  recs,        \* ops_recommendations, by id
  rule,        \* one ops_automation_rule
  asks,       \* the requests
  applies, overwrites,  \* by recommendation: changes made for it; statuses written over a
                        \* later one (observers)
  reused,      \* ids given to a second destination (an observer)
  raced,       \* the rule was written by a request that had read an older one (an observer)
  edits

opsVars == <<seen, dests, recs, rule, asks, applies, overwrites, reused, raced, edits>>

RecIds == 1..MaxRecs
DestIds == 1..MaxDests
Dest == [chat : Chats, title : Titles]
NoDest == [chat |-> NoChat, title |-> NoTitle]
Actionable == {"open", "previewed"}
Rec == [kind : {"create", "update"}, chat : Chats, title : Titles, dest : 0..MaxDests,
        status : Actionable \cup {"applied", "dismissed"}]
Rule == [auto : BOOLEAN, high : BOOLEAN, on : BOOLEAN]

NewRule == [auto |-> FALSE, high |-> FALSE, on |-> TRUE]
Settings == {"auto", "suggest", "high", "low"}

(* A request: what it does, the updates it saw, the recommendation and the rule  *)
(* as it read them, and for the run of a rule the candidates it has yet to apply. *)
OpsRequest == [op : {"none", "scan", "preview", "dismiss", "apply"} \cup Settings,
            saw : 0..Len(Feed), rec : 0..MaxRecs, read : Rec \cup {NoDest}, was : Rule,
            run : BOOLEAN, todo : SUBSET RecIds]
NoOpsRequest == [op |-> "none", saw |-> 0, rec |-> 0, read |-> NoDest, was |-> NewRule,
              run |-> FALSE, todo |-> {}]

OpsTypeOK ==
  /\ seen \in Seq([chat : Chats, title : Titles]) /\ IsPrefix(seen, Feed)
  /\ dests \in [DestIds -> Dest \cup {NoDest}]
  /\ recs \in Seq(Rec) /\ Len(recs) <= MaxRecs
  /\ rule \in Rule
  /\ asks \in [Askers -> OpsRequest]
  /\ \A a \in Askers : asks[a].rec \in {0} \cup DOMAIN recs
  /\ applies \in [RecIds -> Nat] /\ overwrites \in [RecIds -> Nat]
  /\ reused \subseteq DestIds /\ raced \in BOOLEAN /\ edits \in 0..MaxEdits

OpsInit ==
  /\ seen = <<>> /\ recs = <<>>
  /\ dests = [d \in DestIds |-> NoDest]
  /\ rule = NewRule
  /\ asks = [a \in Askers |-> NoOpsRequest]
  /\ applies = [i \in RecIds |-> 0] /\ overwrites = [i \in RecIds |-> 0]
  /\ reused = {} /\ raced = FALSE /\ edits = 0

-----------------------------------------------------------------------------
(* Destinations.                                                           *)

Present == {d \in DestIds : dests[d] # NoDest}
\* Mutant: the destination of the bot, whatever its chat.
DestOfBot(chat) == Present
DestOf(chat) == {d \in Present : dests[d].chat = chat}
\* The database gives the next id after the largest one in use.
NextDest == 1 + Max(Present \cup {0})

\* Destinations that a recommendation names, or named when a request under way read it.
Named == {recs[i].dest : i \in DOMAIN recs}
           \cup {asks[a].read.dest : a \in {b \in Askers : asks[b].read # NoDest}}

\* The chat has no destination yet.
Create(chat, title) ==
  /\ DestOf(chat) = {} /\ NextDest \in DestIds
  /\ dests' = [dests EXCEPT ![NextDest] = [chat |-> chat, title |-> title]]
  /\ reused' = reused \cup ({NextDest} \cap Named)

OperatorEdits ==
  /\ edits < MaxEdits /\ edits' = edits + 1
  /\ \/ \E d \in Present : dests' = [dests EXCEPT ![d] = NoDest] /\ UNCHANGED reused
     \/ \E c \in Chats, t \in Titles : Create(c, t)
  /\ UNCHANGED <<seen, recs, rule, asks, applies, overwrites, raced>>

\* A polling bot records an update of a chat under its title.
Observe ==
  /\ Len(seen) < Len(Feed)
  /\ seen' = Append(seen, Feed[Len(seen) + 1])
  /\ UNCHANGED <<dests, recs, rule, asks, applies, overwrites, reused, raced, edits>>

-----------------------------------------------------------------------------
(* Scans.                                                                  *)

Like(rows, new) ==
  {i \in DOMAIN rows : rows[i].status \in Actionable /\ rows[i].kind = new.kind
                                                     /\ rows[i].chat = new.chat}

\* _create_recommendation_once: an open one is brought up to date in place.
CreateOnce(rows, new) ==
  IF Like(rows, new) = {} THEN Append(rows, new)
  ELSE LET i == Max(Like(rows, new))
       IN [rows EXCEPT ![i] = [new EXCEPT !.status = rows[i].status]]

\* _recommend_destination_from_fact: nothing to do where the destination has that title.
Recommend(rows, u) ==
  LET there == DestOf(u.chat)
      d == IF there = {} THEN 0 ELSE CHOOSE x \in there : TRUE
      new == [kind |-> IF d = 0 THEN "create" ELSE "update", chat |-> u.chat, title |-> u.title,
              dest |-> d, status |-> "open"]
  IN IF d # 0 /\ dests[d].title = u.title THEN rows ELSE CreateOnce(rows, new)

\* One update after the other, each seeing what the ones before it made.
Scanned(rows, saw) ==
  LET after[n \in 0..saw] == IF n = 0 THEN rows ELSE Recommend(after[n - 1], seen[n])
  IN after[saw]

BeginScan(a) ==
  /\ asks[a].op = "none" /\ seen # <<>>
  /\ asks' = [asks EXCEPT ![a] = [NoOpsRequest EXCEPT !.op = "scan", !.saw = Len(seen)]]
  /\ UNCHANGED <<seen, dests, recs, rule, applies, overwrites, reused, raced, edits>>

\* The fact of each update is written before its recommendation is looked for: a second
\* scan waits for the first to commit and finds what it made.
FinishScan(a) ==
  /\ asks[a].op = "scan"
  /\ recs' = Scanned(recs, asks[a].saw)
  /\ Len(recs') <= MaxRecs
  /\ asks' = [asks EXCEPT ![a] = NoOpsRequest]
  /\ UNCHANGED <<seen, dests, rule, applies, overwrites, reused, raced, edits>>

-----------------------------------------------------------------------------
(* Preview, dismiss, apply.                                                *)

\* _get_actionable_recommendation, and the check of dismiss.
ReadRec(a, i, op) ==
  /\ asks[a].op = "none" /\ recs[i].status \in Actionable
  /\ asks' = [asks EXCEPT ![a] = [NoOpsRequest EXCEPT !.op = op, !.rec = i, !.read = recs[i]]]
  /\ UNCHANGED <<seen, dests, recs, rule, applies, overwrites, reused, raced, edits>>

\* mark_previewed and mark_dismissed write the status, whatever it has become since it was
\* read; a session writes no status it read as it is.
Mark(a, op, status) ==
  /\ asks[a].op = op
  /\ recs' = [recs EXCEPT ![asks[a].rec].status = status]
  /\ IF recs[asks[a].rec].status \in Actionable THEN UNCHANGED <<overwrites, edits>>
     ELSE /\ edits < MaxEdits /\ edits' = edits + 1
          /\ overwrites' = [overwrites EXCEPT ![asks[a].rec] = @ + 1]
  /\ asks' = [asks EXCEPT ![a] = NoOpsRequest]
  /\ UNCHANGED <<seen, dests, rule, applies, reused, raced>>
WritePreview(a) == Mark(a, "preview", "previewed")
WriteDismiss(a) == Mark(a, "dismiss", "dismissed")

\* A run goes on with its next candidate; a request is over.
Continues(a) ==
  asks' = [asks EXCEPT ![a] = IF @.run THEN [@ EXCEPT !.rec = 0, !.read = NoDest] ELSE NoOpsRequest]

\* _apply_destination_action, from the recommendation as it was read.
ChangesDestination(r) ==
  IF r.dest # 0
    THEN /\ r.dest \in Present /\ DestOf(r.chat) \subseteq {r.dest}
         /\ dests' = [dests EXCEPT ![r.dest] = [chat |-> r.chat, title |-> r.title]]
         /\ UNCHANGED reused
  ELSE IF DestOf(r.chat) = {} THEN Create(r.chat, r.title)
  ELSE dests' = [d \in DestIds |-> IF d \in DestOf(r.chat) THEN [dests[d] EXCEPT !.title = r.title]
                                   ELSE dests[d]] /\ UNCHANGED reused

\* Mutant: the claim does not look at the status.
ApplyUnclaimed(a) ==
  LET i == asks[a].rec
  IN /\ asks[a].op = "apply" /\ i # 0
     /\ ChangesDestination(asks[a].read)
     /\ recs' = [recs EXCEPT ![i].status = "applied"]
     /\ applies' = [applies EXCEPT ![i] = @ + 1]
     /\ Continues(a)
     /\ UNCHANGED <<seen, rule, overwrites, raced, edits>>

\* claim_for_apply, the change and mark_applied, in one transaction.
Apply(a) ==
  LET i == asks[a].rec
  IN /\ asks[a].op = "apply" /\ i # 0 /\ recs[i].status \in Actionable
     /\ ChangesDestination(asks[a].read)
     /\ recs' = [recs EXCEPT ![i].status = "applied"]
     /\ applies' = [applies EXCEPT ![i] = @ + 1]
     /\ Continues(a)
     /\ UNCHANGED <<seen, rule, overwrites, raced, edits>>

\* The claim fails or the change raises (no such destination, a chat that has another one):
\* the transaction is rolled back, the claim with it.
ApplyFails(a) ==
  /\ asks[a].op = "apply" /\ asks[a].rec # 0
  /\ Continues(a)
  /\ UNCHANGED <<seen, dests, recs, rule, applies, overwrites, reused, raced, edits>>

-----------------------------------------------------------------------------
(* The rule.                                                               *)

\* What one setting of an update changes (an update with two makes both checks at once).
Changed(r, set) ==
  [r EXCEPT !.auto = IF set = "auto" THEN TRUE ELSE IF set = "suggest" THEN FALSE ELSE @,
            !.high = IF set = "high" THEN TRUE ELSE IF set = "low" THEN FALSE ELSE @]

\* auto_apply requires a low risk_limit, be they of the request or of the rule as read.
Allowed(r, set) == ~(Changed(r, set).auto /\ Changed(r, set).high)

\* An update that changes nothing writes nothing.
ReadRule(a, set) ==
  /\ asks[a].op = "none" /\ Allowed(rule, set) /\ Changed(rule, set) # rule
  /\ edits < MaxEdits /\ edits' = edits + 1
  /\ asks' = [asks EXCEPT ![a] = [NoOpsRequest EXCEPT !.op = set, !.was = rule]]
  /\ UNCHANGED <<seen, dests, recs, rule, applies, overwrites, reused, raced>>

\* Only what differs from the rule as it was read is written.
WriteRule(a) ==
  LET set == asks[a].op
  IN /\ set \in Settings
     /\ rule' = Changed(rule, set)
     /\ raced' = (raced \/ rule # asks[a].was)
     /\ asks' = [asks EXCEPT ![a] = NoOpsRequest]
     /\ UNCHANGED <<seen, dests, recs, applies, overwrites, reused, edits>>

PauseOrResume ==
  /\ edits < MaxEdits /\ edits' = edits + 1
  /\ rule' = [rule EXCEPT !.on = ~@]
  /\ UNCHANGED <<seen, dests, recs, asks, applies, overwrites, reused, raced>>

\* The rule of new destinations, read once; a rule that is off or only suggests does nothing.
BeginRun(a) ==
  /\ asks[a].op = "none" /\ rule.on /\ rule.auto
  /\ asks' = [asks EXCEPT ![a] =
       [NoOpsRequest EXCEPT !.op = "apply", !.run = TRUE,
          !.todo = {i \in DOMAIN recs : recs[i].kind = "create" /\ recs[i].status \in Actionable}]]
  /\ UNCHANGED <<seen, dests, recs, rule, applies, overwrites, reused, raced, edits>>

\* Each candidate in a session of its own; one that is no longer actionable has failed.
RunPicks(a, i) ==
  /\ asks[a].run /\ asks[a].rec = 0 /\ i \in asks[a].todo
  /\ asks' = [asks EXCEPT ![a] =
       IF recs[i].status \in Actionable
         THEN [@ EXCEPT !.todo = asks[a].todo \ {i}, !.rec = i, !.read = recs[i]]
         ELSE [@ EXCEPT !.todo = asks[a].todo \ {i}]]
  /\ UNCHANGED <<seen, dests, recs, rule, applies, overwrites, reused, raced, edits>>

\* The run is recorded, or a request or run dies before its commit.
RequestEnds(a) ==
  /\ asks[a].op # "none"
  /\ asks' = [asks EXCEPT ![a] = NoOpsRequest]
  /\ UNCHANGED <<seen, dests, recs, rule, applies, overwrites, reused, raced, edits>>

ScanRequest(a) == BeginScan(a) \/ FinishScan(a)
\* A recommendation read as previewed is not changed by another preview.
PreviewRequest(a) ==
  \/ \E i \in DOMAIN recs : recs[i].status = "open" /\ ReadRec(a, i, "preview")
  \/ WritePreview(a)
DismissRequest(a) == (\E i \in DOMAIN recs : ReadRec(a, i, "dismiss")) \/ WriteDismiss(a)
ApplyRequest(a) == (\E i \in DOMAIN recs : ReadRec(a, i, "apply")) \/ Apply(a) \/ ApplyFails(a)
RuleRequest(a) == (\E set \in Settings : ReadRule(a, set)) \/ WriteRule(a)
\* Of a request, or of the scheduler for each rule that is on.
RuleRun(a) == BeginRun(a) \/ \E i \in DOMAIN recs : RunPicks(a, i)

OpsNext ==
  \/ OperatorEdits \/ PauseOrResume \/ Observe
  \/ \E a \in Askers :
       \/ ScanRequest(a) \/ PreviewRequest(a) \/ DismissRequest(a) \/ ApplyRequest(a)
       \/ RuleRequest(a) \/ RuleRun(a) \/ RequestEnds(a)

OpsSpec == OpsInit /\ [][OpsNext]_opsVars

-----------------------------------------------------------------------------
(* Properties.                                                             *)

(***************************************************************************)
(* There is one open recommendation for a chat, however scans overlap;     *)
(* a second one is there only where a preview has written over the end of  *)
(* the first.                                                              *)
(***************************************************************************)
OneOpenPerChat ==
  \A i \in DOMAIN recs : \A j \in Like(recs, recs[i]) \ {i} :
    recs[i].status \in Actionable => overwrites[i] + overwrites[j] > 0

(***************************************************************************)
(* A recommendation is applied once, by requests and automation together,  *)
(* and its status tells whether it was: except where a preview or a        *)
(* dismissal that had read it earlier has written over the status.         *)
(***************************************************************************)
AppliedOnceUnlessOverwritten ==
  \A i \in DOMAIN recs :
    /\ applies[i] <= 1 + overwrites[i]
    /\ overwrites[i] = 0 => (applies[i] = 1 <=> recs[i].status = "applied")

(***************************************************************************)
(* No recommendation moves a destination to another chat, however old it   *)
(* is: except where the destination it names was deleted and the database  *)
(* has given its id to another one.                                        *)
(***************************************************************************)
DestinationsKeepTheirChat ==
  [][\A d \in Present : dests'[d].chat \in {dests[d].chat, NoChat} \/ d \in reused]_opsVars

(***************************************************************************)
(* A rule applies by itself only under a low limit of risk.  Each request  *)
(* checks it against the rule it read; two of them that overlap can join   *)
(* what neither could ask for.                                             *)
(***************************************************************************)
AutomationUnderLowRisk == rule.auto /\ rule.high => raced

\* What recommendations and rules owe each other (TelegramOpsService), whichever scans,
\* previews, dismissals, rule runs and rule updates overlap: one open recommendation for a
\* chat, each applied once, by a rule only under a low risk limit, or an overlapping
\* request that has written over what another one had read.
RecommendationsExplained ==
  /\ OneOpenPerChat
  /\ AppliedOnceUnlessOverwritten
  /\ AutomationUnderLowRisk
=============================================================================
