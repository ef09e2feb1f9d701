--------------------------- MODULE OperationsProofs ---------------------------
(***************************************************************************)
(* What operators may count on, for any number of requests, rows, hosts,   *)
(* jobs and edits: versions and restores of the catalog, recommendations,  *)
(* backups, runs of the analytics, the egress row and the database switch. *)
(***************************************************************************)
EXTENDS MCAdministration, AccessProofs, SequenceTheorems, FiniteSetTheorems,
  WellFoundedInduction, TLAPS

-----------------------------------------------------------------------------
(* Largest elements.                                                        *)

\* A finite set of integers that is not empty has a largest element: a smallest
\* counterexample would lose one of its elements and have one, or be empty.
LEMMA LargestExists ==
  ASSUME NEW S \in SUBSET Int, IsFiniteSet(S), S # {}
  PROVE  \E x \in S : \A y \in S : x >= y
<1> DEFINE Unbounded == {T \in FiniteSubsetsOf(S) : T # {} /\ ~\E x \in T : \A y \in T : x >= y}
<1> SUFFICES ASSUME S \in Unbounded PROVE FALSE
  BY FS_Subset DEF FiniteSubsetsOf
<1>1. PICK T \in Unbounded : \A U \in Unbounded : ~(<<U, T>> \in StrictSubsetOrdering(S))
  BY FS_StrictSubsetOrderingWellFounded, WFMin
<1>2. PICK x \in T : TRUE
  OBVIOUS
<1>3. T \ {x} \in FiniteSubsetsOf(S)
  BY <1>2, FS_RemoveElement DEF FiniteSubsetsOf
<1>4. <<T \ {x}, T>> \in StrictSubsetOrdering(S)
  BY <1>2, <1>3 DEF StrictSubsetOrdering, FiniteSubsetsOf
<1>5. T \ {x} \notin Unbounded
  BY <1>1, <1>4
<1>6. T \subseteq Int
  BY DEF FiniteSubsetsOf
<1>7. CASE T \ {x} = {}
  <2>1. T = {x}
    BY <1>2, <1>7
  <2> QED BY <2>1, <1>6
<1>8. CASE T \ {x} # {}
  <2>1. PICK m \in T \ {x} : \A y \in T \ {x} : m >= y
    BY <1>3, <1>5, <1>8
  <2>2. CASE x >= m
    <3>1. \A y \in T : x >= y
      BY <2>1, <2>2, <1>6
    <3> QED BY <3>1
  <2>3. CASE m >= x
    <3>1. \A y \in T : m >= y
      BY <2>1, <2>3, <1>6
    <3> QED BY <3>1
  <2> QED BY <2>1, <2>2, <2>3, <1>6
<1> QED BY <1>7, <1>8

LEMMA MaxIsLargest ==
  ASSUME NEW S \in SUBSET Int, IsFiniteSet(S), S # {}
  PROVE  Max(S) \in S /\ \A y \in S : Max(S) >= y
BY LargestExists DEF Max

LEMMA RowsAreFinite == ASSUME NEW S \in SUBSET RowIds PROVE IsFiniteSet(S)
<1>1. IsFiniteSet(RowIds)
  BY FS_Interval, CatalogAssumption DEF RowIds
<1> QED BY <1>1, FS_Subset

\* The next id is the number of no row.
LEMMA NextIdIsFree ==
  ASSUME NEW t, DOMAIN t \subseteq RowIds PROVE NewId(t) \in Nat \ {0} /\ NewId(t) \notin DOMAIN t
<1> DEFINE S == DOMAIN t \cup {NoId}
<1>1. S \in SUBSET Int /\ S # {} /\ \A x \in S : x >= 0
  BY CatalogAssumption DEF RowIds, NoId
<1>2. IsFiniteSet(S)
  BY RowsAreFinite, FS_AddElement
<1>3. Max(S) \in S /\ \A y \in S : Max(S) >= y
  BY <1>1, <1>2, MaxIsLargest
<1>4. Max(S) \in Nat
  BY <1>1, <1>3 DEF NoId
<1>5. \A i \in DOMAIN t : Max(S) >= i /\ i \in Int
  BY <1>1, <1>3
<1>6. NewId(t) = Max(S) + 1
  BY DEF NewId
<1> HIDE DEF S
<1>7. Max(S) + 1 \notin DOMAIN t
  BY <1>4, <1>5
<1> QED BY <1>4, <1>6, <1>7

-----------------------------------------------------------------------------
(* Templates and their versions.                                            *)

Newest(t) == \A i \in DOMAIN t.templates : IsLatestVersion(t, i)

LEMMA VersionsAreFinite ==
  ASSUME NEW t, NumberedRows(t), NEW i
  PROVE  /\ NumbersOf(t, i) \cup {0} \in SUBSET Nat /\ IsFiniteSet(NumbersOf(t, i) \cup {0})
         /\ LatestNumber(t, i) \in Nat
         /\ \A n \in NumbersOf(t, i) : LatestNumber(t, i) >= n
<1> DEFINE V == VersionsOf(t, i)
           N == NumbersOf(t, i)
           f == [v \in V |-> t.template_versions[v].number]
<1>1. V \subseteq RowIds
  BY DEF NumberedRows, Sections, VersionsOf
<1>2. IsFiniteSet(V)
  BY <1>1, RowsAreFinite
<1>3. f \in Surjection(V, N)
  BY DEF Surjection, NumbersOf
<1>4. IsFiniteSet(N)
  BY <1>2, <1>3, FS_Surjection
<1>5. N \cup {0} \in SUBSET Nat
  BY DEF NumbersOf, VersionsOf, NumberedRows
<1>6. IsFiniteSet(N \cup {0})
  BY <1>4, FS_AddElement
<1> HIDE DEF N
<1>7. Max(N \cup {0}) \in N \cup {0} /\ \A n \in N \cup {0} : Max(N \cup {0}) >= n
  BY <1>5, <1>6, MaxIsLargest
<1> QED BY <1>5, <1>6, <1>7 DEF LatestNumber, N

\* Rows of the other sections do not matter.
LEMMA NewestLooksAtTemplates ==
  ASSUME NEW s, NEW t, Newest(s), t.template_versions = s.template_versions,
         DOMAIN t.templates \subseteq DOMAIN s.templates,
         \A i \in DOMAIN t.templates : t.templates[i] = s.templates[i]
  PROVE  Newest(t)
<1> SUFFICES ASSUME NEW i \in DOMAIN t.templates PROVE IsLatestVersion(t, i)
  BY DEF Newest
<1>1. VersionsOf(t, i) = VersionsOf(s, i)
  BY DEF VersionsOf
<1>2. NumbersOf(t, i) = NumbersOf(s, i)
  BY <1>1 DEF NumbersOf
<1>3. IsLatestVersion(s, i)
  BY DEF Newest
<1> QED BY <1>1, <1>2, <1>3 DEF IsLatestVersion, LatestNumber

\* A written template is its new version; the versions of the others stay.
LEMMA WrittenIsNewest ==
  ASSUME NEW s, NEW t, NumberedRows(s), Newest(s), NEW i, NEW text, NEW n,
         n = NewId(s.template_versions), DOMAIN t = DOMAIN s,
         t.templates = With(s.templates, i, text),
         t.template_versions = With(s.template_versions, n,
           [of |-> i, number |-> LatestNumber(s, i) + 1, text |-> text])
  PROVE  Newest(t)
<1> DEFINE old == s.template_versions
           new == t.template_versions
           latest == LatestNumber(s, i) + 1
<1>1. n \notin DOMAIN old /\ DOMAIN old \subseteq RowIds
  BY NextIdIsFree DEF NumberedRows, Sections
<1>2. /\ DOMAIN new = DOMAIN old \cup {n}
      /\ new[n] = [of |-> i, number |-> latest, text |-> text]
      /\ \A v \in DOMAIN old : new[v] = old[v]
  BY <1>1 DEF With
<1>3. latest \in Nat /\ \A m \in NumbersOf(s, i) : m \in Nat /\ latest > m
  <2>1. LatestNumber(s, i) \in Nat /\ \A m \in NumbersOf(s, i) : LatestNumber(s, i) >= m
    BY VersionsAreFinite, Zenon
  <2>2. \A m \in NumbersOf(s, i) : m \in Nat
    BY VersionsAreFinite, Zenon
  <2> QED BY <2>1, <2>2
<1>4. VersionsOf(t, i) = VersionsOf(s, i) \cup {n}
  BY <1>1, <1>2 DEF VersionsOf
<1>5. NumbersOf(t, i) = NumbersOf(s, i) \cup {latest}
  BY <1>1, <1>2, <1>4 DEF NumbersOf, VersionsOf
<1>6. LatestNumber(t, i) = latest
  <2>1. \A m \in NumbersOf(t, i) \cup {0} : latest >= m
    BY <1>3, <1>5
  <2>2. \A m \in NumbersOf(t, i) \cup {0} : m \in Nat
    BY <1>3, <1>5
  <2> QED BY <2>1, <2>2, <1>3, <1>5 DEF LatestNumber, Max
<1>7. IsLatestVersion(t, i)
  BY <1>2, <1>4, <1>6 DEF IsLatestVersion, With
<1>8. ASSUME NEW j \in DOMAIN t.templates, j # i PROVE IsLatestVersion(t, j)
  <2>1. j \in DOMAIN s.templates /\ t.templates[j] = s.templates[j]
    BY <1>8 DEF With
  <2>2. VersionsOf(t, j) = VersionsOf(s, j)
    BY <1>1, <1>2, <1>8 DEF VersionsOf
  <2>3. \A v \in VersionsOf(s, j) : new[v] = old[v]
    BY <1>2 DEF VersionsOf
  <2>4. NumbersOf(t, j) = NumbersOf(s, j)
    BY <2>2, <2>3 DEF NumbersOf
  <2>5. IsLatestVersion(s, j)
    BY <2>1 DEF Newest
  <2> QED BY <2>1, <2>2, <2>3, <2>4, <2>5 DEF IsLatestVersion, LatestNumber
<1> QED BY <1>7, <1>8 DEF Newest
-----------------------------------------------------------------------------
(* The endpoints.                                                           *)

CatalogInv ==
  /\ NumberedRows(tables) /\ apart \in BOOLEAN
  /\ apart \/ Newest(tables)
  /\ ProfileRefsExplained /\ OrphansExplained

LEMMA RowsPut ==
  ASSUME NumberedRows(tables), NEW s \in Sections \ {"template_versions"}, NEW rows,
         DOMAIN rows \subseteq RowIds, Put(s, rows)
  PROVE  /\ NumberedRows(tables') /\ tables'[s] = rows
         /\ \A r \in Sections \ {s} : tables'[r] = tables[r]
<1>1. DOMAIN tables = Sections /\ tables' = [tables EXCEPT ![s] = rows]
  BY DEF NumberedRows, Put
<1>2. /\ DOMAIN tables' = Sections /\ tables'[s] = rows
      /\ \A r \in Sections \ {s} : tables'[r] = tables[r]
  BY <1>1
<1>3. tables'["template_versions"] = tables["template_versions"]
  BY <1>2 DEF Sections
<1> QED BY <1>2, <1>3 DEF NumberedRows

\* What the properties look at, section by section.
LEMMA SectionsApart ==
  ASSUME CatalogInv, UNCHANGED apart, NumberedRows(tables')
  PROVE  /\ tables'.templates = tables.templates /\ tables'.template_versions = tables.template_versions
              => apart \/ Newest(tables')
         /\ tables'.destinations = tables.destinations /\ tables'.send_profiles = tables.send_profiles
              /\ reusedIds \subseteq reusedIds' => ProfileRefsExplained'
         /\ tables'.destinations = tables.destinations /\ tables'.bots = tables.bots
              /\ strays \subseteq strays' => OrphansExplained'
<1>1. tables'.templates = tables.templates /\ tables'.template_versions = tables.template_versions
        => apart \/ Newest(tables')
  BY NewestLooksAtTemplates DEF CatalogInv
<1>2. tables'.destinations = tables.destinations /\ tables'.send_profiles = tables.send_profiles
        /\ reusedIds \subseteq reusedIds' => ProfileRefsExplained'
  BY DEF CatalogInv, ProfileRefsExplained
<1>3. tables'.destinations = tables.destinations /\ tables'.bots = tables.bots
        /\ strays \subseteq strays' => OrphansExplained'
  BY DEF CatalogInv, OrphansExplained
<1> QED BY <1>1, <1>2, <1>3

LEMMA CreateBotStep == ASSUME CatalogInv, CreateBot PROVE CatalogInv'
<1> PICK n : n = NewId(tables.bots)
  OBVIOUS
<1> PICK rows : rows = With(tables.bots, n, "bot")
  OBVIOUS
<1>1. Put("bots", rows) /\ n \in RowIds /\ UNCHANGED <<strays, reusedIds, apart>>
  BY DEF CreateBot, Room
<1>2. DOMAIN rows = DOMAIN tables.bots \cup {n} /\ DOMAIN tables.bots \subseteq RowIds
  BY DEF With, CatalogInv, NumberedRows, Sections
<1>3. /\ NumberedRows(tables') /\ tables'["bots"] = rows
      /\ \A r \in Sections \ {"bots"} : tables'[r] = tables[r]
  BY <1>1, <1>2, RowsPut DEF CatalogInv, Sections
<1>4. (apart \/ Newest(tables')) /\ ProfileRefsExplained'
  BY <1>1, <1>3, SectionsApart DEF Sections
<1>5. OrphansExplained'
  BY <1>1, <1>2, <1>3 DEF CatalogInv, OrphansExplained, Sections
<1> QED BY <1>1, <1>3, <1>4, <1>5 DEF CatalogInv

LEMMA DeleteBotStep == ASSUME CatalogInv, NEW i, DeleteBot(i) PROVE CatalogInv'
<1> DEFINE own == {d \in DOMAIN tables.destinations : tables.destinations[d].bot = i}
<1>1. /\ tables' = [tables EXCEPT !.bots = Without(@, {i}), !.destinations = Without(@, own)]
      /\ strays' = strays \ own /\ UNCHANGED <<reusedIds, apart>>
  BY DEF DeleteBot
<1>2. /\ DOMAIN tables' = Sections /\ tables'.bots = Without(tables.bots, {i})
      /\ tables'.destinations = Without(tables.destinations, own)
      /\ \A r \in Sections \ {"bots", "destinations"} : tables'[r] = tables[r]
  BY <1>1 DEF CatalogInv, NumberedRows, Sections
<1>3. /\ DOMAIN tables'.bots = DOMAIN tables.bots \ {i}
      /\ DOMAIN tables'.destinations = DOMAIN tables.destinations \ own
      /\ \A d \in DOMAIN tables'.destinations : tables'.destinations[d] = tables.destinations[d]
  BY <1>2 DEF Without, Restrict
<1>4. NumberedRows(tables')
  BY <1>2, <1>3 DEF CatalogInv, NumberedRows, Sections
<1>5. apart \/ Newest(tables')
  BY <1>1, <1>2, <1>4, SectionsApart DEF Sections
<1>6. ProfileRefsExplained'
  <2>1. tables'.send_profiles = tables.send_profiles
    BY <1>2 DEF Sections
  <2> SUFFICES ASSUME NEW p \in DOMAIN tables'.send_profiles, NEW x,
                      x = tables'.send_profiles[p].dest, x \in DOMAIN tables'.destinations
               PROVE  x \in reusedIds' \/ tables'.destinations[x].bot = tables'.send_profiles[p].bot
    BY DEF ProfileRefsExplained
  <2>2. p \in DOMAIN tables.send_profiles /\ tables'.send_profiles[p] = tables.send_profiles[p]
    BY <2>1
  <2>3. /\ x \in DOMAIN tables.destinations
        /\ tables'.destinations[x].bot = tables.destinations[x].bot
    BY <1>3
  <2>4. x \in reusedIds \/ tables.destinations[x].bot = tables.send_profiles[p].bot
    BY <2>2, <2>3 DEF CatalogInv, ProfileRefsExplained
  <2> QED BY <1>1, <2>2, <2>3, <2>4
<1>7. OrphansExplained'
  BY <1>1, <1>3 DEF CatalogInv, OrphansExplained
<1> QED BY <1>1, <1>4, <1>5, <1>6, <1>7 DEF CatalogInv

LEMMA CreateDestinationStep == ASSUME CatalogInv, NEW b, NEW c, CreateDestination(b, c) PROVE CatalogInv'
<1> PICK n : n = NewId(tables.destinations)
  OBVIOUS
<1> PICK rows : rows = With(tables.destinations, n, [bot |-> b, chat |-> c])
  OBVIOUS
<1>1. /\ Put("destinations", rows) /\ n \in RowIds /\ UNCHANGED apart
      /\ strays' = IF b \in DOMAIN tables.bots THEN strays ELSE strays \cup {n}
      /\ reusedIds' = reusedIds \cup ({n} \cap NamedByProfiles)
  BY DEF CreateDestination, Room
<1>2. DOMAIN tables.destinations \subseteq RowIds
  BY DEF CatalogInv, NumberedRows, Sections
<1>3. /\ DOMAIN rows = DOMAIN tables.destinations \cup {n} /\ rows[n].bot = b
      /\ \A d \in DOMAIN tables.destinations : rows[d] = tables.destinations[d]
  BY <1>2, NextIdIsFree DEF With
<1>4. /\ NumberedRows(tables') /\ tables'["destinations"] = rows
      /\ \A r \in Sections \ {"destinations"} : tables'[r] = tables[r]
  BY <1>1, <1>2, <1>3, RowsPut DEF CatalogInv, Sections
<1>5. apart \/ Newest(tables')
  BY <1>1, <1>4, SectionsApart DEF Sections
<1>6. ProfileRefsExplained'
  <2> SUFFICES ASSUME NEW p \in DOMAIN tables'.send_profiles, NEW d,
                      d = tables'.send_profiles[p].dest, d \in DOMAIN tables'.destinations
               PROVE  d \in reusedIds' \/ tables'.destinations[d].bot = tables'.send_profiles[p].bot
    BY DEF ProfileRefsExplained
  <2>1. p \in DOMAIN tables.send_profiles /\ tables'.send_profiles[p] = tables.send_profiles[p]
    BY <1>4 DEF Sections
  <2>2. CASE d = n
    BY <1>1, <2>1, <2>2 DEF NamedByProfiles
  <2>3. CASE d # n
    BY <1>1, <1>3, <1>4, <2>1, <2>3 DEF CatalogInv, ProfileRefsExplained
  <2> QED BY <2>2, <2>3
<1>7. OrphansExplained'
  <2> SUFFICES ASSUME NEW d \in DOMAIN tables'.destinations
               PROVE  tables'.destinations[d].bot \in DOMAIN tables'.bots \/ d \in strays'
    BY DEF OrphansExplained
  <2>1. tables'.bots = tables.bots
    BY <1>4 DEF Sections
  <2>2. CASE d = n
    BY <1>1, <1>3, <1>4, <2>1, <2>2
  <2>3. CASE d # n
    BY <1>1, <1>3, <1>4, <2>1, <2>3 DEF CatalogInv, OrphansExplained
  <2> QED BY <2>2, <2>3
<1> QED BY <1>1, <1>4, <1>5, <1>6, <1>7 DEF CatalogInv

LEMMA UpdateDestinationStep == ASSUME CatalogInv, NEW d, NEW c, UpdateDestination(d, c) PROVE CatalogInv'
<1> PICK rows : rows = [tables.destinations EXCEPT ![d].chat = c]
  OBVIOUS
<1>1. Put("destinations", rows) /\ UNCHANGED <<strays, reusedIds, apart>>
  BY DEF UpdateDestination
<1>2. /\ DOMAIN rows = DOMAIN tables.destinations /\ DOMAIN rows \subseteq RowIds
      /\ \A e \in DOMAIN rows : rows[e].bot = tables.destinations[e].bot
  BY DEF CatalogInv, NumberedRows, Sections
<1>3. /\ NumberedRows(tables') /\ tables'["destinations"] = rows
      /\ \A r \in Sections \ {"destinations"} : tables'[r] = tables[r]
  BY <1>1, <1>2, RowsPut DEF CatalogInv, Sections
<1>4. apart \/ Newest(tables')
  BY <1>1, <1>3, SectionsApart DEF Sections
<1>5. ProfileRefsExplained'
  <2>1. tables'.send_profiles = tables.send_profiles
    BY <1>3 DEF Sections
  <2> SUFFICES ASSUME NEW p \in DOMAIN tables'.send_profiles, NEW x,
                      x = tables'.send_profiles[p].dest, x \in DOMAIN tables'.destinations
               PROVE  x \in reusedIds' \/ tables'.destinations[x].bot = tables'.send_profiles[p].bot
    BY DEF ProfileRefsExplained
  <2>2. p \in DOMAIN tables.send_profiles /\ tables'.send_profiles[p] = tables.send_profiles[p]
    BY <2>1
  <2>3. /\ x \in DOMAIN tables.destinations
        /\ tables'.destinations[x].bot = tables.destinations[x].bot
    BY <1>2, <1>3
  <2>4. x \in reusedIds \/ tables.destinations[x].bot = tables.send_profiles[p].bot
    BY <2>2, <2>3 DEF CatalogInv, ProfileRefsExplained
  <2> QED BY <1>1, <2>2, <2>3, <2>4
<1>6. OrphansExplained'
  BY <1>1, <1>2, <1>3 DEF CatalogInv, OrphansExplained, Sections
<1> QED BY <1>1, <1>3, <1>4, <1>5, <1>6 DEF CatalogInv

LEMMA DeleteDestinationStep == ASSUME CatalogInv, NEW d, DeleteDestination(d) PROVE CatalogInv'
<1> PICK rows : rows = Without(tables.destinations, {d})
  OBVIOUS
<1>1. Put("destinations", rows) /\ strays' = strays \ {d} /\ UNCHANGED <<reusedIds, apart>>
  BY DEF DeleteDestination
<1>2. /\ DOMAIN rows = DOMAIN tables.destinations \ {d} /\ DOMAIN rows \subseteq RowIds
      /\ \A e \in DOMAIN rows : rows[e] = tables.destinations[e]
  BY DEF CatalogInv, NumberedRows, Sections, Without, Restrict
<1>3. /\ NumberedRows(tables') /\ tables'["destinations"] = rows
      /\ \A r \in Sections \ {"destinations"} : tables'[r] = tables[r]
  BY <1>1, <1>2, RowsPut DEF CatalogInv, Sections
<1>4. apart \/ Newest(tables')
  BY <1>1, <1>3, SectionsApart DEF Sections
<1>5. ProfileRefsExplained'
  <2>1. tables'.send_profiles = tables.send_profiles
    BY <1>3 DEF Sections
  <2> SUFFICES ASSUME NEW p \in DOMAIN tables'.send_profiles, NEW x,
                      x = tables'.send_profiles[p].dest, x \in DOMAIN tables'.destinations
               PROVE  x \in reusedIds' \/ tables'.destinations[x].bot = tables'.send_profiles[p].bot
    BY DEF ProfileRefsExplained
  <2>2. p \in DOMAIN tables.send_profiles /\ tables'.send_profiles[p] = tables.send_profiles[p]
    BY <2>1
  <2>3. /\ x \in DOMAIN tables.destinations
        /\ tables'.destinations[x].bot = tables.destinations[x].bot
    BY <1>2, <1>3
  <2>4. x \in reusedIds \/ tables.destinations[x].bot = tables.send_profiles[p].bot
    BY <2>2, <2>3 DEF CatalogInv, ProfileRefsExplained
  <2> QED BY <1>1, <2>2, <2>3, <2>4
<1>6. OrphansExplained'
  BY <1>1, <1>2, <1>3 DEF CatalogInv, OrphansExplained, Sections
<1> QED BY <1>1, <1>3, <1>4, <1>5, <1>6 DEF CatalogInv

LEMMA CreateProfileStep == ASSUME CatalogInv, NEW b, NEW d, CreateProfile(b, d) PROVE CatalogInv'
<1> PICK n : n = NewId(tables.send_profiles)
  OBVIOUS
<1> PICK rows : rows = With(tables.send_profiles, n, [bot |-> b, dest |-> d])
  OBVIOUS
<1>1. Put("send_profiles", rows) /\ n \in RowIds /\ UNCHANGED <<strays, reusedIds, apart>>
  BY DEF CreateProfile, Room
<1>2. DOMAIN tables.send_profiles \subseteq RowIds /\ DOMAIN tables.destinations \subseteq RowIds
  BY DEF CatalogInv, NumberedRows, Sections
<1>3. /\ DOMAIN rows = DOMAIN tables.send_profiles \cup {n} /\ rows[n] = [bot |-> b, dest |-> d]
      /\ \A p \in DOMAIN tables.send_profiles : p # n => rows[p] = tables.send_profiles[p]
  BY DEF With
<1>4. /\ NumberedRows(tables') /\ tables'["send_profiles"] = rows
      /\ \A r \in Sections \ {"send_profiles"} : tables'[r] = tables[r]
  BY <1>1, <1>2, <1>3, RowsPut DEF CatalogInv, Sections
<1>5. tables'.destinations = tables.destinations
  BY <1>4 DEF Sections
<1>6. (apart \/ Newest(tables')) /\ OrphansExplained'
  BY <1>1, <1>4, SectionsApart DEF Sections
<1>7. d \in DOMAIN tables.destinations => tables.destinations[d].bot = b
  BY <1>2 DEF CreateProfile, ValidRefs, NoId, RowIds
<1>8. ProfileRefsExplained'
  BY <1>1, <1>3, <1>4, <1>5, <1>7 DEF CatalogInv, ProfileRefsExplained
<1> QED BY <1>1, <1>4, <1>6, <1>8 DEF CatalogInv

LEMMA UpdateProfileStep == ASSUME CatalogInv, NEW p, NEW given, UpdateProfile(p, given) PROVE CatalogInv'
<1> PICK row : row = [f \in {"bot", "dest"} |->
                        IF f \in DOMAIN given THEN given[f] ELSE tables.send_profiles[p][f]]
  OBVIOUS
<1> PICK rows : rows = [tables.send_profiles EXCEPT ![p] = row]
  OBVIOUS
<1>1. /\ Put("send_profiles", rows) /\ p \in DOMAIN tables.send_profiles
      /\ ValidRefs(row.bot, row.dest) /\ UNCHANGED <<strays, reusedIds, apart>>
  BY DEF UpdateProfile
<1>2. DOMAIN tables.send_profiles \subseteq RowIds /\ DOMAIN tables.destinations \subseteq RowIds
  BY DEF CatalogInv, NumberedRows, Sections
<1>3. /\ DOMAIN rows = DOMAIN tables.send_profiles /\ rows[p] = row
      /\ \A o \in DOMAIN tables.send_profiles : o # p => rows[o] = tables.send_profiles[o]
  BY <1>1
<1>4. /\ NumberedRows(tables') /\ tables'["send_profiles"] = rows
      /\ \A r \in Sections \ {"send_profiles"} : tables'[r] = tables[r]
  BY <1>1, <1>2, <1>3, RowsPut DEF CatalogInv, Sections
<1>5. tables'.destinations = tables.destinations
  BY <1>4 DEF Sections
<1>6. (apart \/ Newest(tables')) /\ OrphansExplained'
  BY <1>1, <1>4, SectionsApart DEF Sections
<1>7. row.dest \in DOMAIN tables.destinations => tables.destinations[row.dest].bot = row.bot
  BY <1>1, <1>2 DEF ValidRefs, NoId, RowIds
<1>8. ProfileRefsExplained'
  BY <1>1, <1>3, <1>4, <1>5, <1>7 DEF CatalogInv, ProfileRefsExplained
<1> QED BY <1>1, <1>4, <1>6, <1>8 DEF CatalogInv

LEMMA DeleteProfileStep == ASSUME CatalogInv, NEW p, DeleteProfile(p) PROVE CatalogInv'
<1> PICK rows : rows = Without(tables.send_profiles, {p})
  OBVIOUS
<1>1. Put("send_profiles", rows) /\ UNCHANGED <<strays, reusedIds, apart>>
  BY DEF DeleteProfile
<1>2. /\ DOMAIN rows = DOMAIN tables.send_profiles \ {p} /\ DOMAIN rows \subseteq RowIds
      /\ \A o \in DOMAIN rows : rows[o] = tables.send_profiles[o]
  BY DEF CatalogInv, NumberedRows, Sections, Without, Restrict
<1>3. /\ NumberedRows(tables') /\ tables'["send_profiles"] = rows
      /\ \A r \in Sections \ {"send_profiles"} : tables'[r] = tables[r]
  BY <1>1, <1>2, RowsPut DEF CatalogInv, Sections
<1>4. tables'.destinations = tables.destinations
  BY <1>3 DEF Sections
<1>5. (apart \/ Newest(tables')) /\ OrphansExplained'
  BY <1>1, <1>3, SectionsApart DEF Sections
<1>6. ProfileRefsExplained'
  BY <1>1, <1>2, <1>3, <1>4 DEF CatalogInv, ProfileRefsExplained
<1> QED BY <1>1, <1>3, <1>5, <1>6 DEF CatalogInv

LEMMA WriteTemplateStep ==
  ASSUME CatalogInv, NEW i \in RowIds, NEW text, WriteTemplate(i, text) PROVE CatalogInv'
<1> PICK n : n = NewId(tables.template_versions)
  OBVIOUS
<1> PICK row : row = [of |-> i, number |-> LatestNumber(tables, i) + 1, text |-> text]
  OBVIOUS
<1> PICK versions : versions = With(tables.template_versions, n, row)
  OBVIOUS
<1> PICK templates : templates = With(tables.templates, i, text)
  OBVIOUS
<1>1. /\ tables' = [tables EXCEPT !.templates = templates, !.template_versions = versions]
      /\ n \in RowIds /\ UNCHANGED <<strays, reusedIds, apart>>
  BY DEF WriteTemplate, Room
<1>2. /\ DOMAIN tables' = Sections /\ tables'.templates = templates
      /\ tables'.template_versions = versions
      /\ \A r \in Sections \ {"templates", "template_versions"} : tables'[r] = tables[r]
  BY <1>1 DEF CatalogInv, NumberedRows, Sections
<1>3. row.number \in Nat
  <2>1. LatestNumber(tables, i) \in Nat
    BY VersionsAreFinite DEF CatalogInv
  <2> QED BY <2>1
<1>4. /\ DOMAIN templates = DOMAIN tables.templates \cup {i}
      /\ DOMAIN versions = DOMAIN tables.template_versions \cup {n}
      /\ \A v \in DOMAIN versions :
           versions[v] = row \/ (v \in DOMAIN tables.template_versions
                                   /\ versions[v] = tables.template_versions[v])
  BY DEF With
<1>5. \A v \in DOMAIN versions : versions[v].number \in Nat
  BY <1>3, <1>4 DEF CatalogInv, NumberedRows
<1>6. /\ DOMAIN tables.templates \subseteq RowIds /\ DOMAIN tables.template_versions \subseteq RowIds
      /\ DOMAIN tables = Sections
  BY DEF CatalogInv, NumberedRows, Sections
<1>7. NumberedRows(tables')
  <2>1. ASSUME NEW r \in Sections PROVE DOMAIN tables'[r] \subseteq RowIds
    <3>1. CASE r \in {"templates", "template_versions"}
      BY <1>1, <1>2, <1>4, <1>6, <3>1
    <3>2. CASE r \notin {"templates", "template_versions"}
      BY <1>2, <3>2 DEF CatalogInv, NumberedRows
    <3> QED BY <3>1, <3>2
  <2> QED BY <1>2, <1>5, <2>1 DEF NumberedRows
<1>8. apart \/ Newest(tables')
  BY <1>2, <1>6, WrittenIsNewest DEF CatalogInv
<1>9. /\ tables'.bots = tables.bots /\ tables'.destinations = tables.destinations
      /\ tables'.send_profiles = tables.send_profiles
  BY <1>2 DEF Sections
<1>10. ProfileRefsExplained' /\ OrphansExplained'
  BY <1>1, <1>9 DEF CatalogInv, ProfileRefsExplained, OrphansExplained
<1> QED BY <1>1, <1>7, <1>8, <1>10 DEF CatalogInv

LEMMA DeleteTemplateStep == ASSUME CatalogInv, NEW i, DeleteTemplate(i) PROVE CatalogInv'
<1> PICK rows : rows = Without(tables.templates, {i})
  OBVIOUS
<1>1. Put("templates", rows) /\ UNCHANGED <<strays, reusedIds, apart>>
  BY DEF DeleteTemplate
<1>2. /\ DOMAIN rows = DOMAIN tables.templates \ {i} /\ DOMAIN rows \subseteq RowIds
      /\ \A o \in DOMAIN rows : rows[o] = tables.templates[o]
  BY DEF CatalogInv, NumberedRows, Sections, Without, Restrict
<1>3. /\ NumberedRows(tables') /\ tables'["templates"] = rows
      /\ \A r \in Sections \ {"templates"} : tables'[r] = tables[r]
  BY <1>1, <1>2, RowsPut DEF CatalogInv, Sections
<1>4. apart \/ Newest(tables')
  <2>1. tables'.template_versions = tables.template_versions
    BY <1>3 DEF Sections
  <2> QED BY <1>2, <1>3, <2>1, NewestLooksAtTemplates DEF CatalogInv
<1>5. /\ tables'.bots = tables.bots /\ tables'.destinations = tables.destinations
      /\ tables'.send_profiles = tables.send_profiles
  BY <1>3 DEF Sections
<1>6. ProfileRefsExplained' /\ OrphansExplained'
  BY <1>1, <1>5 DEF CatalogInv, ProfileRefsExplained, OrphansExplained
<1> QED BY <1>1, <1>3, <1>4, <1>6 DEF CatalogInv

\* An empty section gives out the first id.
LEMMA FirstId == ASSUME NEW t, DOMAIN t = {} PROVE NewId(t) \in RowIds
<1>1. Max({0}) = 0
  BY DEF Max
<1>2. DOMAIN t \cup {NoId} = {0}
  BY DEF NoId
<1>3. NewId(t) = 1
  <2>1. NewId(t) = Max({0}) + 1
    BY <1>2, Zenon DEF NewId
  <2> QED BY <1>1, <2>1
<1>4. 1 \in RowIds
  BY CatalogAssumption DEF RowIds
<1> QED BY <1>3, <1>4

LEMMA CatalogStep == ASSUME CatalogInv, CatalogNext PROVE CatalogInv'
<1>1. CASE BotCalls
  BY <1>1, CreateBotStep, DeleteBotStep DEF BotCalls
<1>2. CASE DestinationCalls
  BY <1>2, CreateDestinationStep, UpdateDestinationStep, DeleteDestinationStep DEF DestinationCalls
<1>3. CASE ProfileCalls
  BY <1>3, CreateProfileStep, UpdateProfileStep, DeleteProfileStep DEF ProfileCalls
<1>4. CASE TemplateCalls
  <2>1. ASSUME NEW text \in Texts, CreateTemplate(text) PROVE CatalogInv'
    <3>1. NewId(tables.templates) \in RowIds
      BY <2>1, FirstId DEF CreateTemplate
    <3> QED BY <2>1, <3>1, WriteTemplateStep DEF CreateTemplate
  <2>2. ASSUME NEW i \in RowIds, NEW text \in Texts, UpdateTemplate(i, text) PROVE CatalogInv'
    BY <2>2, WriteTemplateStep DEF UpdateTemplate
  <2>3. ASSUME NEW i \in RowIds, NEW v \in RowIds, RollbackTemplate(i, v) PROVE CatalogInv'
    BY <2>3, WriteTemplateStep DEF RollbackTemplate
  <2> QED BY <1>4, <2>1, <2>2, <2>3, DeleteTemplateStep DEF TemplateCalls
<1> QED BY <1>1, <1>2, <1>3, <1>4 DEF CatalogNext

-----------------------------------------------------------------------------
(* Restores.                                                                *)

SnapshotSound(snap) == NumberedRows(snap.holds) /\ (apart \/ Newest(snap.holds))

SavedSound ==
  /\ \E S : saved \in Seq(S)
  /\ \A k \in 1..Len(saved) : SnapshotSound(saved[k])

\* The restore under way holds the lock: the tables are as it has copied and compared them.
RestoreHoldsTables ==
  restoring # NotRestoring =>
    /\ SnapshotSound(restoring.from)
    /\ restoring.secs \subseteq Sections
    /\ "templates" \in restoring.secs => "template_versions" \in restoring.secs
    /\ restoring.copy = tables
    /\ restoring.diff = Diff(tables, restoring.from.holds, restoring.secs)

RestoreInv == CatalogInv /\ SavedSound /\ RestoreHoldsTables

LEMMA SnapshotsStaySound ==
  ASSUME NEW snap, SnapshotSound(snap), apart => apart'
  PROVE  NumberedRows(snap.holds) /\ (apart' \/ Newest(snap.holds))
BY DEF SnapshotSound

LEMMA SavedIsNumbered ==
  ASSUME SavedSound PROVE Len(saved) \in Nat /\ DOMAIN saved = 1..Len(saved)
BY DEF SavedSound

LEMMA SnapshotAdded ==
  ASSUME SavedSound, NEW snap, saved' = Append(saved, snap), apart => apart',
         NumberedRows(snap.holds), apart' \/ Newest(snap.holds)
  PROVE  SavedSound' /\ Len(saved') = Len(saved) + 1 /\ saved'[Len(saved')] = snap
<1>1. PICK S : saved \in Seq(S)
  BY DEF SavedSound
<1>2. saved \in Seq(S \cup {snap})
  BY <1>1
<1>3. /\ saved' \in Seq(S \cup {snap}) /\ Len(saved') = Len(saved) + 1
      /\ saved'[Len(saved) + 1] = snap
      /\ \A k \in 1..Len(saved) : saved'[k] = saved[k]
  BY <1>2
<1>4. \A k \in 1..Len(saved') : k \in 1..Len(saved) \/ k = Len(saved) + 1
  BY <1>2, <1>3
<1>5. ASSUME NEW k \in 1..Len(saved') PROVE SnapshotSound(saved[k])' 
  <2>1. CASE k \in 1..Len(saved)
    BY <1>3, <2>1 DEF SavedSound, SnapshotSound
  <2>2. CASE k = Len(saved) + 1
    BY <1>3, <2>2 DEF SnapshotSound
  <2> QED BY <1>4, <2>1, <2>2
<1> QED BY <1>3, <1>5 DEF SavedSound

LEMMA RestoreInitHolds == RestoreInit => RestoreInv
<1> SUFFICES ASSUME RestoreInit PROVE RestoreInv
  OBVIOUS
<1>1. tables \in Starts /\ apart = FALSE /\ saved = <<>> /\ restoring = NotRestoring
  BY DEF RestoreInit, CatalogInit
<1>2. CatalogInv
  BY <1>1, StartsAssumption DEF CatalogInv, Newest, ProfileRefsExplained, OrphansExplained
<1>3. SavedSound
  <2>1. saved \in Seq({}) /\ Len(saved) = 0
    BY <1>1
  <2> QED BY <2>1 DEF SavedSound
<1> QED BY <1>1, <1>2, <1>3 DEF RestoreInv, RestoreHoldsTables

\* Only the two sections of templates that a restore leaves or brings together are alike.
LEMMA ReplacedIsSound ==
  ASSUME RestoreInv, RestoreApplies PROVE CatalogInv'
<1> PICK snap : snap = restoring.from
  OBVIOUS
<1> PICK secs : secs = restoring.secs
  OBVIOUS
<1>1. restoring # NotRestoring
  BY DEF RestoreApplies, NotRestoring
<1>2. /\ NumberedRows(snap.holds) /\ (apart \/ Newest(snap.holds)) /\ secs \subseteq Sections
      /\ "templates" \in secs => "template_versions" \in secs
  BY <1>1 DEF RestoreInv, RestoreHoldsTables, SnapshotSound
<1>3. /\ tables' = [s \in Sections |-> IF s \in secs THEN snap.holds[s] ELSE tables[s]]
      /\ ~BlockedRestore(snap, secs)
      /\ strays' = {d \in DOMAIN tables'.destinations :
                      /\ tables'.destinations[d].bot \notin DOMAIN tables'.bots
                      /\ "destinations" \notin secs}
      /\ reusedIds' = IF {"destinations", "send_profiles"} \cap secs = {} THEN reusedIds ELSE RowIds
      /\ apart' = (apart \/ secs \cap {"templates", "template_versions"} = {"template_versions"})
  BY DEF RestoreApplies, Replaced
<1>4. /\ DOMAIN tables' = Sections
      /\ \A s \in secs : tables'[s] = snap.holds[s]
      /\ \A s \in Sections \ secs : tables'[s] = tables[s]
  BY <1>2, <1>3
<1>5. NumberedRows(tables')
  <2>1. ASSUME NEW s \in Sections PROVE DOMAIN tables'[s] \subseteq RowIds
    BY <1>2, <1>4 DEF RestoreInv, CatalogInv, NumberedRows
  <2>2. \A v \in DOMAIN tables'.template_versions : tables'.template_versions[v].number \in Nat
    <3>1. CASE "template_versions" \in secs
      BY <1>2, <1>4, <3>1 DEF NumberedRows
    <3>2. CASE "template_versions" \notin secs
      <4>1. tables'.template_versions = tables.template_versions
        BY <1>4, <3>2 DEF Sections
      <4> QED BY <4>1 DEF RestoreInv, CatalogInv, NumberedRows
    <3> QED BY <3>1, <3>2
  <2> QED BY <1>4, <2>1, <2>2 DEF NumberedRows
<1>6. apart' \in BOOLEAN
  BY <1>3 DEF RestoreInv, CatalogInv
<1>7. apart' \/ Newest(tables')
  <2>1. CASE "templates" \in secs
    <3>1. tables'.templates = snap.holds.templates /\ tables'.template_versions = snap.holds.template_versions
      BY <1>2, <1>4, <2>1
    <3> QED BY <1>2, <1>3, <3>1, NewestLooksAtTemplates
  <2>2. CASE "templates" \notin secs /\ "template_versions" \in secs
    <3>1. secs \cap {"templates", "template_versions"} = {"template_versions"}
      BY <2>2
    <3> QED BY <1>3, <3>1
  <2>3. CASE "templates" \notin secs /\ "template_versions" \notin secs
    <3>1. tables'.templates = tables.templates /\ tables'.template_versions = tables.template_versions
      BY <1>4, <2>3 DEF Sections
    <3> QED BY <1>3, <3>1, NewestLooksAtTemplates DEF RestoreInv, CatalogInv
  <2> QED BY <2>1, <2>2, <2>3
<1>8. ProfileRefsExplained'
  <2>1. CASE {"destinations", "send_profiles"} \cap secs = {}
    <3>1. /\ tables'.destinations = tables.destinations /\ tables'.send_profiles = tables.send_profiles
          /\ reusedIds' = reusedIds
      BY <1>3, <1>4, <2>1 DEF Sections
    <3> QED BY <3>1 DEF RestoreInv, CatalogInv, ProfileRefsExplained
  <2>2. CASE {"destinations", "send_profiles"} \cap secs # {}
    <3>1. DOMAIN tables'.destinations \subseteq reusedIds'
      BY <1>3, <1>5, <2>2 DEF NumberedRows, Sections
    <3> QED BY <3>1 DEF ProfileRefsExplained
  <2> QED BY <2>1, <2>2
<1>9. OrphansExplained'
  <2>1. CASE "destinations" \in secs
    <3>1. tables'.destinations = snap.holds.destinations
      BY <1>4, <2>1
    <3>2. tables'.bots = IF "bots" \in secs THEN snap.holds.bots ELSE tables.bots
      BY <1>4 DEF Sections
    <3>3. BotsNamed(snap) \subseteq DOMAIN tables'.bots
      BY <1>3, <2>1, <3>2 DEF BlockedRestore, MissesBots
    <3> QED BY <3>1, <3>3 DEF BotsNamed, OrphansExplained
  <2>2. CASE "destinations" \notin secs
    BY <1>3, <2>2 DEF OrphansExplained
  <2> QED BY <2>1, <2>2
<1> QED BY <1>5, <1>6, <1>7, <1>8, <1>9 DEF CatalogInv

LEMMA RestoreStep == ASSUME RestoreInv, [RestoreNext]_restoreVars PROVE RestoreInv'
<1>1. CASE Edit
  <2>1. CatalogInv' /\ UNCHANGED <<saved, restoring>> /\ restoring = NotRestoring
    BY <1>1, CatalogStep DEF RestoreInv, Edit, LockFree
  <2>2. UNCHANGED apart
    BY <1>1 DEF Edit, CatalogNext, BotCalls, DestinationCalls, ProfileCalls, TemplateCalls, CreateBot,
      DeleteBot, CreateDestination, UpdateDestination, DeleteDestination, CreateProfile,
      UpdateProfile, DeleteProfile, CreateTemplate, UpdateTemplate, RollbackTemplate,
      DeleteTemplate, WriteTemplate
  <2>3. SavedSound'
    BY <2>1, <2>2 DEF RestoreInv, SavedSound, SnapshotSound
  <2> QED BY <2>1, <2>3 DEF RestoreInv, RestoreHoldsTables
<1>2. ASSUME NEW requested \in BOOLEAN, NEW answer \in RepoAnswers, Export(requested, answer)
      PROVE  RestoreInv'
  <2> PICK snap : snap = [holds |-> tables, status |-> "succeeded",
                          secrets |-> requested \/ Privacy(answer) = "private"]
    OBVIOUS
  <2>1. saved' = Append(saved, snap) /\ restoring = NotRestoring /\ UNCHANGED <<catalogVars, restoring>>
    BY <1>2 DEF Export, LockFree
  <2>2. CatalogInv' /\ apart' = apart
    BY <2>1 DEF RestoreInv, CatalogInv, catalogVars, ProfileRefsExplained, OrphansExplained
  <2>3. SavedSound'
    BY <2>1, <2>2, SnapshotAdded DEF RestoreInv, CatalogInv
  <2> QED BY <2>1, <2>2, <2>3 DEF RestoreInv, RestoreHoldsTables
<1>3. ASSUME NEW k \in 1..MaxSaved, NEW chosen \in SectionChoices, RestoreReads(k, chosen)
      PROVE  RestoreInv'
  <2> PICK secs : secs = Expanded(chosen)
    OBVIOUS
  <2>1. /\ k \in DOMAIN saved /\ UNCHANGED <<catalogVars, saved>>
        /\ restoring' = [at |-> "copied", from |-> saved[k], secs |-> secs, copy |-> tables,
                         diff |-> Diff(tables, saved[k].holds, secs)]
    BY <1>3 DEF RestoreReads
  <2>2. CatalogInv' /\ apart' = apart /\ tables' = tables
    BY <2>1 DEF RestoreInv, CatalogInv, catalogVars, ProfileRefsExplained, OrphansExplained
  <2>3. SavedSound' /\ SnapshotSound(saved[k])
    BY <2>1, <2>2, SavedIsNumbered DEF RestoreInv, SavedSound, SnapshotSound
  <2>4. secs \subseteq Sections /\ ("templates" \in secs => "template_versions" \in secs)
    BY RestoreAssumption DEF Expanded, Sections
  <2>5. RestoreHoldsTables'
    BY <2>1, <2>2, <2>3, <2>4 DEF RestoreHoldsTables, SnapshotSound, NumberedRows, Newest, Diff
  <2> QED BY <2>2, <2>3, <2>5 DEF RestoreInv
<1>4. CASE RestoreApplies
  <2> PICK snap : snap = [holds |-> restoring.copy, secrets |-> TRUE, status |-> "pre_restore"]
    OBVIOUS
  <2>1. saved' = Append(saved, snap) /\ restoring' = NotRestoring /\ (apart => apart')
    BY <1>4 DEF RestoreApplies
  <2>2. restoring.copy = tables
    BY <1>4 DEF RestoreInv, RestoreHoldsTables, RestoreApplies, NotRestoring
  <2>3. SavedSound'
    BY <2>1, <2>2, SnapshotAdded DEF RestoreInv, CatalogInv
  <2> QED BY <1>4, <2>1, <2>3, ReplacedIsSound DEF RestoreInv, RestoreHoldsTables
<1>5. CASE RestoreRefused \/ RestoreDies \/ UNCHANGED restoreVars
  <2>1. UNCHANGED <<catalogVars, saved>> /\ (restoring' = NotRestoring \/ restoring' = restoring)
    BY <1>5 DEF RestoreRefused, RestoreDies, restoreVars
  <2>2. CatalogInv' /\ apart' = apart /\ tables' = tables
    BY <2>1 DEF RestoreInv, CatalogInv, catalogVars, ProfileRefsExplained, OrphansExplained
  <2>3. SavedSound'
    BY <2>1, <2>2 DEF RestoreInv, SavedSound, SnapshotSound
  <2>4. RestoreHoldsTables'
    <3>1. CASE restoring' = NotRestoring
      BY <3>1 DEF RestoreHoldsTables
    <3>2. CASE restoring' = restoring
      BY <2>2, <3>2 DEF RestoreInv, RestoreHoldsTables, SnapshotSound
    <3> QED BY <2>1, <3>1, <3>2
  <2> QED BY <2>2, <2>3, <2>4 DEF RestoreInv
<1> QED BY <1>1, <1>2, <1>3, <1>4, <1>5 DEF RestoreNext, ApplyRestore

(***************************************************************************)
(* A restore holds the unit of work's lock between its copy and its commit *)
(* (BackupService.apply_restore): what it changes is what it compared.     *)
(***************************************************************************)
THEOREM RestoreInvariant == RestoreSpec => []RestoreInv
<1>1. RestoreInit => RestoreInv
  BY RestoreInitHolds
<1>2. RestoreInv /\ [RestoreNext]_restoreVars => RestoreInv'
  BY RestoreStep
<1> QED BY <1>1, <1>2, PTL DEF RestoreSpec

(***************************************************************************)
(* Whatever calls of the endpoints and restores of sections follow each    *)
(* other, a template is its newest version, and each profile and each      *)
(* destination without its parent has its reason.                          *)
(***************************************************************************)
THEOREM CatalogRowsAreExplained == RestoreSpec => []CatalogExplained
<1>1. RestoreInv => CatalogExplained
  BY DEF RestoreInv, CatalogInv, CatalogExplained, TemplateIsItsLatestVersion, Newest
<1> QED BY <1>1, RestoreInvariant, PTL

\* Sections a restore leaves out do not differ afterwards.
LEMMA DiffOfReplaced ==
  ASSUME NEW snap, NEW secs \in SUBSET Sections, NEW new,
         new = [s \in Sections |-> IF s \in secs THEN snap.holds[s] ELSE tables[s]]
  PROVE  Diff(tables, new, Sections) = Diff(tables, snap.holds, secs)
<1>1. ASSUME NEW c \in Sections \X RowIds, c[1] \in secs
      PROVE  new[c[1]] = snap.holds[c[1]]
  BY <1>1
<1>2. ASSUME NEW c \in Sections \X RowIds, c[1] \notin secs
      PROVE  new[c[1]] = tables[c[1]]
  BY <1>2
<1>3. \A c \in Sections \X RowIds : c \in secs \X RowIds <=> c[1] \in secs
  OBVIOUS
<1>4. secs \X RowIds \subseteq Sections \X RowIds
  OBVIOUS
<1> QED BY <1>1, <1>2, <1>3, <1>4 DEF Diff

(***************************************************************************)
(* A committed restore has kept what it replaced, and changed what its     *)
(* answer says.                                                            *)
(***************************************************************************)
THEOREM RestoresKeepWhatTheyReplace == RestoreSpec => RestoresCanBeUndone
<1>1. ASSUME RestoreInv, [RestoreNext]_restoreVars
      PROVE  [ Len(saved') > Len(saved) /\ saved'[Len(saved')].status = "pre_restore" =>
                 /\ saved'[Len(saved')].holds = tables
                 /\ Diff(tables, tables', Sections) = restoring.diff ]_restoreVars
  <2> SUFFICES ASSUME Len(saved') > Len(saved), saved'[Len(saved')].status = "pre_restore"
               PROVE  /\ saved'[Len(saved')].holds = tables
                      /\ Diff(tables, tables', Sections) = restoring.diff
    OBVIOUS
  <2>1. ASSUME saved' = saved PROVE FALSE
    BY <2>1, <1>1, SavedIsNumbered DEF RestoreInv
  <2>2. CASE RestoreApplies
    <3> PICK snap : snap = [holds |-> restoring.copy, secrets |-> TRUE, status |-> "pre_restore"]
      OBVIOUS
    <3>1. saved' = Append(saved, snap) /\ (apart => apart')
      BY <2>2 DEF RestoreApplies
    <3>2. /\ restoring.copy = tables /\ restoring.secs \in SUBSET Sections
          /\ restoring.diff = Diff(tables, restoring.from.holds, restoring.secs)
      BY <1>1, <2>2 DEF RestoreInv, RestoreHoldsTables, RestoreApplies, NotRestoring
    <3>3. saved'[Len(saved')] = snap
      BY <1>1, <3>1, <3>2, SnapshotAdded DEF RestoreInv, CatalogInv
    <3>4. tables' = [s \in Sections |-> IF s \in restoring.secs THEN restoring.from.holds[s]
                                        ELSE tables[s]]
      BY <2>2 DEF RestoreApplies, Replaced
    <3>5. Diff(tables, tables', Sections) = restoring.diff
      BY <3>2, <3>4, DiffOfReplaced
    <3> QED BY <3>2, <3>3, <3>5
  <2>3. ASSUME NEW requested \in BOOLEAN, NEW answer \in RepoAnswers, Export(requested, answer)
        PROVE  FALSE
    <3> PICK snap : snap = [holds |-> tables, status |-> "succeeded",
                            secrets |-> requested \/ Privacy(answer) = "private"]
      OBVIOUS
    <3>1. saved' = Append(saved, snap) /\ apart' = apart
      BY <2>3 DEF Export, catalogVars
    <3>2. saved'[Len(saved')] = snap
      BY <1>1, <3>1, SnapshotAdded DEF RestoreInv, CatalogInv
    <3> QED BY <3>2
  <2> QED BY <1>1, <2>1, <2>2, <2>3 DEF RestoreNext, ApplyRestore, Edit, RestoreReads,
        RestoreRefused, RestoreDies, restoreVars
<1> QED BY <1>1, RestoreInvariant, PTL DEF RestoreSpec, RestoresCanBeUndone

-----------------------------------------------------------------------------
(* The rows keep their columns.                                             *)

SoundTemplates(rows) == \A i \in DOMAIN rows : rows[i] \in Texts

\* Some rows of a section are sound when all are.
LEMMA FewerRowsAreSound ==
  ASSUME NEW old, NEW new, DOMAIN new \subseteq DOMAIN old,
         \A i \in DOMAIN new : new[i] = old[i]
  PROVE  /\ SoundDestinations(old) => SoundDestinations(new)
         /\ SoundProfiles(old) => SoundProfiles(new)
         /\ SoundTemplates(old) => SoundTemplates(new)
BY DEF SoundDestinations, SoundProfiles, SoundTemplates

LEMMA WithoutSome ==
  ASSUME NEW t, NEW gone
  PROVE  DOMAIN Without(t, gone) \subseteq DOMAIN t /\ \A i \in DOMAIN Without(t, gone) : Without(t, gone)[i] = t[i]
BY DEF Without, Restrict

\* A section is replaced by sound rows.
LEMMA SoundRowsPut ==
  ASSUME NumberedRows(tables), SoundRows(tables), NEW s \in Sections \ {"template_versions"}, NEW rows,
         Put(s, rows),
         s = "destinations" => SoundDestinations(rows),
         s = "send_profiles" => SoundProfiles(rows),
         s = "templates" => SoundTemplates(rows)
  PROVE  SoundRows(tables')
<1>1. DOMAIN tables = Sections /\ tables' = [tables EXCEPT ![s] = rows]
  BY DEF NumberedRows, Put
<1>2. tables'[s] = rows /\ \A r \in Sections \ {s} : tables'[r] = tables[r]
  BY <1>1
<1>3. SoundDestinations(tables'.destinations)
  BY <1>2 DEF SoundRows, Sections
<1>4. SoundProfiles(tables'.send_profiles)
  BY <1>2 DEF SoundRows, Sections
<1>5. tables'.template_versions = tables.template_versions
  BY <1>2 DEF Sections
<1>6. SoundTemplates(tables'.templates)
  BY <1>2 DEF SoundRows, SoundTemplates, Sections
<1> QED BY <1>3, <1>4, <1>5, <1>6 DEF SoundRows, SoundTemplates

LEMMA SoundDestinationAdded ==
  ASSUME NumberedRows(tables), SoundRows(tables), NEW b \in RowIds, NEW c \in ChatNames,
         CreateDestination(b, c)
  PROVE  SoundRows(tables')
<1> PICK old : old = tables.destinations
  OBVIOUS
<1> PICK n : n = NewId(old)
  OBVIOUS
<1> PICK row : row = [bot |-> b, chat |-> c]
  OBVIOUS
<1> PICK rows : rows = With(old, n, row)
  OBVIOUS
<1>1. Put("destinations", rows) /\ \A d \in DOMAIN old : old[d] # row
  BY DEF CreateDestination, SameTarget
<1>2. row \in [bot : RowIds, chat : ChatNames] /\ SoundDestinations(old)
  BY DEF SoundRows
<1>3. DOMAIN old \subseteq RowIds
  BY DEF NumberedRows, Sections
<1>4. n \notin DOMAIN old
  BY <1>3, NextIdIsFree
<1>5. /\ DOMAIN rows = DOMAIN old \cup {n} /\ rows[n] = row
      /\ \A d \in DOMAIN old : rows[d] = old[d]
  BY <1>4 DEF With
<1>6. SoundDestinations(rows)
  BY <1>1, <1>2, <1>5 DEF SoundDestinations
<1> QED BY <1>1, <1>6, SoundRowsPut DEF Sections

LEMMA SoundDestinationChanged ==
  ASSUME NumberedRows(tables), SoundRows(tables), NEW d, NEW c \in ChatNames, UpdateDestination(d, c)
  PROVE  SoundRows(tables')
<1> PICK old : old = tables.destinations
  OBVIOUS
<1> PICK row : row = [bot |-> old[d].bot, chat |-> c]
  OBVIOUS
<1> PICK rows : rows = [old EXCEPT ![d].chat = c]
  OBVIOUS
<1>1. /\ Put("destinations", rows) /\ d \in DOMAIN old /\ SoundDestinations(old)
      /\ \A e \in DOMAIN old : old[e] # row
  BY DEF UpdateDestination, SameTarget, SoundRows
<1>2. old[d] \in [bot : RowIds, chat : ChatNames]
  BY <1>1 DEF SoundDestinations
<1>3. row \in [bot : RowIds, chat : ChatNames] /\ [old[d] EXCEPT !.chat = c] = row
  BY <1>2
<1>4. DOMAIN rows = DOMAIN old /\ \A e \in DOMAIN old : rows[e] = IF e = d THEN row ELSE old[e]
  BY <1>1, <1>3
<1>5. SoundDestinations(rows)
  BY <1>1, <1>3, <1>4 DEF SoundDestinations
<1> QED BY <1>1, <1>5, SoundRowsPut DEF Sections

LEMMA SoundProfileAdded ==
  ASSUME NumberedRows(tables), SoundRows(tables), NEW b \in RowIds, NEW d \in RowIds \cup {NoId},
         CreateProfile(b, d)
  PROVE  SoundRows(tables')
<1> PICK old : old = tables.send_profiles
  OBVIOUS
<1> PICK n : n = NewId(old)
  OBVIOUS
<1> PICK row : row = [bot |-> b, dest |-> d]
  OBVIOUS
<1> PICK rows : rows = With(old, n, row)
  OBVIOUS
<1>1. Put("send_profiles", rows) /\ SoundProfiles(old)
  BY DEF CreateProfile, SoundRows
<1>2. row \in [bot : RowIds, dest : RowIds \cup {NoId}]
  OBVIOUS
<1>3. \A p \in DOMAIN rows : rows[p] = row \/ (p \in DOMAIN old /\ rows[p] = old[p])
  BY DEF With
<1>4. SoundProfiles(rows)
  BY <1>1, <1>2, <1>3 DEF SoundProfiles
<1> QED BY <1>1, <1>4, SoundRowsPut DEF Sections

LEMMA SoundProfileChanged ==
  ASSUME NumberedRows(tables), SoundRows(tables), NEW p, NEW i \in RowIds, NEW d \in RowIds \cup {NoId},
         NEW given \in {[bot |-> i], [dest |-> d], [bot |-> i, dest |-> d]},
         UpdateProfile(p, given)
  PROVE  SoundRows(tables')
<1> PICK old : old = tables.send_profiles
  OBVIOUS
<1> PICK row : row = [f \in {"bot", "dest"} |-> IF f \in DOMAIN given THEN given[f] ELSE old[p][f]]
  OBVIOUS
<1> PICK rows : rows = [old EXCEPT ![p] = row]
  OBVIOUS
<1>1. Put("send_profiles", rows) /\ SoundProfiles(old) /\ p \in DOMAIN old
  BY DEF UpdateProfile, SoundRows
<1>2. old[p] \in [bot : RowIds, dest : RowIds \cup {NoId}]
  BY <1>1 DEF SoundProfiles
<1>3. row.bot \in RowIds /\ row.dest \in RowIds \cup {NoId}
  <2>1. "bot" \in DOMAIN given => given.bot = i
    OBVIOUS
  <2>2. "dest" \in DOMAIN given => given.dest = d
    OBVIOUS
  <2>3. old[p].bot \in RowIds /\ old[p].dest \in RowIds \cup {NoId}
    BY <1>2
  <2> QED BY <2>1, <2>2, <2>3
<1>4. row \in [bot : RowIds, dest : RowIds \cup {NoId}]
  BY <1>3
<1>5. SoundProfiles(rows)
  BY <1>1, <1>4 DEF SoundProfiles
<1> QED BY <1>1, <1>5, SoundRowsPut DEF Sections

\* The new version has the next number of its template.
LEMMA SoundTemplateWritten ==
  ASSUME NumberedRows(tables), SoundRows(tables), NEW i \in RowIds, NEW text \in Texts,
         WriteTemplate(i, text)
  PROVE  SoundRows(tables')
<1> PICK old : old = tables.template_versions
  OBVIOUS
<1> PICK n : n = NewId(old)
  OBVIOUS
<1> PICK number : number = LatestNumber(tables, i) + 1
  OBVIOUS
<1> PICK row : row = [of |-> i, number |-> number, text |-> text]
  OBVIOUS
<1> PICK versions : versions = With(old, n, row)
  OBVIOUS
<1> PICK templates : templates = With(tables.templates, i, text)
  OBVIOUS
<1>1. tables' = [tables EXCEPT !.templates = templates, !.template_versions = versions]
  BY DEF WriteTemplate
<1>2. /\ tables'.templates = templates /\ tables'.template_versions = versions
      /\ tables'.destinations = tables.destinations /\ tables'.send_profiles = tables.send_profiles
  BY <1>1 DEF NumberedRows, Sections
<1>3. SoundVersions(old) /\ DOMAIN old \subseteq RowIds
  BY DEF SoundRows, NumberedRows, Sections
<1>4. n \notin DOMAIN old
  BY <1>3, NextIdIsFree
<1>5. /\ DOMAIN versions = DOMAIN old \cup {n} /\ versions[n] = row
      /\ \A v \in DOMAIN old : versions[v] = old[v]
  BY <1>4 DEF With
<1>6. number \in Nat /\ \A v \in DOMAIN old : old[v].of = i => old[v].number # number
  <2>1. LatestNumber(tables, i) \in Nat /\ \A m \in NumbersOf(tables, i) : LatestNumber(tables, i) >= m
    BY VersionsAreFinite, Zenon
  <2>2. \A v \in DOMAIN old : old[v].of = i => old[v].number \in NumbersOf(tables, i)
    BY DEF NumbersOf, VersionsOf
  <2>3. \A m \in NumbersOf(tables, i) : m # number
    BY <2>1
  <2> QED BY <2>1, <2>2, <2>3
<1>7. row \in [of : RowIds, number : Nat, text : Texts]
  BY <1>6
<1>8. row.of = i /\ row.number = number
  OBVIOUS
<1>9. SoundVersions(versions)
  BY <1>3, <1>5, <1>6, <1>7, <1>8 DEF SoundVersions
<1>10. SoundTemplates(templates)
  BY DEF SoundRows, SoundTemplates, With
<1> QED BY <1>2, <1>9, <1>10 DEF SoundRows, SoundTemplates

\* What the endpoints leave is sound.
LEMMA SoundRowsStep ==
  ASSUME NumberedRows(tables), SoundRows(tables), CatalogNext PROVE SoundRows(tables')
<1>1. /\ SoundDestinations(tables.destinations) /\ SoundProfiles(tables.send_profiles)
      /\ SoundTemplates(tables.templates) /\ SoundVersions(tables.template_versions)
      /\ DOMAIN tables = Sections
  BY DEF SoundRows, SoundTemplates, NumberedRows
<1>2. CASE CreateBot
  BY <1>2, SoundRowsPut DEF CreateBot, Sections
<1>3. ASSUME NEW i, DeleteBot(i) PROVE SoundRows(tables')
  <2> PICK own : own = {d \in DOMAIN tables.destinations : tables.destinations[d].bot = i}
    OBVIOUS
  <2>1. /\ tables'.destinations = Without(tables.destinations, own)
        /\ \A s \in Sections \ {"bots", "destinations"} : tables'[s] = tables[s]
    BY <1>1, <1>3 DEF DeleteBot, Sections
  <2>2. SoundDestinations(tables'.destinations)
    BY <1>1, <2>1, WithoutSome, FewerRowsAreSound
  <2>3. /\ tables'.send_profiles = tables.send_profiles /\ tables'.templates = tables.templates
        /\ tables'.template_versions = tables.template_versions
    BY <2>1 DEF Sections
  <2> QED BY <2>2, <2>3 DEF SoundRows
<1>4. ASSUME NEW i, DeleteDestination(i) \/ DeleteProfile(i) \/ DeleteTemplate(i)
      PROVE  SoundRows(tables')
  <2>1. PICK s \in {"destinations", "send_profiles", "templates"} : Put(s, Without(tables[s], {i}))
    BY <1>4 DEF DeleteDestination, DeleteProfile, DeleteTemplate
  <2>2. /\ s = "destinations" => SoundDestinations(Without(tables[s], {i}))
        /\ s = "send_profiles" => SoundProfiles(Without(tables[s], {i}))
        /\ s = "templates" => SoundTemplates(Without(tables[s], {i}))
    BY <1>1, WithoutSome, FewerRowsAreSound
  <2> QED BY <2>1, <2>2, SoundRowsPut DEF Sections
<1>5. CASE DestinationCalls
  BY <1>4, <1>5, SoundDestinationAdded, SoundDestinationChanged DEF DestinationCalls
<1>6. CASE ProfileCalls
  BY <1>4, <1>6, SoundProfileAdded, SoundProfileChanged DEF ProfileCalls
<1>7. CASE TemplateCalls
  <2>1. ASSUME NEW text \in Texts, CreateTemplate(text) PROVE SoundRows(tables')
    <3>1. NewId(tables.templates) \in RowIds
      BY <2>1, FirstId DEF CreateTemplate
    <3> QED BY <2>1, <3>1, SoundTemplateWritten DEF CreateTemplate
  <2>2. ASSUME NEW text \in Texts, NEW i \in RowIds, UpdateTemplate(i, text) PROVE SoundRows(tables')
    BY <2>2, SoundTemplateWritten DEF UpdateTemplate
  <2>3. ASSUME NEW i \in RowIds, NEW v \in RowIds, RollbackTemplate(i, v) PROVE SoundRows(tables')
    <3>1. tables.template_versions[v].text \in Texts
      BY <1>1, <2>3 DEF RollbackTemplate, VersionsOf, SoundVersions
    <3> QED BY <2>3, <3>1, SoundTemplateWritten DEF RollbackTemplate
  <2> QED BY <1>4, <1>7, <2>1, <2>2, <2>3 DEF TemplateCalls
<1> QED BY <1>2, <1>3, <1>5, <1>6, <1>7 DEF CatalogNext, BotCalls

\* Snapshots hold sound rows, and a restore mixes sections only, never their rows.
SoundSaved ==
  /\ SoundRows(tables)
  /\ \A k \in 1..Len(saved) : SoundRows(saved[k].holds)
  /\ restoring # NotRestoring => SoundRows(restoring.from.holds)

LEMMA SoundSavedStep ==
  ASSUME RestoreInv, SoundSaved, [RestoreNext]_restoreVars PROVE SoundSaved'
<1>1. /\ NumberedRows(tables) /\ SoundRows(tables) /\ SavedSound
      /\ \A k \in 1..Len(saved) : SoundRows(saved[k].holds)
      /\ Len(saved) \in Nat /\ DOMAIN saved = 1..Len(saved)
  BY SavedIsNumbered DEF RestoreInv, CatalogInv, SoundSaved
<1>2. ASSUME NEW snap, saved' = Append(saved, snap), SoundRows(snap.holds)
      PROVE  \A k \in 1..Len(saved') : SoundRows(saved'[k].holds)
  <2>1. PICK S : saved \in Seq(S)
    BY <1>1 DEF SavedSound
  <2>2. saved \in Seq(S \cup {snap})
    BY <2>1
  <2>3. /\ Len(saved') = Len(saved) + 1 /\ saved'[Len(saved) + 1] = snap
        /\ \A k \in 1..Len(saved) : saved'[k] = saved[k]
    BY <1>2, <2>2
  <2>4. \A k \in 1..Len(saved') : k \in 1..Len(saved) \/ k = Len(saved) + 1
    BY <1>1, <2>3
  <2> QED BY <1>1, <1>2, <2>3, <2>4
<1>3. CASE Edit
  <2>1. SoundRows(tables')
    BY <1>1, <1>3, SoundRowsStep DEF Edit
  <2> QED BY <1>3, <2>1 DEF Edit, LockFree, SoundSaved
<1>4. ASSUME NEW requested \in BOOLEAN, NEW answer \in RepoAnswers, Export(requested, answer)
      PROVE  SoundSaved'
  <2> PICK snap : snap = [holds |-> tables, status |-> "succeeded",
                          secrets |-> requested \/ Privacy(answer) = "private"]
    OBVIOUS
  <2>1. saved' = Append(saved, snap) /\ restoring = NotRestoring /\ UNCHANGED <<tables, restoring>>
    BY <1>4 DEF Export, LockFree, catalogVars
  <2>2. snap.holds = tables
    OBVIOUS
  <2>3. \A k \in 1..Len(saved') : SoundRows(saved'[k].holds)
    BY <1>1, <1>2, <2>1, <2>2
  <2> QED BY <1>1, <2>1, <2>3 DEF SoundSaved
<1>5. ASSUME NEW k \in 1..MaxSaved, NEW chosen \in SectionChoices, RestoreReads(k, chosen)
      PROVE  SoundSaved'
  <2>1. k \in DOMAIN saved /\ UNCHANGED <<tables, saved>> /\ restoring'.from = saved[k]
    BY <1>5 DEF RestoreReads, catalogVars
  <2> QED BY <1>1, <2>1 DEF SoundSaved
<1>6. CASE RestoreApplies
  <2> PICK snap : snap = [holds |-> restoring.copy, secrets |-> TRUE, status |-> "pre_restore"]
    OBVIOUS
  <2> PICK from : from = restoring.from
    OBVIOUS
  <2>1. /\ restoring # NotRestoring /\ SoundRows(from.holds)
        /\ restoring.copy = tables /\ restoring.secs \subseteq Sections
    BY <1>6 DEF RestoreApplies, NotRestoring, SoundSaved, RestoreInv, RestoreHoldsTables
  <2>2. /\ tables' = [s \in Sections |-> IF s \in restoring.secs THEN from.holds[s] ELSE tables[s]]
        /\ saved' = Append(saved, snap) /\ restoring' = NotRestoring /\ snap.holds = tables
    BY <1>6, <2>1 DEF RestoreApplies, Replaced
  <2>3. \A s \in Sections : tables'[s] = from.holds[s] \/ tables'[s] = tables[s]
    BY <2>2
  <2>4. /\ tables'.destinations = from.holds.destinations \/ tables'.destinations = tables.destinations
        /\ tables'.send_profiles = from.holds.send_profiles \/ tables'.send_profiles = tables.send_profiles
        /\ tables'.template_versions = from.holds.template_versions
             \/ tables'.template_versions = tables.template_versions
        /\ tables'.templates = from.holds.templates \/ tables'.templates = tables.templates
    BY <2>3 DEF Sections
  <2>5. SoundRows(tables')
    BY <1>1, <2>1, <2>4 DEF SoundRows
  <2>6. \A k \in 1..Len(saved') : SoundRows(saved'[k].holds)
    BY <1>1, <1>2, <2>2
  <2> QED BY <2>2, <2>5, <2>6 DEF SoundSaved
<1>7. CASE RestoreRefused \/ RestoreDies \/ UNCHANGED restoreVars
  <2>1. UNCHANGED <<tables, saved>> /\ (restoring' = NotRestoring \/ restoring' = restoring)
    BY <1>7 DEF RestoreRefused, RestoreDies, restoreVars, catalogVars
  <2> QED BY <2>1 DEF SoundSaved
<1> QED BY <1>3, <1>4, <1>5, <1>6, <1>7 DEF RestoreNext, ApplyRestore

(***************************************************************************)
(* Whatever the endpoints delete and number anew and whatever sections are *)
(* restored, rows keep their ids and columns, no two destinations of a bot *)
(* name one chat, and no two versions of a template bear one number.       *)
(***************************************************************************)
THEOREM CatalogTypeCorrect == RestoreSpec => []CatalogTypeOK
<1>1. RestoreInit => SoundSaved
  <2> SUFFICES ASSUME RestoreInit PROVE SoundSaved
    OBVIOUS
  <2>1. tables \in Starts /\ saved = <<>> /\ restoring = NotRestoring
    BY DEF RestoreInit, CatalogInit
  <2>2. SoundRows(tables) /\ Len(saved) = 0
    BY <2>1, StartsAssumption
  <2> QED BY <2>1, <2>2 DEF SoundSaved
<1>2. RestoreInv /\ SoundSaved => CatalogTypeOK
  BY DEF RestoreInv, CatalogInv, SoundSaved, CatalogTypeOK
<1> QED BY <1>1, <1>2, RestoreInvariant, SoundSavedStep, PTL DEF RestoreSpec

-----------------------------------------------------------------------------
(* Scans, update by update.                                                 *)

IsScan(after, rows, saw) ==
  after = [n \in 0..saw |-> IF n = 0 THEN rows ELSE Recommend(after[n - 1], seen[n])]

\* The least number of updates that could not be gone through would have one before it.
LEMMA ScanExists ==
  ASSUME NEW rows, NEW saw \in Nat PROVE \E after : IsScan(after, rows, saw)
<1> DEFINE Stuck == {k \in Nat : ~\E after : IsScan(after, rows, k)}
<1> SUFFICES ASSUME saw \in Stuck PROVE FALSE
  OBVIOUS
<1>1. PICK k \in Stuck : \A j \in Stuck : ~(<<j, k>> \in OpToRel(<, Nat))
  BY NatLessThanWellFounded, WFMin
<1>2. \A j \in Nat : j < k => j \notin Stuck
  BY <1>1 DEF OpToRel
<1>3. CASE k = 0
  <2> DEFINE after == [n \in 0..0 |-> rows]
  <2>1. IsScan(after, rows, 0)
    BY DEF IsScan
  <2> QED BY <1>3, <2>1
<1>4. CASE k # 0
  <2>1. k - 1 \in Nat /\ k - 1 < k
    BY <1>4
  <2>2. PICK before : IsScan(before, rows, k - 1)
    BY <1>2, <2>1
  <2> DEFINE after == [n \in 0..k |-> IF n = k THEN Recommend(before[k - 1], seen[k]) ELSE before[n]]
  <2>3. \A n \in 0..(k - 1) : after[n] = before[n]
    BY <2>1
  <2>4. \A n \in 0..(k - 1) : before[n] = IF n = 0 THEN rows ELSE Recommend(before[n - 1], seen[n])
    BY <2>2 DEF IsScan
  <2>5. ASSUME NEW n \in 0..k
        PROVE  after[n] = IF n = 0 THEN rows ELSE Recommend(after[n - 1], seen[n])
    <3>1. CASE n = k
      BY <1>4, <2>1, <2>3, <3>1
    <3>2. CASE n # k
      <4>1. n \in 0..(k - 1) /\ (n # 0 => n - 1 \in 0..(k - 1))
        BY <3>2
      <4> QED BY <2>3, <2>4, <4>1
    <3> QED BY <3>1, <3>2
  <2> HIDE DEF after
  <2>6. after = [n \in 0..k |-> after[n]]
    BY DEF after
  <2>7. IsScan(after, rows, k)
    BY <2>5, <2>6 DEF IsScan
  <2> QED BY <2>7
<1> QED BY <1>3, <1>4

LEMMA ScanUnfolds ==
  ASSUME NEW rows, NEW saw \in Nat
  PROVE  \E after : /\ Scanned(rows, saw) = after[saw] /\ after[0] = rows
                    /\ \A n \in 1..saw : after[n] = Recommend(after[n - 1], seen[n])
<1> DEFINE after == CHOOSE f : f = [n \in 0..saw |-> IF n = 0 THEN rows ELSE Recommend(f[n - 1], seen[n])]
<1>1. Scanned(rows, saw) = after[saw]
  BY DEF Scanned
<1>2. IsScan(after, rows, saw)
  BY ScanExists DEF IsScan
<1> HIDE DEF after
<1>3. after[0] = rows /\ \A n \in 1..saw : after[n] = Recommend(after[n - 1], seen[n])
  BY <1>2 DEF IsScan
<1> QED BY <1>1, <1>3

-----------------------------------------------------------------------------
(* What scans keep.                                                         *)

\* A scan may bring an old recommendation up to date, and add open ones of chats that had none.
Extends(rows, old) ==
  /\ rows \in Seq(Rec) /\ Len(old) <= Len(rows)
  /\ \A i \in 1..Len(old) : /\ rows[i].kind = old[i].kind /\ rows[i].chat = old[i].chat
                            /\ rows[i].status = old[i].status
  /\ \A i \in 1..Len(rows) : i > Len(old) => rows[i].status = "open"
  /\ \A i, j \in 1..Len(rows) :
       (i > Len(old) \/ j > Len(old)) /\ i # j
         /\ rows[i].status \in Actionable /\ rows[j].status \in Actionable
         => rows[i].kind # rows[j].kind \/ rows[i].chat # rows[j].chat

\* A recommendation names a destination of its chat, unless that destination went away.
Fits(r) ==
  \/ r.dest = 0 \/ r.dest \in reused \/ dests[r.dest] = NoDest
  \/ dests[r.dest].chat = r.chat

AllFit(rows) == \A i \in 1..Len(rows) : Fits(rows[i])

LEMMA LikeIsFinite ==
  ASSUME NEW rows \in Seq(Rec), NEW new, Like(rows, new) # {}
  PROVE  /\ Max(Like(rows, new)) \in 1..Len(rows)
         /\ rows[Max(Like(rows, new))].status \in Actionable
         /\ rows[Max(Like(rows, new))].kind = new.kind
         /\ rows[Max(Like(rows, new))].chat = new.chat
<1> DEFINE L == Like(rows, new)
<1>1. L \subseteq 1..Len(rows) /\ Len(rows) \in Nat
  BY DEF Like
<1>2. IsFiniteSet(1..Len(rows))
  BY <1>1, FS_Interval
<1>3. IsFiniteSet(L) /\ L \in SUBSET Int /\ L # {}
  BY <1>1, <1>2, FS_Subset
<1> HIDE DEF L
<1>4. Max(L) \in L
  BY <1>3, MaxIsLargest
<1> QED BY <1>1, <1>4 DEF L, Like

LEMMA CreateOnceExtends ==
  ASSUME NEW old \in Seq(Rec), NEW rows, Extends(rows, old), AllFit(rows),
         NEW new \in Rec, new.status = "open", Fits(new)
  PROVE  Extends(CreateOnce(rows, new), old) /\ AllFit(CreateOnce(rows, new))
<1> PICK L : L = Like(rows, new)
  OBVIOUS
<1>0. rows \in Seq(Rec) /\ Len(rows) \in Nat /\ Len(old) \in Nat /\ Len(old) <= Len(rows)
  BY DEF Extends
<1>1. CASE L = {}
  <2> PICK more : more = Append(rows, new)
    OBVIOUS
  <2>1. CreateOnce(rows, new) = more
    BY <1>1 DEF CreateOnce
  <2>2. /\ more \in Seq(Rec) /\ Len(more) = Len(rows) + 1 /\ more[Len(rows) + 1] = new
        /\ \A i \in 1..Len(rows) : more[i] = rows[i]
    BY <1>0
  <2>3. \A i \in 1..Len(more) : i \in 1..Len(rows) \/ (i = Len(rows) + 1 /\ i > Len(old))
    BY <1>0, <2>2
  <2>4. AllFit(more)
    BY <2>2, <2>3 DEF AllFit
  <2>5. \A i \in 1..Len(rows) :
          rows[i].status \in Actionable => rows[i].kind # new.kind \/ rows[i].chat # new.chat
    BY <1>0, <1>1 DEF Like
  <2>6. ASSUME NEW i \in 1..Len(more), NEW j \in 1..Len(more), i > Len(old) \/ j > Len(old), i # j,
               more[i].status \in Actionable, more[j].status \in Actionable
        PROVE  more[i].kind # more[j].kind \/ more[i].chat # more[j].chat
    <3>1. CASE i \in 1..Len(rows) /\ j \in 1..Len(rows)
      BY <2>2, <2>6, <3>1 DEF Extends
    <3>2. CASE i = Len(rows) + 1 /\ j \in 1..Len(rows)
      BY <2>2, <2>5, <2>6, <3>2
    <3>3. CASE j = Len(rows) + 1 /\ i \in 1..Len(rows)
      BY <2>2, <2>5, <2>6, <3>3
    <3> QED BY <2>3, <2>6, <3>1, <3>2, <3>3
  <2>7. \A i \in 1..Len(more) : i > Len(old) => more[i].status = "open"
    BY <2>2, <2>3 DEF Extends
  <2>8. \A i \in 1..Len(old) : /\ more[i].kind = old[i].kind /\ more[i].chat = old[i].chat
                               /\ more[i].status = old[i].status
    BY <1>0, <2>2 DEF Extends
  <2>9. Extends(more, old)
    <3>1. more \in Seq(Rec) /\ Len(old) <= Len(more)
      BY <1>0, <2>2
    <3>2. \A i, j \in 1..Len(more) :
            (i > Len(old) \/ j > Len(old)) /\ i # j
              /\ more[i].status \in Actionable /\ more[j].status \in Actionable
              => more[i].kind # more[j].kind \/ more[i].chat # more[j].chat
      BY <2>6
    <3> QED BY <3>1, <3>2, <2>7, <2>8 DEF Extends
  <2> QED BY <2>1, <2>4, <2>9
<1>2. CASE L # {}
  <2>a. PICK k : k = Max(L)
    OBVIOUS
  <2>1. k \in 1..Len(rows) /\ rows[k].status \in Actionable /\ rows[k].kind = new.kind
          /\ rows[k].chat = new.chat
    BY <1>0, <1>2, <2>a, LikeIsFinite
  <2>b. PICK r : r = [new EXCEPT !.status = rows[k].status]
    OBVIOUS
  <2>c. PICK more : more = [rows EXCEPT ![k] = r]
    OBVIOUS
  <2>2. CreateOnce(rows, new) = more
    BY <1>2, <2>a, <2>b, <2>c DEF CreateOnce
  <2>3. /\ r \in Rec /\ r.kind = rows[k].kind /\ r.chat = rows[k].chat /\ r.status = rows[k].status
        /\ r.dest = new.dest /\ r.chat = new.chat
    BY <2>1, <2>b DEF Rec, Actionable
  <2>4. /\ more \in Seq(Rec) /\ Len(more) = Len(rows) /\ more[k] = r
        /\ \A i \in 1..Len(rows) : i # k => more[i] = rows[i]
    BY <1>0, <2>1, <2>3, <2>c
  <2>5. \A i \in 1..Len(rows) : /\ more[i].kind = rows[i].kind /\ more[i].chat = rows[i].chat
                                /\ more[i].status = rows[i].status
    BY <2>3, <2>4
  <2>6. AllFit(more)
    <3>1. Fits(r)
      BY <2>3 DEF Fits
    <3> QED BY <2>4, <3>1 DEF AllFit
  <2>7. Extends(more, old)
    BY <1>0, <2>4, <2>5, SMTT(20) DEF Extends
  <2> QED BY <2>2, <2>6, <2>7
<1> QED BY <1>1, <1>2

LEMMA RecommendExtends ==
  ASSUME dests \in [DestIds -> Dest \cup {NoDest}],
         NEW old \in Seq(Rec), NEW rows, Extends(rows, old), AllFit(rows),
         NEW u \in [chat : Chats, title : Titles]
  PROVE  Extends(Recommend(rows, u), old) /\ AllFit(Recommend(rows, u))
<1> PICK there : there = DestOf(u.chat)
  OBVIOUS
<1> PICK d : d = IF there = {} THEN 0 ELSE CHOOSE x \in there : TRUE
  OBVIOUS
<1> PICK new : new = [kind |-> IF d = 0 THEN "create" ELSE "update", chat |-> u.chat,
                      title |-> u.title, dest |-> d, status |-> "open"]
  OBVIOUS
<1>1. d = 0 \/ (d \in DestIds /\ dests[d].chat = u.chat)
  BY DEF DestOf, Present
<1>2. d \in 0..MaxDests
  <2>1. MaxDests \in Nat
    BY OpsAssumption
  <2>2. d = 0 \/ d \in DestIds
    BY <1>1
  <2>3. DestIds \subseteq 0..MaxDests /\ 0 \in 0..MaxDests
    BY <2>1 DEF DestIds
  <2> QED BY <2>2, <2>3
<1>3. new \in Rec /\ new.status = "open" /\ new.dest = d /\ new.chat = u.chat
  BY <1>2 DEF Rec, Actionable
<1>4. Fits(new)
  BY <1>1, <1>3 DEF Fits
<1>5. Recommend(rows, u) = rows \/ Recommend(rows, u) = CreateOnce(rows, new)
  BY DEF Recommend
<1> QED BY <1>3, <1>4, <1>5, CreateOnceExtends

LEMMA ScannedExtends ==
  ASSUME dests \in [DestIds -> Dest \cup {NoDest}], NEW old \in Seq(Rec), AllFit(old),
         NEW saw \in Nat, \A n \in 1..saw : seen[n] \in [chat : Chats, title : Titles]
  PROVE  Extends(Scanned(old, saw), old) /\ AllFit(Scanned(old, saw))
<1>1. PICK after : /\ Scanned(old, saw) = after[saw] /\ after[0] = old
                   /\ \A n \in 1..saw : after[n] = Recommend(after[n - 1], seen[n])
  BY ScanUnfolds
<1> DEFINE Bad == {n \in Nat : n <= saw /\ ~(Extends(after[n], old) /\ AllFit(after[n]))}
<1> SUFFICES ASSUME Bad # {} PROVE FALSE
  BY <1>1
<1>2. PICK n \in Bad : \A m \in Bad : ~(<<m, n>> \in OpToRel(<, Nat))
  BY NatLessThanWellFounded, WFMin
<1>3. CASE n = 0
  <2>1. Extends(old, old)
    BY DEF Extends
  <2> QED BY <1>1, <1>3, <2>1
<1>4. CASE n # 0
  <2>1. n \in 1..saw /\ n - 1 \in Nat /\ n - 1 < n /\ n - 1 <= saw
    BY <1>4
  <2>2. n - 1 \notin Bad
    BY <1>2, <2>1 DEF OpToRel
  <2> PICK rows : rows = after[n - 1]
    OBVIOUS
  <2>3. Extends(rows, old) /\ AllFit(rows)
    BY <2>1, <2>2
  <2> PICK u : u = seen[n]
    OBVIOUS
  <2>4. after[n] = Recommend(rows, u) /\ u \in [chat : Chats, title : Titles]
    BY <1>1, <2>1
  <2>5. Extends(Recommend(rows, u), old) /\ AllFit(Recommend(rows, u))
    BY <2>3, <2>4, RecommendExtends
  <2> QED BY <2>4, <2>5
<1> QED BY <1>3, <1>4

-----------------------------------------------------------------------------
(* The inductive invariant.                                                 *)

\* While a recommendation is open, a status was written over for each of its applications.
AppliesCounted ==
  /\ \A i \in DOMAIN recs : recs[i].status # "applied" => applies[i] <= overwrites[i]
  /\ \A i \in RecIds : i \notin DOMAIN recs => applies[i] = 0 /\ overwrites[i] = 0

\* A request writes what it has read.
RequestsSound ==
  \A a \in Askers :
    /\ asks[a].op \in {"preview", "dismiss"} => asks[a].rec # 0
    /\ asks[a].op = "apply" /\ asks[a].rec # 0 => asks[a].read \in Rec
    /\ asks[a].op \in Settings => Allowed(asks[a].was, asks[a].op)

\* A scan has seen updates that are recorded.
ScansLookBack == \A a \in Askers : asks[a].saw <= Len(seen)

RecommendationsFit ==
  /\ AllFit(recs)
  /\ \A a \in Askers : asks[a].read # NoDest => Fits(asks[a].read)

OpsInv ==
  /\ OpsTypeOK /\ RecommendationsExplained /\ AppliesCounted /\ RequestsSound /\ ScansLookBack
  /\ RecommendationsFit

LEMMA NoDestIsNone == NoDest \notin Rec /\ NoDest \notin Dest
<1>1. \A r \in Rec : DOMAIN r = {"kind", "chat", "title", "dest", "status"}
  BY DEF Rec
<1>2. DOMAIN NoDest = {"chat", "title"}
  BY DEF NoDest
<1>3. NoDest \notin Rec
  BY <1>1, <1>2
<1>4. NoDest \notin Dest
  BY OpsAssumption DEF NoDest, Dest
<1> QED BY <1>3, <1>4

LEMMA NoRequestIsOne == NoOpsRequest \in OpsRequest
<1>1. Len(Feed) \in Nat /\ MaxRecs \in Nat
  BY OpsAssumption
<1>2. 0 \in 0..Len(Feed) /\ 0 \in 0..MaxRecs
  BY <1>1
<1>3. NewRule \in Rule
  BY DEF NewRule, Rule
<1> QED BY <1>2, <1>3 DEF NoOpsRequest, OpsRequest

LEMMA OpsInitHolds == OpsInit => OpsInv
<1> SUFFICES ASSUME OpsInit PROVE OpsInv
  OBVIOUS
<1>1. /\ seen = <<>> /\ recs = <<>> /\ dests = [d \in DestIds |-> NoDest] /\ rule = NewRule
      /\ asks = [a \in Askers |-> NoOpsRequest]
      /\ applies = [i \in RecIds |-> 0] /\ overwrites = [i \in RecIds |-> 0]
      /\ reused = {} /\ raced = FALSE /\ edits = 0
  BY DEF OpsInit
<1>2. MaxRecs \in Nat /\ MaxEdits \in Nat /\ Feed \in Seq([chat : Chats, title : Titles])
  BY OpsAssumption
<1>3. OpsTypeOK
  <2>1. seen \in Seq([chat : Chats, title : Titles]) /\ IsPrefix(seen, Feed)
    BY <1>1, <1>2 DEF IsPrefix
  <2>2. recs \in Seq(Rec) /\ Len(recs) = 0
    BY <1>1
  <2>3. rule \in Rule /\ edits \in 0..MaxEdits
    BY <1>1, <1>2 DEF NewRule, Rule
  <2>4. asks \in [Askers -> OpsRequest] /\ \A a \in Askers : asks[a].rec = 0
    BY <1>1, NoRequestIsOne DEF NoOpsRequest
  <2>5. /\ Len(recs) <= MaxRecs /\ applies \in [RecIds -> Nat] /\ overwrites \in [RecIds -> Nat]
        /\ reused \subseteq DestIds /\ raced \in BOOLEAN
    <3>1. Len(recs) <= MaxRecs
      BY <1>2, <2>2
    <3>2. applies \in [RecIds -> Nat] /\ overwrites \in [RecIds -> Nat]
      BY <1>1
    <3>3. reused \subseteq DestIds /\ raced \in BOOLEAN
      BY <1>1
    <3> QED BY <3>1, <3>2, <3>3
  <2>6. dests \in [DestIds -> Dest \cup {NoDest}]
    BY <1>1
  <2> QED BY <2>1, <2>2, <2>3, <2>4, <2>5, <2>6 DEF OpsTypeOK
<1>4. RecommendationsExplained
  BY <1>1 DEF RecommendationsExplained, OneOpenPerChat, AppliedOnceUnlessOverwritten,
    AutomationUnderLowRisk, NewRule
<1>5. AppliesCounted /\ RequestsSound
  BY <1>1 DEF AppliesCounted, RequestsSound, NoOpsRequest, Settings
<1>6. RecommendationsFit
  BY <1>1 DEF RecommendationsFit, AllFit, NoOpsRequest
<1>7. ScansLookBack
  BY <1>1 DEF ScansLookBack, NoOpsRequest
<1> QED BY <1>3, <1>4, <1>5, <1>6, <1>7 DEF OpsInv

-----------------------------------------------------------------------------
(* What steps have in common.                                               *)

AskBecomes(a, q) == asks' = [asks EXCEPT ![a] = q]

LEMMA RequestChanges ==
  ASSUME OpsInv, NEW a \in Askers, NEW q \in OpsRequest, AskBecomes(a, q),
         q.op \in {"preview", "dismiss"} => q.rec # 0,
         q.op = "apply" /\ q.rec # 0 => q.read \in Rec,
         q.op \in Settings => Allowed(q.was, q.op)
  PROVE  /\ RequestsSound' /\ asks' \in [Askers -> OpsRequest]
         /\ asks'[a] = q /\ \A b \in Askers : b # a => asks'[b] = asks[b]
<1>1. asks \in [Askers -> OpsRequest]
  BY DEF OpsInv, OpsTypeOK
<1>2. /\ asks' \in [Askers -> OpsRequest]
      /\ asks'[a] = q /\ \A b \in Askers : b # a => asks'[b] = asks[b]
  BY <1>1 DEF AskBecomes
<1>3. RequestsSound'
  <2> SUFFICES ASSUME NEW b \in Askers
               PROVE  /\ asks'[b].op \in {"preview", "dismiss"} => asks'[b].rec # 0
                      /\ asks'[b].op = "apply" /\ asks'[b].rec # 0 => asks'[b].read \in Rec
                      /\ asks'[b].op \in Settings => Allowed(asks'[b].was, asks'[b].op)
    BY DEF RequestsSound, Allowed, Changed
  <2>1. CASE b = a
    BY <1>2, <2>1
  <2>2. CASE b # a
    BY <1>2, <2>2 DEF OpsInv, RequestsSound
  <2> QED BY <2>1, <2>2
<1> QED BY <1>2, <1>3

\* A request over, or one that reads, changes nothing but itself.
LEMMA OnlyTheRequest ==
  ASSUME OpsInv, NEW a \in Askers, NEW q \in OpsRequest, AskBecomes(a, q),
         q.op \in {"preview", "dismiss"} => q.rec # 0,
         q.op = "apply" /\ q.rec # 0 => q.read \in Rec,
         q.op \in Settings => Allowed(q.was, q.op),
         q.rec \in {0} \cup DOMAIN recs, q.saw <= Len(seen),
         q.read # NoDest => Fits(q.read),
         UNCHANGED <<seen, dests, recs, rule, applies, overwrites, reused, raced>>,
         edits' \in 0..MaxEdits
  PROVE  OpsInv'
<1>1. /\ RequestsSound' /\ asks' \in [Askers -> OpsRequest]
      /\ asks'[a] = q /\ \A b \in Askers : b # a => asks'[b] = asks[b]
  BY RequestChanges
<1>2. \A b \in Askers : asks'[b].rec \in {0} \cup DOMAIN recs
  BY <1>1 DEF OpsInv, OpsTypeOK
<1>3. OpsTypeOK'
  BY <1>1, <1>2 DEF OpsInv, OpsTypeOK
<1>4. RecommendationsExplained'
  BY DEF OpsInv, RecommendationsExplained, OneOpenPerChat, AppliedOnceUnlessOverwritten,
    AutomationUnderLowRisk, Like
<1>5. AppliesCounted'
  BY DEF OpsInv, AppliesCounted
<1>6. RecommendationsFit'
  <2>1. AllFit(recs)'
    BY DEF OpsInv, RecommendationsFit, AllFit, Fits
  <2>2. ASSUME NEW b \in Askers, asks'[b].read # NoDest PROVE Fits(asks[b].read)'
    <3>1. asks'[b].read = q.read \/ asks'[b].read = asks[b].read
      BY <1>1
    <3>2. Fits(asks'[b].read)
      BY <1>1, <2>2 DEF OpsInv, RecommendationsFit
    <3> QED BY <3>2 DEF Fits
  <2> QED BY <2>1, <2>2 DEF RecommendationsFit
<1>7. ScansLookBack'
  BY <1>1 DEF OpsInv, ScansLookBack
<1> QED BY <1>1, <1>3, <1>4, <1>5, <1>6, <1>7 DEF OpsInv

\* The same in terms of pairs.
LEMMA OneOpenInPairs ==
  OneOpenPerChat <=>
    \A i, j \in DOMAIN recs :
      i # j /\ recs[i].status \in Actionable /\ recs[j].status \in Actionable
        /\ recs[j].kind = recs[i].kind /\ recs[j].chat = recs[i].chat
        => overwrites[i] + overwrites[j] > 0
BY DEF OneOpenPerChat, Like

\* A destination that a recommendation names is given up to another chat only through its id.
DestsKept ==
  /\ reused \subseteq reused'
  /\ \A d \in DestIds : \/ dests'[d] = NoDest \/ d \in reused' \/ (dests[d] = NoDest /\ d \notin Named)
                        \/ (dests[d] # NoDest /\ dests'[d].chat = dests[d].chat)

ChatsKept == \A d \in Present : dests'[d].chat \in {dests[d].chat, NoChat} \/ d \in reused

LEMMA FitStays ==
  ASSUME DestsKept, NEW r \in Rec, r.dest \in Named, Fits(r) PROVE Fits(r)'
<1>1. MaxDests \in Nat
  BY OpsAssumption
<1>2. r.dest = 0 \/ r.dest \in DestIds
  BY <1>1 DEF Rec, DestIds
<1>3. CASE r.dest = 0
  BY <1>3 DEF Fits
<1>4. CASE r.dest \in DestIds
  BY <1>4 DEF Fits, DestsKept
<1> QED BY <1>2, <1>3, <1>4
LEMMA RecommendationsStillFit ==
  ASSUME OpsInv, DestsKept, Len(recs') = Len(recs),
         \A i \in 1..Len(recs) : recs'[i].dest = recs[i].dest /\ recs'[i].chat = recs[i].chat,
         \A b \in Askers : asks'[b].read \in {NoDest, asks[b].read}
  PROVE  RecommendationsFit'
<1>0. recs \in Seq(Rec) /\ asks \in [Askers -> OpsRequest]
  BY DEF OpsInv, OpsTypeOK
<1>1. ASSUME NEW i \in 1..Len(recs) PROVE Fits(recs[i])'
  <2>1. recs[i] \in Rec
    BY <1>0
  <2>2. recs[i].dest \in Named
    BY <1>0 DEF Named
  <2>3. Fits(recs[i])
    BY DEF OpsInv, RecommendationsFit, AllFit
  <2>a. PICK r \in Rec : r = recs[i]
    BY <2>1
  <2>4. Fits(r)'
    BY <2>2, <2>3, <2>a, FitStays
  <2>5. r.dest = recs'[i].dest /\ r.chat = recs'[i].chat
    BY <2>a
  <2> QED BY <2>4, <2>5 DEF Fits
<1>2. ASSUME NEW b \in Askers, asks'[b].read # NoDest PROVE Fits(asks[b].read)'
  <2>1. asks'[b].read = asks[b].read /\ asks[b].read # NoDest
    BY <1>2
  <2>2. asks[b].read \in Rec
    BY <1>0, <2>1 DEF OpsRequest
  <2>3. asks[b].read.dest \in Named
    BY <2>1 DEF Named
  <2>4. Fits(asks[b].read)
    BY <2>1 DEF OpsInv, RecommendationsFit
  <2>a. PICK r \in Rec : r = asks[b].read
    BY <2>2
  <2>5. Fits(r)'
    BY <2>3, <2>4, <2>a, FitStays
  <2>6. r = asks'[b].read
    BY <2>1, <2>a
  <2> QED BY <2>5, <2>6 DEF Fits
<1>3. AllFit(recs)'
  BY <1>1 DEF AllFit
<1> QED BY <1>2, <1>3 DEF RecommendationsFit

-----------------------------------------------------------------------------
(* Changes of destinations.                                                 *)

LEMMA NextDestIsFree == NextDest \in DestIds => NextDest \notin Present
<1> DEFINE S == Present \cup {0}
<1>1. MaxDests \in Nat
  BY OpsAssumption
<1>2. Present \subseteq DestIds /\ DestIds \subseteq Int
  BY <1>1 DEF Present, DestIds
<1>3. IsFiniteSet(Present)
  <2>1. IsFiniteSet(1..MaxDests)
    BY <1>1, FS_Interval
  <2> QED BY <1>2, <2>1, FS_Subset DEF DestIds
<1>4. S \in SUBSET Int /\ S # {} /\ IsFiniteSet(S)
  BY <1>2, <1>3, FS_AddElement
<1>5. Max(S) \in S /\ \A y \in S : Max(S) >= y
  BY <1>4, MaxIsLargest
<1> PICK m \in Int : m = Max(S)
  BY <1>4, <1>5
<1>6. NextDest = 1 + m
  BY DEF NextDest
<1>7. \A d \in Present : m >= d /\ d \in Int
  BY <1>2, <1>5
<1> HIDE DEF S
<1> QED BY <1>6, <1>7

LEMMA CreateKeeps ==
  ASSUME OpsInv, NEW c \in Chats, NEW t \in Titles, Create(c, t)
  PROVE  /\ dests' \in [DestIds -> Dest \cup {NoDest}] /\ reused' \subseteq DestIds
         /\ DestsKept /\ ChatsKept
<1>a. PICK n : n = NextDest
  OBVIOUS
<1>b. PICK new : new = [chat |-> c, title |-> t]
  OBVIOUS
<1>1. /\ n \in DestIds /\ n \notin Present
      /\ dests' = [dests EXCEPT ![n] = new] /\ reused' = reused \cup ({n} \cap Named)
  BY <1>a, <1>b, NextDestIsFree DEF Create
<1>2. dests \in [DestIds -> Dest \cup {NoDest}] /\ reused \subseteq DestIds
  BY DEF OpsInv, OpsTypeOK
<1>3. new \in Dest
  BY <1>b DEF Dest
<1>4. /\ dests' \in [DestIds -> Dest \cup {NoDest}] /\ reused' \subseteq DestIds
      /\ \A d \in DestIds : d # n => dests'[d] = dests[d]
      /\ dests[n] = NoDest
  BY <1>1, <1>2, <1>3 DEF Present
<1>5. DestsKept
  <2>1. \A d \in DestIds : d # n => dests'[d] = NoDest \/ (dests[d] # NoDest /\ dests'[d].chat = dests[d].chat)
    BY <1>4
  <2>2. n \in reused' \/ n \notin Named
    BY <1>1
  <2> QED BY <1>1, <1>4, <2>1, <2>2 DEF DestsKept
<1>6. ChatsKept
  BY <1>1, <1>4 DEF ChatsKept, Present
<1> QED BY <1>4, <1>5, <1>6

\* What one destination becomes.
LEMMA DestinationChanged ==
  ASSUME OpsInv, NEW d \in Present, NEW new \in Dest \cup {NoDest},
         new.chat \in {dests[d].chat, NoChat} \/ d \in reused,
         new = NoDest \/ new.chat = dests[d].chat \/ d \in reused,
         dests' = [dests EXCEPT ![d] = new], UNCHANGED reused
  PROVE  /\ dests' \in [DestIds -> Dest \cup {NoDest}] /\ reused' \subseteq DestIds
         /\ DestsKept /\ ChatsKept
<1>1. dests \in [DestIds -> Dest \cup {NoDest}] /\ reused \subseteq DestIds
  BY DEF OpsInv, OpsTypeOK
<1>2. d \in DestIds /\ dests[d] # NoDest
  BY DEF Present
<1>3. /\ dests' \in [DestIds -> Dest \cup {NoDest}] /\ dests'[d] = new
      /\ \A x \in DestIds : x # d => dests'[x] = dests[x]
  BY <1>1, <1>2
<1>4. DestsKept
  <2>1. \A x \in DestIds : x # d => dests'[x] = NoDest \/ (dests[x] # NoDest /\ dests'[x].chat = dests[x].chat)
    BY <1>3
  <2>2. dests'[d] = NoDest \/ d \in reused' \/ (dests[d] # NoDest /\ dests'[d].chat = dests[d].chat)
    BY <1>2, <1>3
  <2> QED BY <2>1, <2>2 DEF DestsKept
<1>5. ChatsKept
  BY <1>3 DEF ChatsKept, Present
<1> QED BY <1>1, <1>3, <1>4, <1>5

LEMMA ChangesDestinationKeeps ==
  ASSUME OpsInv, NEW r \in Rec, Fits(r), ChangesDestination(r)
  PROVE  /\ dests' \in [DestIds -> Dest \cup {NoDest}] /\ reused' \subseteq DestIds
         /\ DestsKept /\ ChatsKept
<1>1. r.chat \in Chats /\ r.title \in Titles
  BY DEF Rec
<1>2. dests \in [DestIds -> Dest \cup {NoDest}] /\ reused \subseteq DestIds
  BY DEF OpsInv, OpsTypeOK
<1>3. CASE r.dest # 0
  <2>b. PICK new : new = [chat |-> r.chat, title |-> r.title]
    OBVIOUS
  <2>1. r.dest \in Present /\ dests' = [dests EXCEPT ![r.dest] = new] /\ UNCHANGED reused
    BY <1>3, <2>b DEF ChangesDestination
  <2>2. new \in Dest /\ new.chat = r.chat
    BY <1>1, <2>b DEF Dest
  <2>3. r.dest \in reused \/ dests[r.dest].chat = r.chat
    BY <1>3, <2>1 DEF Fits, Present
  <2>a. PICK d \in Present : d = r.dest
    BY <2>1
  <2>4. /\ new \in Dest \cup {NoDest} /\ (new.chat \in {dests[d].chat, NoChat} \/ d \in reused)
        /\ (new = NoDest \/ new.chat = dests[d].chat \/ d \in reused)
        /\ dests' = [dests EXCEPT ![d] = new] /\ UNCHANGED reused
    BY <2>1, <2>2, <2>3, <2>a
  <2> QED BY <2>4, DestinationChanged
<1>4. CASE r.dest = 0 /\ DestOf(r.chat) = {}
  <2>1. Create(r.chat, r.title)
    BY <1>4 DEF ChangesDestination
  <2> QED BY <1>1, <2>1, CreateKeeps
<1>5. CASE r.dest = 0 /\ DestOf(r.chat) # {}
  <2>a. PICK there : there = DestOf(r.chat)
    OBVIOUS
  <2>1. /\ dests' = [d \in DestIds |-> IF d \in there THEN [dests[d] EXCEPT !.title = r.title] ELSE dests[d]]
        /\ UNCHANGED reused
    BY <1>5, <2>a DEF ChangesDestination
  <2>2. \A d \in there : dests[d] \in Dest /\ dests[d] # NoDest
    BY <1>2, <2>a DEF DestOf, Present
  <2>3. \A d \in there : /\ [dests[d] EXCEPT !.title = r.title] \in Dest
                         /\ [dests[d] EXCEPT !.title = r.title].chat = dests[d].chat
    BY <1>1, <2>2 DEF Dest
  <2>4. \A d \in DestIds : \/ dests'[d] = dests[d]
                           \/ dests'[d] \in Dest /\ dests'[d].chat = dests[d].chat /\ dests[d] # NoDest
    BY <2>1, <2>2, <2>3
  <2>5. dests' \in [DestIds -> Dest \cup {NoDest}]
    <3>1. DOMAIN dests' = DestIds /\ dests' = [d \in DestIds |-> dests'[d]]
      BY <2>1
    <3>2. \A d \in DestIds : dests'[d] \in Dest \cup {NoDest}
      BY <1>2, <2>4
    <3> QED BY <3>1, <3>2
  <2>6. DestsKept
    <3>1. \A d \in DestIds : dests'[d] = NoDest \/ (dests[d] # NoDest /\ dests'[d].chat = dests[d].chat)
      BY <2>4
    <3> QED BY <2>1, <3>1 DEF DestsKept
  <2>7. ChatsKept
    BY <2>4 DEF ChatsKept, Present
  <2> QED BY <1>2, <2>1, <2>5, <2>6, <2>7
<1> QED BY <1>3, <1>4, <1>5
-----------------------------------------------------------------------------
(* Every step keeps the invariant.                                          *)

LEMMA OperatorEditsHolds == OpsInv /\ OperatorEdits => OpsInv' /\ ChatsKept
<1> SUFFICES ASSUME OpsInv, OperatorEdits PROVE OpsInv' /\ ChatsKept
  OBVIOUS
<1>1. UNCHANGED <<seen, recs, rule, asks, applies, overwrites, raced>> /\ edits' = edits + 1 /\ edits < MaxEdits
  BY DEF OperatorEdits
<1>2. /\ dests' \in [DestIds -> Dest \cup {NoDest}] /\ reused' \subseteq DestIds
      /\ DestsKept /\ ChatsKept
  <2>1. ASSUME NEW d \in Present, dests' = [dests EXCEPT ![d] = NoDest], UNCHANGED reused
        PROVE  <1>2!:
    <3>1. NoDest \in Dest \cup {NoDest} /\ NoDest.chat \in {dests[d].chat, NoChat}
      BY DEF NoDest
    <3> QED BY <2>1, <3>1, DestinationChanged
  <2>2. ASSUME NEW c \in Chats, NEW t \in Titles, Create(c, t)
        PROVE  <1>2!:
    BY <2>2, CreateKeeps
  <2> QED BY <2>1, <2>2 DEF OperatorEdits
<1>3. edits' \in 0..MaxEdits
  BY <1>1, OpsAssumption DEF OpsInv, OpsTypeOK
<1>4. OpsTypeOK'
  BY <1>1, <1>2, <1>3 DEF OpsInv, OpsTypeOK
<1>5. RecommendationsExplained' /\ AppliesCounted' /\ ScansLookBack'
  BY <1>1 DEF OpsInv, RecommendationsExplained, OneOpenPerChat, AppliedOnceUnlessOverwritten,
    AutomationUnderLowRisk, Like, AppliesCounted, ScansLookBack
<1>6. RequestsSound'
  BY <1>1 DEF OpsInv, RequestsSound, Allowed, Changed
<1>7. RecommendationsFit'
  BY <1>1, <1>2, RecommendationsStillFit
<1> QED BY <1>2, <1>4, <1>5, <1>6, <1>7 DEF OpsInv

LEMMA FitUnchanged ==
  ASSUME OpsInv, UNCHANGED <<dests, recs, asks, reused>> PROVE RecommendationsFit'
BY DEF OpsInv, RecommendationsFit, AllFit, Fits

LEMMA PauseOrResumeHolds == OpsInv /\ PauseOrResume => OpsInv'
<1> SUFFICES ASSUME OpsInv, PauseOrResume PROVE OpsInv'
  OBVIOUS
<1>1. UNCHANGED <<seen, dests, recs, asks, applies, overwrites, reused, raced>> /\ edits' = edits + 1 /\ edits < MaxEdits
  BY DEF PauseOrResume
<1>2. rule \in Rule /\ rule' = [rule EXCEPT !.on = ~@]
  BY DEF OpsInv, OpsTypeOK, PauseOrResume
<1>3. rule' \in Rule /\ rule'.auto = rule.auto /\ rule'.high = rule.high
  BY <1>2 DEF Rule
<1>4. edits' \in 0..MaxEdits
  BY <1>1, OpsAssumption DEF OpsInv, OpsTypeOK
<1>5. OpsTypeOK'
  BY <1>1, <1>3, <1>4 DEF OpsInv, OpsTypeOK
<1>6. RecommendationsExplained' /\ AppliesCounted' /\ ScansLookBack'
  BY <1>1, <1>3 DEF OpsInv, RecommendationsExplained, OneOpenPerChat, AppliedOnceUnlessOverwritten,
    AutomationUnderLowRisk, Like, AppliesCounted, ScansLookBack
<1>7. RequestsSound'
  BY <1>1 DEF OpsInv, RequestsSound, Allowed, Changed
<1> QED BY <1>1, <1>5, <1>6, <1>7, FitUnchanged DEF OpsInv

LEMMA RecordedAreCounted == OpsInv => Len(seen) \in Nat /\ 0 <= Len(seen)
BY DEF OpsInv, OpsTypeOK

LEMMA ObserveHolds == OpsInv /\ Observe => OpsInv'
<1> SUFFICES ASSUME OpsInv, Observe PROVE OpsInv'
  OBVIOUS
<1>1. /\ UNCHANGED <<dests, recs, rule, asks, applies, overwrites, reused, raced, edits>>
      /\ seen' = Append(seen, Feed[Len(seen) + 1]) /\ Len(seen) < Len(Feed)
  BY DEF Observe
<1>2. Feed \in Seq([chat : Chats, title : Titles]) /\ Len(Feed) \in Nat
  BY OpsAssumption
<1>3. seen = SubSeq(Feed, 1, Len(seen)) /\ Len(seen) \in Nat
  BY <1>1, <1>2 DEF OpsInv, OpsTypeOK, IsPrefix
<1>4. seen' \in Seq([chat : Chats, title : Titles]) /\ IsPrefix(seen', Feed) /\ Len(seen') = Len(seen) + 1
  <2>1. seen' \in Seq([chat : Chats, title : Titles]) /\ Len(seen') = Len(seen) + 1
    <3>1. Feed[Len(seen) + 1] \in [chat : Chats, title : Titles]
      <4>a. PICK n : n = Len(seen) + 1
        OBVIOUS
      <4>1. Len(seen) \in Nat /\ Len(Feed) \in Nat /\ Len(seen) < Len(Feed)
        BY <1>1, <1>2, RecordedAreCounted
      <4>2. n \in 1..Len(Feed)
        BY <4>a, <4>1
      <4>b. PICK Updates : Updates = [chat : Chats, title : Titles]
        OBVIOUS
      <4>3. Feed \in Seq(Updates)
        BY <1>2, <4>b, Zenon
      <4>4. Feed[n] \in Updates
        BY <4>2, <4>3
      <4> QED BY <4>a, <4>b, <4>4, Zenon
    <3>2. seen \in Seq([chat : Chats, title : Titles])
      BY DEF OpsInv, OpsTypeOK
    <3> QED BY <1>1, <3>1, <3>2
  <2>2. IsPrefix(seen', Feed)
    BY <1>1, <1>2, <1>3 DEF IsPrefix
  <2> QED BY <2>1, <2>2
<1>5. OpsTypeOK'
  BY <1>1, <1>4 DEF OpsInv, OpsTypeOK
<1>6. RecommendationsExplained' /\ AppliesCounted'
  BY <1>1 DEF OpsInv, RecommendationsExplained, OneOpenPerChat, AppliedOnceUnlessOverwritten,
    AutomationUnderLowRisk, Like, AppliesCounted
<1>7. RequestsSound'
  BY <1>1 DEF OpsInv, RequestsSound, Allowed, Changed
<1>8. ScansLookBack'
  <2>1. \A a \in Askers : asks[a].saw \in Nat
    BY <1>2 DEF OpsInv, OpsTypeOK, OpsRequest
  <2> QED BY <1>1, <1>3, <1>4, <2>1 DEF OpsInv, ScansLookBack
<1> QED BY <1>1, <1>5, <1>6, <1>7, <1>8, FitUnchanged DEF OpsInv
\* A request that is over leaves nothing behind.
LEMMA RequestIsOver ==
  ASSUME OpsInv, NEW a \in Askers, AskBecomes(a, NoOpsRequest)
  PROVE  /\ RequestsSound' /\ asks' \in [Askers -> OpsRequest]
         /\ asks'[a] = NoOpsRequest /\ \A b \in Askers : b # a => asks'[b] = asks[b]
         /\ \A b \in Askers : /\ asks'[b].rec \in {0, asks[b].rec} /\ asks'[b].saw \in {0, asks[b].saw}
                              /\ asks'[b].read \in {NoDest, asks[b].read}
<1>1. NoOpsRequest \in OpsRequest
  BY NoRequestIsOne
<1>2. /\ NoOpsRequest.op = "none" /\ NoOpsRequest.rec = 0 /\ NoOpsRequest.saw = 0
      /\ NoOpsRequest.read = NoDest
  BY DEF NoOpsRequest
<1>3. /\ RequestsSound' /\ asks' \in [Askers -> OpsRequest]
      /\ asks'[a] = NoOpsRequest /\ \A b \in Askers : b # a => asks'[b] = asks[b]
  <2>1. NoOpsRequest.op \notin {"preview", "dismiss", "apply"} \cup Settings
    BY <1>2 DEF Settings
  <2> QED BY <1>1, <2>1, RequestChanges
<1> QED BY <1>2, <1>3

LEMMA RequestEndsHolds == ASSUME OpsInv, NEW a \in Askers, RequestEnds(a) PROVE OpsInv'
<1>1. AskBecomes(a, NoOpsRequest)
  BY DEF RequestEnds, AskBecomes
<1>2. /\ UNCHANGED <<seen, dests, recs, rule, applies, overwrites, reused, raced, edits>>
      /\ edits' \in 0..MaxEdits
  BY DEF RequestEnds, OpsInv, OpsTypeOK
<1>3. Len(seen) >= 0
  BY DEF OpsInv, OpsTypeOK
<1>4. /\ NoOpsRequest.op \notin {"preview", "dismiss", "apply"} \cup Settings
      /\ NoOpsRequest.rec \in {0} \cup DOMAIN recs /\ NoOpsRequest.saw <= Len(seen)
      /\ NoOpsRequest.read = NoDest
  BY <1>3 DEF NoOpsRequest, Settings
<1> QED BY <1>1, <1>2, <1>4, NoRequestIsOne, OnlyTheRequest

LEMMA BeginScanHolds == ASSUME OpsInv, NEW a \in Askers, BeginScan(a) PROVE OpsInv'
<1>a. PICK q : q = [NoOpsRequest EXCEPT !.op = "scan", !.saw = Len(seen)]
  OBVIOUS
<1>1. /\ AskBecomes(a, q) /\ edits' \in 0..MaxEdits
      /\ UNCHANGED <<seen, dests, recs, rule, applies, overwrites, reused, raced>>
  BY <1>a DEF BeginScan, AskBecomes, OpsInv, OpsTypeOK
<1>2. Len(seen) \in 0..Len(Feed)
  BY OpsAssumption DEF OpsInv, OpsTypeOK, IsPrefix
<1>3. q \in OpsRequest /\ q.op = "scan" /\ q.rec = 0 /\ q.saw = Len(seen) /\ q.read = NoDest
  BY <1>a, <1>2, NoRequestIsOne DEF OpsRequest, NoOpsRequest
<1>4. /\ q.op \notin {"preview", "dismiss", "apply"} \cup Settings /\ q.rec \in {0} \cup DOMAIN recs
      /\ q.saw <= Len(seen)
  BY <1>2, <1>3 DEF Settings
<1> QED BY <1>1, <1>3, <1>4, OnlyTheRequest

LEMMA ReadRecHolds ==
  ASSUME OpsInv, NEW a \in Askers, NEW i \in DOMAIN recs, NEW op \in {"preview", "dismiss", "apply"},
         ReadRec(a, i, op)
  PROVE  OpsInv'
<1>a. PICK q : q = [NoOpsRequest EXCEPT !.op = op, !.rec = i, !.read = recs[i]]
  OBVIOUS
<1>1. /\ AskBecomes(a, q) /\ edits' \in 0..MaxEdits
      /\ UNCHANGED <<seen, dests, recs, rule, applies, overwrites, reused, raced>>
  BY <1>a DEF ReadRec, AskBecomes, OpsInv, OpsTypeOK
<1>2. recs[i] \in Rec /\ i \in 1..Len(recs) /\ i \in 0..MaxRecs /\ Len(seen) \in Nat
  BY OpsAssumption DEF OpsInv, OpsTypeOK
<1>3. q \in OpsRequest /\ q.op = op /\ q.rec = i /\ q.saw = 0 /\ q.read = recs[i]
  BY <1>a, <1>2, NoRequestIsOne DEF OpsRequest, NoOpsRequest
<1>4. Fits(recs[i])
  BY <1>2 DEF OpsInv, RecommendationsFit, AllFit
<1>5. /\ q.op \notin Settings /\ q.rec \in {0} \cup DOMAIN recs /\ q.rec # 0
      /\ q.saw <= Len(seen) /\ q.read \in Rec /\ Fits(q.read)
  BY <1>2, <1>3, <1>4 DEF Settings
<1> QED BY <1>1, <1>3, <1>5, OnlyTheRequest

LEMMA ReadRuleHolds ==
  ASSUME OpsInv, NEW a \in Askers, NEW set \in Settings, ReadRule(a, set) PROVE OpsInv'
<1>a. PICK q : q = [NoOpsRequest EXCEPT !.op = set, !.was = rule]
  OBVIOUS
<1>1. /\ AskBecomes(a, q) /\ edits' = edits + 1 /\ edits < MaxEdits /\ Allowed(rule, set)
      /\ UNCHANGED <<seen, dests, recs, rule, applies, overwrites, reused, raced>>
  BY <1>a DEF ReadRule, AskBecomes
<1>2. edits' \in 0..MaxEdits /\ rule \in Rule /\ Len(seen) \in Nat
  BY <1>1, OpsAssumption DEF OpsInv, OpsTypeOK
<1>3. q \in OpsRequest /\ q.op = set /\ q.rec = 0 /\ q.saw = 0 /\ q.read = NoDest /\ q.was = rule
  BY <1>a, <1>2, NoRequestIsOne DEF OpsRequest, NoOpsRequest
<1>4. /\ q.op \notin {"preview", "dismiss", "apply"} /\ q.rec \in {0} \cup DOMAIN recs
      /\ q.saw <= Len(seen) /\ Allowed(q.was, q.op)
  BY <1>1, <1>2, <1>3 DEF Settings
<1> QED BY <1>1, <1>2, <1>3, <1>4, OnlyTheRequest

LEMMA BeginRunHolds == ASSUME OpsInv, NEW a \in Askers, BeginRun(a) PROVE OpsInv'
<1>b. PICK open : open = {i \in DOMAIN recs : recs[i].kind = "create" /\ recs[i].status \in Actionable}
  OBVIOUS
<1>a. PICK q : q = [NoOpsRequest EXCEPT !.op = "apply", !.run = TRUE, !.todo = open]
  OBVIOUS
<1>1. /\ AskBecomes(a, q) /\ edits' \in 0..MaxEdits
      /\ UNCHANGED <<seen, dests, recs, rule, applies, overwrites, reused, raced>>
  BY <1>a, <1>b DEF BeginRun, AskBecomes, OpsInv, OpsTypeOK
<1>2. open \subseteq RecIds /\ Len(seen) \in Nat
  BY <1>b, OpsAssumption DEF OpsInv, OpsTypeOK, RecIds
<1>3. q \in OpsRequest /\ q.op = "apply" /\ q.rec = 0 /\ q.saw = 0 /\ q.read = NoDest
  BY <1>a, <1>2, NoRequestIsOne DEF OpsRequest, NoOpsRequest
<1>4. /\ q.op \notin {"preview", "dismiss"} \cup Settings /\ q.rec \in {0} \cup DOMAIN recs
      /\ q.saw <= Len(seen)
  BY <1>2, <1>3 DEF Settings
<1> QED BY <1>1, <1>3, <1>4, OnlyTheRequest

LEMMA RunPicksHolds ==
  ASSUME OpsInv, NEW a \in Askers, NEW i \in DOMAIN recs, RunPicks(a, i) PROVE OpsInv'
<1>a. PICK old \in OpsRequest : old = asks[a]
  BY DEF OpsInv, OpsTypeOK
<1>b. PICK left : left = old.todo \ {i}
  OBVIOUS
<1>c. PICK q : q = IF recs[i].status \in Actionable
                     THEN [old EXCEPT !.todo = left, !.rec = i, !.read = recs[i]]
                     ELSE [old EXCEPT !.todo = left]
  OBVIOUS
<1>1. /\ AskBecomes(a, q) /\ edits' \in 0..MaxEdits /\ old.rec = 0
      /\ UNCHANGED <<seen, dests, recs, rule, applies, overwrites, reused, raced>>
  <2>1. /\ UNCHANGED <<seen, dests, recs, rule, applies, overwrites, reused, raced, edits>>
        /\ old.rec = 0
    BY <1>a DEF RunPicks
  <2>2. edits \in 0..MaxEdits
    BY DEF OpsInv, OpsTypeOK
  <2>3. AskBecomes(a, q)
    <3>1. CASE recs[i].status \in Actionable
      <4>1. q = [asks[a] EXCEPT !.todo = asks[a].todo \ {i}, !.rec = i, !.read = recs[i]]
        BY <1>a, <1>b, <1>c, <3>1
      <4>2. asks' = [asks EXCEPT ![a] = [asks[a] EXCEPT !.todo = asks[a].todo \ {i}, !.rec = i, !.read = recs[i]]]
        BY <3>1 DEF RunPicks
      <4> QED BY <4>1, <4>2, Zenon DEF AskBecomes
    <3>2. CASE recs[i].status \notin Actionable
      <4>1. q = [asks[a] EXCEPT !.todo = asks[a].todo \ {i}]
        BY <1>a, <1>b, <1>c, <3>2
      <4>2. asks' = [asks EXCEPT ![a] = [asks[a] EXCEPT !.todo = asks[a].todo \ {i}]]
        BY <3>2 DEF RunPicks
      <4> QED BY <4>1, <4>2, Zenon DEF AskBecomes
    <3> QED BY <3>1, <3>2
  <2> QED BY <2>1, <2>2, <2>3
<1>2. /\ recs[i] \in Rec /\ i \in 1..Len(recs) /\ i \in 0..MaxRecs /\ left \in SUBSET RecIds
      /\ Fits(recs[i])
  BY <1>b, OpsAssumption DEF OpsInv, OpsTypeOK, OpsRequest, RecommendationsFit, AllFit
<1>3. /\ q \in OpsRequest /\ q.op = old.op /\ q.was = old.was /\ q.saw = old.saw
      /\ \/ q.rec = i /\ q.read = recs[i]
         \/ q.rec = 0 /\ q.read = old.read
  BY <1>c, <1>1, <1>2 DEF OpsRequest
<1>4. /\ old.op \notin {"preview", "dismiss"} /\ (old.op \in Settings => Allowed(old.was, old.op))
      /\ (old.read # NoDest => Fits(old.read)) /\ old.saw <= Len(seen)
  BY <1>a, <1>1 DEF OpsInv, RequestsSound, RecommendationsFit, ScansLookBack
<1>5. /\ q.op \notin {"preview", "dismiss"} /\ (q.op \in Settings => Allowed(q.was, q.op))
      /\ (q.op = "apply" /\ q.rec # 0 => q.read \in Rec)
      /\ q.rec \in {0} \cup DOMAIN recs /\ q.saw <= Len(seen) /\ (q.read # NoDest => Fits(q.read))
  BY <1>2, <1>3, <1>4
<1> QED BY <1>1, <1>3, <1>5, OnlyTheRequest

LEMMA WriteRuleHolds == ASSUME OpsInv, NEW a \in Askers, WriteRule(a) PROVE OpsInv'
<1>a. PICK set : set = asks[a].op
  OBVIOUS
<1>1. /\ set \in Settings /\ rule' = Changed(rule, set) /\ raced' = (raced \/ rule # asks[a].was)
      /\ AskBecomes(a, NoOpsRequest)
      /\ UNCHANGED <<seen, dests, recs, applies, overwrites, reused, edits>>
  BY <1>a DEF WriteRule, AskBecomes
<1>2. /\ RequestsSound' /\ asks' \in [Askers -> OpsRequest]
      /\ \A b \in Askers : /\ asks'[b].rec \in {0, asks[b].rec} /\ asks'[b].saw \in {0, asks[b].saw}
                           /\ asks'[b].read \in {NoDest, asks[b].read}
  BY <1>1, RequestIsOver
<1>3. rule \in Rule /\ raced \in BOOLEAN
  BY DEF OpsInv, OpsTypeOK
<1>4. rule' \in Rule
  BY <1>1, <1>3 DEF Rule, Changed
<1>5. raced' \in BOOLEAN
  BY <1>1
<1>6. OpsTypeOK'
  BY <1>1, <1>2, <1>4, <1>5 DEF OpsInv, OpsTypeOK
<1>7. AutomationUnderLowRisk'
  <2>1. CASE rule = asks[a].was
    <3>1. Allowed(rule, set)
      BY <1>a, <1>1, <2>1 DEF OpsInv, RequestsSound
    <3> QED BY <1>1, <3>1 DEF Allowed, AutomationUnderLowRisk
  <2>2. CASE rule # asks[a].was
    BY <1>1, <2>2 DEF AutomationUnderLowRisk
  <2> QED BY <2>1, <2>2
<1>8. OneOpenPerChat' /\ AppliedOnceUnlessOverwritten' /\ AppliesCounted'
  BY <1>1 DEF OpsInv, RecommendationsExplained, OneOpenPerChat, AppliedOnceUnlessOverwritten,
    Like, AppliesCounted
<1>9. ScansLookBack'
  BY <1>1, <1>2, RecordedAreCounted DEF OpsInv, ScansLookBack
<1>10. RecommendationsFit'
  <2>1. DestsKept
    <3>1. dests \in [DestIds -> Dest \cup {NoDest}]
      BY DEF OpsInv, OpsTypeOK
    <3> QED BY <1>1, <3>1 DEF DestsKept
  <2> QED BY <1>1, <1>2, <2>1, RecommendationsStillFit
<1> QED BY <1>2, <1>6, <1>7, <1>8, <1>9, <1>10 DEF OpsInv, RecommendationsExplained
LEMMA ApplicationsAreNumbers ==
  OpsInv => /\ applies \in [RecIds -> Nat] /\ overwrites \in [RecIds -> Nat]
            /\ recs \in Seq(Rec) /\ DOMAIN recs = 1..Len(recs) /\ DOMAIN recs \subseteq RecIds
            /\ Len(recs) \in Nat /\ Len(recs) <= MaxRecs /\ MaxRecs \in Nat
<1> SUFFICES ASSUME OpsInv
             PROVE  /\ applies \in [RecIds -> Nat] /\ overwrites \in [RecIds -> Nat]
                    /\ recs \in Seq(Rec) /\ DOMAIN recs = 1..Len(recs) /\ DOMAIN recs \subseteq RecIds
                    /\ Len(recs) \in Nat /\ Len(recs) <= MaxRecs /\ MaxRecs \in Nat
  OBVIOUS
<1>1. /\ applies \in [RecIds -> Nat] /\ overwrites \in [RecIds -> Nat]
      /\ recs \in Seq(Rec) /\ Len(recs) <= MaxRecs
  BY DEF OpsInv, OpsTypeOK
<1>2. MaxRecs \in Nat
  BY OpsAssumption
<1>3. Len(recs) \in Nat /\ DOMAIN recs = 1..Len(recs)
  BY <1>1
<1>4. DOMAIN recs \subseteq RecIds
  BY <1>1, <1>2, <1>3 DEF RecIds
<1> QED BY <1>1, <1>2, <1>3, <1>4

LEMMA OneOpenInPairsNext ==
  ASSUME \A i, j \in DOMAIN recs' :
           i # j /\ recs'[i].status \in Actionable /\ recs'[j].status \in Actionable
             /\ recs'[j].kind = recs'[i].kind /\ recs'[j].chat = recs'[i].chat
             => overwrites'[i] + overwrites'[j] > 0
  PROVE  OneOpenPerChat'
BY DEF OneOpenPerChat, Like

LEMMA FinishScanHolds == ASSUME OpsInv, NEW a \in Askers, FinishScan(a) PROVE OpsInv'
<1>a. PICK saw : saw = asks[a].saw
  OBVIOUS
<1>1. /\ recs' = Scanned(recs, saw) /\ Len(recs') <= MaxRecs /\ AskBecomes(a, NoOpsRequest)
      /\ UNCHANGED <<seen, dests, rule, applies, overwrites, reused, raced, edits>>
  BY <1>a DEF FinishScan, AskBecomes
<1>2. /\ RequestsSound' /\ asks' \in [Askers -> OpsRequest]
      /\ \A b \in Askers : /\ asks'[b].rec \in {0, asks[b].rec} /\ asks'[b].saw \in {0, asks[b].saw}
                           /\ asks'[b].read \in {NoDest, asks[b].read}
  BY <1>1, RequestIsOver
<1>3. dests \in [DestIds -> Dest \cup {NoDest}] /\ recs \in Seq(Rec) /\ AllFit(recs)
  BY DEF OpsInv, OpsTypeOK, RecommendationsFit
<1>4. saw \in Nat /\ saw <= Len(seen)
  BY <1>a, OpsAssumption DEF OpsInv, OpsTypeOK, OpsRequest, ScansLookBack
<1>5. ASSUME NEW n \in 1..saw PROVE seen[n] \in [chat : Chats, title : Titles]
  <2>a. PICK Updates : Updates = [chat : Chats, title : Titles]
    OBVIOUS
  <2>1. seen \in Seq(Updates)
    BY <2>a, Zenon DEF OpsInv, OpsTypeOK
  <2>2. seen[n] \in Updates
    BY <1>4, <2>1
  <2> QED BY <2>a, <2>2, Zenon
<1>b. PICK rows : rows = recs'
  OBVIOUS
<1>6. Extends(rows, recs) /\ AllFit(rows)
  BY <1>1, <1>3, <1>4, <1>5, <1>b, ScannedExtends
<1>7. /\ rows \in Seq(Rec) /\ Len(recs) <= Len(rows) /\ Len(recs) \in Nat /\ Len(rows) \in Nat
      /\ DOMAIN rows = 1..Len(rows) /\ DOMAIN recs = 1..Len(recs)
      /\ DOMAIN recs \subseteq DOMAIN rows /\ DOMAIN rows \subseteq RecIds
  <2>1. rows \in Seq(Rec) /\ Len(recs) <= Len(rows) /\ Len(rows) <= MaxRecs
    BY <1>1, <1>6, <1>b DEF Extends
  <2>2. Len(recs) \in Nat /\ Len(rows) \in Nat /\ DOMAIN rows = 1..Len(rows) /\ DOMAIN recs = 1..Len(recs)
    BY <1>3, <2>1
  <2>3. MaxRecs \in Nat
    BY OpsAssumption
  <2>4. DOMAIN recs \subseteq DOMAIN rows /\ DOMAIN rows \subseteq RecIds
    BY <2>1, <2>2, <2>3 DEF RecIds
  <2> QED BY <2>1, <2>2, <2>4
<1>8. \A i \in DOMAIN recs : /\ rows[i].kind = recs[i].kind /\ rows[i].chat = recs[i].chat
                             /\ rows[i].status = recs[i].status
  BY <1>6, <1>7 DEF Extends
<1>9. \A i \in DOMAIN rows : i \in DOMAIN recs \/ (i > Len(recs) /\ rows[i].status = "open")
  BY <1>6, <1>7 DEF Extends
<1>10. OpsTypeOK'
  <2>1. \A b \in Askers : asks'[b].rec \in {0} \cup DOMAIN rows
    BY <1>2, <1>7 DEF OpsInv, OpsTypeOK
  <2>2. rows \in Seq(Rec) /\ Len(rows) <= MaxRecs
    BY <1>1, <1>7, <1>b
  <2> QED BY <1>1, <1>2, <1>b, <2>1, <2>2 DEF OpsInv, OpsTypeOK
<1>11. \A i \in DOMAIN rows : i \notin DOMAIN recs => applies[i] = 0 /\ overwrites[i] = 0
  BY <1>7 DEF OpsInv, AppliesCounted
<1>12. AppliesCounted'
  <2>1. \A i \in DOMAIN rows : rows[i].status # "applied" => applies[i] <= overwrites[i]
    BY <1>8, <1>9, <1>11 DEF OpsInv, AppliesCounted
  <2>2. \A i \in RecIds : i \notin DOMAIN rows => applies[i] = 0 /\ overwrites[i] = 0
    BY <1>7 DEF OpsInv, AppliesCounted
  <2> QED BY <1>1, <1>b, <2>1, <2>2 DEF AppliesCounted
<1>13. AppliedOnceUnlessOverwritten'
  <2>1. ASSUME NEW i \in DOMAIN rows
        PROVE  /\ applies[i] <= 1 + overwrites[i]
               /\ overwrites[i] = 0 => (applies[i] = 1 <=> rows[i].status = "applied")
    <3>1. CASE i \in DOMAIN recs
      BY <1>8, <3>1 DEF OpsInv, RecommendationsExplained, AppliedOnceUnlessOverwritten
    <3>2. CASE i \notin DOMAIN recs
      BY <1>9, <1>11, <3>2
    <3> QED BY <3>1, <3>2
  <2> QED BY <1>1, <1>b, <2>1 DEF AppliedOnceUnlessOverwritten
<1>14. OneOpenPerChat'
  <2>1. ASSUME NEW i \in DOMAIN rows, NEW j \in DOMAIN rows, i # j,
               rows[i].status \in Actionable, rows[j].status \in Actionable,
               rows[j].kind = rows[i].kind, rows[j].chat = rows[i].chat
        PROVE  overwrites[i] + overwrites[j] > 0
    <3>1. i \in DOMAIN recs /\ j \in DOMAIN recs
      BY <1>6, <1>7, <1>9, <2>1 DEF Extends
    <3> QED BY <1>8, <2>1, <3>1, OneOpenInPairs DEF OpsInv, RecommendationsExplained
  <2> QED BY <1>1, <1>b, <2>1, OneOpenInPairsNext
<1>15. AutomationUnderLowRisk' /\ ScansLookBack'
  BY <1>1, <1>2, RecordedAreCounted DEF OpsInv, RecommendationsExplained, AutomationUnderLowRisk, ScansLookBack
<1>16. RecommendationsFit'
  <2>1. AllFit(recs)'
    BY <1>1, <1>6, <1>b DEF AllFit, Fits
  <2>2. ASSUME NEW b \in Askers, asks'[b].read # NoDest PROVE Fits(asks[b].read)'
    <3>1. asks'[b].read = asks[b].read
      BY <1>2, <2>2
    <3>2. Fits(asks'[b].read)
      BY <2>2, <3>1 DEF OpsInv, RecommendationsFit
    <3> QED BY <1>1, <3>2 DEF Fits
  <2> QED BY <2>1, <2>2 DEF RecommendationsFit
<1> QED BY <1>2, <1>10, <1>12, <1>13, <1>14, <1>15, <1>16 DEF OpsInv, RecommendationsExplained

\* A status written.
LEMMA StatusWritten ==
  ASSUME OpsInv, NEW i \in DOMAIN recs, NEW status \in Actionable \cup {"applied", "dismissed"},
         recs' = [recs EXCEPT ![i].status = status]
  PROVE  /\ recs' \in Seq(Rec) /\ Len(recs') = Len(recs) /\ DOMAIN recs' = DOMAIN recs
         /\ recs'[i].status = status
         /\ \A j \in DOMAIN recs : /\ recs'[j].kind = recs[j].kind /\ recs'[j].chat = recs[j].chat
                                   /\ recs'[j].dest = recs[j].dest
                                   /\ j # i => recs'[j].status = recs[j].status
<1>1. recs \in Seq(Rec) /\ recs[i] \in Rec
  BY DEF OpsInv, OpsTypeOK
<1>a. PICK r : r = [recs[i] EXCEPT !.status = status]
  OBVIOUS
<1>2. /\ r \in Rec /\ r.kind = recs[i].kind /\ r.chat = recs[i].chat /\ r.dest = recs[i].dest
      /\ r.status = status
  BY <1>1, <1>a DEF Rec
<1>3. recs' = [recs EXCEPT ![i] = r]
  BY <1>a
<1>4. /\ recs' \in Seq(Rec) /\ Len(recs') = Len(recs) /\ DOMAIN recs' = DOMAIN recs
      /\ recs'[i] = r /\ \A j \in DOMAIN recs : j # i => recs'[j] = recs[j]
  BY <1>1, <1>2, <1>3
<1> QED BY <1>2, <1>4

LEMMA MarkHolds ==
  ASSUME OpsInv, NEW a \in Askers, NEW op \in {"preview", "dismiss"},
         NEW status \in {"previewed", "dismissed"}, Mark(a, op, status)
  PROVE  OpsInv'
<1>a. PICK i : i = asks[a].rec
  OBVIOUS
<1>1. /\ asks[a].op = op /\ recs' = [recs EXCEPT ![i].status = status] /\ AskBecomes(a, NoOpsRequest)
      /\ UNCHANGED <<seen, dests, rule, applies, reused, raced>>
      /\ \/ recs[i].status \in Actionable /\ UNCHANGED <<overwrites, edits>>
         \/ /\ recs[i].status \notin Actionable /\ edits < MaxEdits /\ edits' = edits + 1
            /\ overwrites' = [overwrites EXCEPT ![i] = @ + 1]
  BY <1>a DEF Mark, AskBecomes
<1>2. i \in DOMAIN recs
  BY <1>a, <1>1 DEF OpsInv, OpsTypeOK, RequestsSound
<1>3. /\ recs' \in Seq(Rec) /\ Len(recs') = Len(recs) /\ DOMAIN recs' = DOMAIN recs
      /\ recs'[i].status = status
      /\ \A j \in DOMAIN recs : /\ recs'[j].kind = recs[j].kind /\ recs'[j].chat = recs[j].chat
                                /\ recs'[j].dest = recs[j].dest
                                /\ j # i => recs'[j].status = recs[j].status
  <2>1. status \in Actionable \cup {"applied", "dismissed"}
    BY DEF Actionable
  <2> QED BY <1>1, <1>2, <2>1, StatusWritten
<1>4. /\ RequestsSound' /\ asks' \in [Askers -> OpsRequest]
      /\ \A b \in Askers : /\ asks'[b].rec \in {0, asks[b].rec} /\ asks'[b].saw \in {0, asks[b].saw}
                           /\ asks'[b].read \in {NoDest, asks[b].read}
  BY <1>1, RequestIsOver
<1>5. /\ applies \in [RecIds -> Nat] /\ overwrites \in [RecIds -> Nat] /\ DOMAIN recs \subseteq RecIds
      /\ Len(recs) <= MaxRecs /\ DOMAIN recs = 1..Len(recs)
  BY ApplicationsAreNumbers
<1>6. /\ overwrites' \in [RecIds -> Nat]
      /\ \A j \in RecIds : j # i => overwrites'[j] = overwrites[j]
      /\ \/ recs[i].status \in Actionable /\ overwrites'[i] = overwrites[i]
         \/ recs[i].status \notin Actionable /\ overwrites'[i] = overwrites[i] + 1
  <2>1. i \in RecIds
    BY <1>2, <1>5
  <2>2. CASE UNCHANGED overwrites /\ recs[i].status \in Actionable
    BY <1>5, <2>2
  <2>3. CASE recs[i].status \notin Actionable /\ overwrites' = [overwrites EXCEPT ![i] = @ + 1]
    BY <1>5, <2>1, <2>3
  <2> QED BY <1>1, <2>2, <2>3
<1>7. edits' \in 0..MaxEdits
  <2>1. edits \in 0..MaxEdits /\ MaxEdits \in Nat
    BY OpsAssumption DEF OpsInv, OpsTypeOK
  <2>2. edits' = edits \/ (edits < MaxEdits /\ edits' = edits + 1)
    BY <1>1
  <2> QED BY <2>1, <2>2
<1>8. OpsTypeOK'
  <2>1. \A b \in Askers : asks'[b].rec \in {0} \cup DOMAIN recs'
    BY <1>3, <1>4 DEF OpsInv, OpsTypeOK
  <2> QED BY <1>1, <1>3, <1>4, <1>5, <1>6, <1>7, <2>1 DEF OpsInv, OpsTypeOK
<1>9. \A j \in DOMAIN recs : recs[j].status # "applied" => applies[j] <= overwrites[j]
  BY DEF OpsInv, AppliesCounted
<1>10. \A j \in DOMAIN recs :
         /\ applies[j] <= 1 + overwrites[j]
         /\ overwrites[j] = 0 => (applies[j] = 1 <=> recs[j].status = "applied")
  BY DEF OpsInv, RecommendationsExplained, AppliedOnceUnlessOverwritten
<1>11. applies[i] <= overwrites'[i]
  <2>1. applies[i] \in Nat /\ overwrites[i] \in Nat
    BY <1>2, <1>5
  <2>2. CASE recs[i].status \in Actionable /\ overwrites'[i] = overwrites[i]
    BY <1>2, <1>9, <2>2 DEF Actionable
  <2>3. CASE overwrites'[i] = overwrites[i] + 1
    BY <1>2, <1>10, <2>1, <2>3
  <2> QED BY <1>6, <2>2, <2>3
<1>12. AppliesCounted'
  <2>1. \A j \in DOMAIN recs : recs'[j].status # "applied" => applies[j] <= overwrites'[j]
    BY <1>3, <1>5, <1>6, <1>9, <1>11
  <2>2. \A j \in RecIds : j \notin DOMAIN recs => applies[j] = 0 /\ overwrites'[j] = 0
    BY <1>2, <1>6 DEF OpsInv, AppliesCounted
  <2> QED BY <1>1, <1>3, <2>1, <2>2 DEF AppliesCounted
<1>13. AppliedOnceUnlessOverwritten'
  <2>1. ASSUME NEW j \in DOMAIN recs
        PROVE  /\ applies[j] <= 1 + overwrites'[j]
               /\ overwrites'[j] = 0 => (applies[j] = 1 <=> recs'[j].status = "applied")
    <3>1. CASE j = i
      <4>1. applies[i] \in Nat /\ overwrites'[i] \in Nat /\ status # "applied"
        BY <1>2, <1>5, <1>6
      <4> QED BY <1>3, <1>11, <3>1, <4>1
    <3>2. CASE j # i
      BY <1>3, <1>5, <1>6, <1>10, <3>2
    <3> QED BY <3>1, <3>2
  <2> QED BY <1>1, <1>3, <2>1 DEF AppliedOnceUnlessOverwritten
<1>14. OneOpenPerChat'
  <2>1. ASSUME NEW j \in DOMAIN recs, NEW k \in DOMAIN recs, j # k,
               recs'[j].status \in Actionable, recs'[k].status \in Actionable,
               recs'[k].kind = recs'[j].kind, recs'[k].chat = recs'[j].chat
        PROVE  overwrites'[j] + overwrites'[k] > 0
    <3>1. /\ overwrites[j] \in Nat /\ overwrites[k] \in Nat /\ overwrites'[j] \in Nat
          /\ overwrites'[k] \in Nat
      BY <1>5, <1>6
    <3>2. CASE recs[i].status \in Actionable
      <4>1. recs[j].status \in Actionable /\ recs[k].status \in Actionable
        BY <1>3, <2>1, <3>2
      <4>2. recs[k].kind = recs[j].kind /\ recs[k].chat = recs[j].chat
        BY <1>3, <2>1
      <4>3. overwrites[j] + overwrites[k] > 0
        BY <2>1, <4>1, <4>2, OneOpenInPairs DEF OpsInv, RecommendationsExplained
      <4>4. overwrites'[j] = overwrites[j] /\ overwrites'[k] = overwrites[k]
        BY <1>5, <1>6, <3>2
      <4> QED BY <4>3, <4>4
    <3>3. CASE recs[i].status \notin Actionable /\ i \in {j, k}
      <4>1. overwrites'[i] = overwrites[i] + 1
        BY <1>6, <3>3
      <4> QED BY <3>1, <3>3, <4>1
    <3>4. CASE i \notin {j, k}
      <4>1. recs[j].status \in Actionable /\ recs[k].status \in Actionable
        BY <1>3, <2>1, <3>4
      <4>2. recs[k].kind = recs[j].kind /\ recs[k].chat = recs[j].chat
        BY <1>3, <2>1
      <4>3. overwrites[j] + overwrites[k] > 0
        BY <2>1, <4>1, <4>2, OneOpenInPairs DEF OpsInv, RecommendationsExplained
      <4>4. overwrites'[j] = overwrites[j] /\ overwrites'[k] = overwrites[k]
        BY <1>5, <1>6, <3>4
      <4> QED BY <4>3, <4>4
    <3> QED BY <3>2, <3>3, <3>4
  <2>2. DOMAIN recs' = DOMAIN recs
    BY <1>3
  <2> QED BY <2>1, <2>2, OneOpenInPairsNext
<1>15. AutomationUnderLowRisk' /\ ScansLookBack'
  BY <1>1, <1>4, RecordedAreCounted DEF OpsInv, RecommendationsExplained, AutomationUnderLowRisk, ScansLookBack
<1>16. RecommendationsFit'
  <2>1. DestsKept
    <3>1. dests \in [DestIds -> Dest \cup {NoDest}]
      BY DEF OpsInv, OpsTypeOK
    <3> QED BY <1>1, <3>1 DEF DestsKept
  <2> QED BY <1>3, <1>4, <1>5, <2>1, RecommendationsStillFit
<1> QED BY <1>4, <1>8, <1>12, <1>13, <1>14, <1>15, <1>16 DEF OpsInv, RecommendationsExplained
\* What a request becomes that goes on, or is over.
LEMMA ContinuesKeeps ==
  ASSUME OpsInv, NEW a \in Askers, asks[a].op = "apply", Continues(a)
  PROVE  /\ RequestsSound' /\ asks' \in [Askers -> OpsRequest]
         /\ \A b \in Askers : /\ asks'[b].rec \in {0, asks[b].rec} /\ asks'[b].saw \in {0, asks[b].saw}
                              /\ asks'[b].read \in {NoDest, asks[b].read}
<1>1. CASE ~asks[a].run
  <2>1. AskBecomes(a, NoOpsRequest)
    BY <1>1 DEF Continues, AskBecomes
  <2> QED BY <2>1, RequestIsOver
<1>2. CASE asks[a].run
  <2>a. PICK old \in OpsRequest : old = asks[a]
    BY DEF OpsInv, OpsTypeOK
  <2>b. PICK q : q = [old EXCEPT !.rec = 0, !.read = NoDest]
    OBVIOUS
  <2>1. AskBecomes(a, q)
    BY <1>2, <2>a, <2>b DEF Continues, AskBecomes
  <2>2. 0 \in 0..MaxRecs
    BY OpsAssumption
  <2>3. /\ q \in OpsRequest /\ q.rec = 0 /\ q.read = NoDest /\ q.op = old.op /\ q.was = old.was
        /\ q.saw = old.saw
    BY <2>b, <2>2 DEF OpsRequest
  <2>4. q.op = "apply" /\ q.op \notin Settings
    BY <2>a, <2>3 DEF Settings
  <2>5. /\ RequestsSound' /\ asks' \in [Askers -> OpsRequest]
        /\ asks'[a] = q /\ \A b \in Askers : b # a => asks'[b] = asks[b]
    BY <2>1, <2>3, <2>4, RequestChanges
  <2> QED BY <2>a, <2>3, <2>5
<1> QED BY <1>1, <1>2

LEMMA ApplyFailsHolds == ASSUME OpsInv, NEW a \in Askers, ApplyFails(a) PROVE OpsInv'
<1>1. /\ Continues(a) /\ asks[a].op = "apply"
      /\ UNCHANGED <<seen, dests, recs, rule, applies, overwrites, reused, raced, edits>>
  BY DEF ApplyFails
<1>2. /\ RequestsSound' /\ asks' \in [Askers -> OpsRequest]
      /\ \A b \in Askers : /\ asks'[b].rec \in {0, asks[b].rec} /\ asks'[b].saw \in {0, asks[b].saw}
                           /\ asks'[b].read \in {NoDest, asks[b].read}
  BY <1>1, ContinuesKeeps
<1>3. OpsTypeOK'
  BY <1>1, <1>2 DEF OpsInv, OpsTypeOK
<1>4. RecommendationsExplained' /\ AppliesCounted'
  BY <1>1 DEF OpsInv, RecommendationsExplained, OneOpenPerChat, AppliedOnceUnlessOverwritten,
    AutomationUnderLowRisk, Like, AppliesCounted
<1>5. ScansLookBack'
  BY <1>1, <1>2, RecordedAreCounted DEF OpsInv, ScansLookBack
<1>6. RecommendationsFit'
  <2>1. DestsKept
    <3>1. dests \in [DestIds -> Dest \cup {NoDest}]
      BY DEF OpsInv, OpsTypeOK
    <3> QED BY <1>1, <3>1 DEF DestsKept
  <2> QED BY <1>1, <1>2, <2>1, RecommendationsStillFit
<1> QED BY <1>2, <1>3, <1>4, <1>5, <1>6 DEF OpsInv

LEMMA ApplyHolds == ASSUME OpsInv, NEW a \in Askers, Apply(a) PROVE OpsInv' /\ ChatsKept
<1>a. PICK i : i = asks[a].rec
  OBVIOUS
<1>b. PICK r : r = asks[a].read
  OBVIOUS
<1>1. /\ asks[a].op = "apply" /\ i # 0 /\ recs[i].status \in Actionable /\ ChangesDestination(r)
      /\ recs' = [recs EXCEPT ![i].status = "applied"]
      /\ applies' = [applies EXCEPT ![i] = @ + 1] /\ Continues(a)
      /\ UNCHANGED <<seen, rule, overwrites, raced, edits>>
  BY <1>a, <1>b DEF Apply
<1>2. i \in DOMAIN recs
  BY <1>a, <1>1 DEF OpsInv, OpsTypeOK
<1>3. r \in Rec /\ Fits(r)
  <2>1. r \in Rec
    BY <1>a, <1>b, <1>1 DEF OpsInv, RequestsSound
  <2>2. r # NoDest
    BY <2>1, NoDestIsNone
  <2> QED BY <1>b, <2>1, <2>2 DEF OpsInv, RecommendationsFit
<1>4. /\ dests' \in [DestIds -> Dest \cup {NoDest}] /\ reused' \subseteq DestIds
      /\ DestsKept /\ ChatsKept
  BY <1>1, <1>3, ChangesDestinationKeeps
<1>5. /\ RequestsSound' /\ asks' \in [Askers -> OpsRequest]
      /\ \A b \in Askers : /\ asks'[b].rec \in {0, asks[b].rec} /\ asks'[b].saw \in {0, asks[b].saw}
                           /\ asks'[b].read \in {NoDest, asks[b].read}
  BY <1>1, ContinuesKeeps
<1>6. /\ recs' \in Seq(Rec) /\ Len(recs') = Len(recs) /\ DOMAIN recs' = DOMAIN recs
      /\ recs'[i].status = "applied"
      /\ \A j \in DOMAIN recs : /\ recs'[j].kind = recs[j].kind /\ recs'[j].chat = recs[j].chat
                                /\ recs'[j].dest = recs[j].dest
                                /\ j # i => recs'[j].status = recs[j].status
  BY <1>1, <1>2, StatusWritten
<1>7. /\ applies \in [RecIds -> Nat] /\ overwrites \in [RecIds -> Nat] /\ DOMAIN recs \subseteq RecIds
      /\ Len(recs) <= MaxRecs /\ DOMAIN recs = 1..Len(recs)
  BY ApplicationsAreNumbers
<1>8. /\ applies' \in [RecIds -> Nat] /\ applies'[i] = applies[i] + 1
      /\ \A j \in RecIds : j # i => applies'[j] = applies[j]
  BY <1>1, <1>2, <1>7
<1>9. OpsTypeOK'
  <2>1. \A b \in Askers : asks'[b].rec \in {0} \cup DOMAIN recs'
    BY <1>5, <1>6 DEF OpsInv, OpsTypeOK
  <2> QED BY <1>1, <1>4, <1>5, <1>6, <1>7, <1>8, <2>1 DEF OpsInv, OpsTypeOK
<1>10. applies[i] <= overwrites[i]
  BY <1>1, <1>2 DEF OpsInv, AppliesCounted, Actionable
<1>11. AppliesCounted'
  <2>1. \A j \in DOMAIN recs : recs'[j].status # "applied" => applies'[j] <= overwrites[j]
    <3>1. \A j \in DOMAIN recs : recs[j].status # "applied" => applies[j] <= overwrites[j]
      BY DEF OpsInv, AppliesCounted
    <3> QED BY <1>6, <1>7, <1>8, <3>1
  <2>2. \A j \in RecIds : j \notin DOMAIN recs => applies'[j] = 0 /\ overwrites[j] = 0
    BY <1>2, <1>8 DEF OpsInv, AppliesCounted
  <2> QED BY <1>1, <1>6, <2>1, <2>2 DEF AppliesCounted
<1>12. AppliedOnceUnlessOverwritten'
  <2>1. ASSUME NEW j \in DOMAIN recs
        PROVE  /\ applies'[j] <= 1 + overwrites[j]
               /\ overwrites[j] = 0 => (applies'[j] = 1 <=> recs'[j].status = "applied")
    <3>1. CASE j = i
      <4>1. applies[i] \in Nat /\ overwrites[i] \in Nat
        BY <1>2, <1>7
      <4> QED BY <1>6, <1>8, <1>10, <3>1, <4>1
    <3>2. CASE j # i
      <4>1. /\ applies[j] <= 1 + overwrites[j]
            /\ overwrites[j] = 0 => (applies[j] = 1 <=> recs[j].status = "applied")
        BY DEF OpsInv, RecommendationsExplained, AppliedOnceUnlessOverwritten
      <4>2. applies'[j] = applies[j] /\ recs'[j].status = recs[j].status
        BY <1>6, <1>7, <1>8, <3>2
      <4> QED BY <4>1, <4>2
    <3> QED BY <3>1, <3>2
  <2> QED BY <1>1, <1>6, <2>1 DEF AppliedOnceUnlessOverwritten
<1>13. OneOpenPerChat'
  <2>1. ASSUME NEW j \in DOMAIN recs, NEW k \in DOMAIN recs, j # k,
               recs'[j].status \in Actionable, recs'[k].status \in Actionable,
               recs'[k].kind = recs'[j].kind, recs'[k].chat = recs'[j].chat
        PROVE  overwrites[j] + overwrites[k] > 0
    <3>1. j # i /\ k # i
      BY <1>6, <2>1 DEF Actionable
    <3>2. /\ recs[j].status \in Actionable /\ recs[k].status \in Actionable
          /\ recs[k].kind = recs[j].kind /\ recs[k].chat = recs[j].chat
      BY <1>6, <2>1, <3>1
    <3> QED BY <2>1, <3>2, OneOpenInPairs DEF OpsInv, RecommendationsExplained
  <2> QED BY <1>1, <1>6, <2>1, OneOpenInPairsNext
<1>14. AutomationUnderLowRisk' /\ ScansLookBack'
  BY <1>1, <1>5, RecordedAreCounted DEF OpsInv, RecommendationsExplained, AutomationUnderLowRisk, ScansLookBack
<1>15. RecommendationsFit'
  BY <1>4, <1>5, <1>6, <1>7, RecommendationsStillFit
<1> QED BY <1>4, <1>5, <1>9, <1>11, <1>12, <1>13, <1>14, <1>15 DEF OpsInv, RecommendationsExplained

LEMMA OpsStutters == ASSUME OpsInv, UNCHANGED opsVars PROVE OpsInv'
<1>1. UNCHANGED <<seen, dests, recs, rule, asks, applies, overwrites, reused, raced, edits>>
  BY DEF opsVars
<1>2. OpsTypeOK' /\ RecommendationsExplained' /\ AppliesCounted' /\ ScansLookBack'
  BY <1>1 DEF OpsInv, OpsTypeOK, RecommendationsExplained, OneOpenPerChat,
    AppliedOnceUnlessOverwritten, AutomationUnderLowRisk, Like, AppliesCounted, ScansLookBack
<1>3. RequestsSound'
  BY <1>1 DEF OpsInv, RequestsSound, Allowed, Changed
<1> QED BY <1>1, <1>2, <1>3, FitUnchanged DEF OpsInv

\* Only operators and requests that apply change destinations.
LEMMA ChatsStay == ASSUME UNCHANGED dests PROVE ChatsKept
BY DEF ChatsKept

LEMMA OpsStep == OpsInv /\ [OpsNext]_opsVars => OpsInv' /\ ChatsKept
<1> SUFFICES ASSUME OpsInv, [OpsNext]_opsVars PROVE OpsInv' /\ ChatsKept
  OBVIOUS
<1>1. CASE UNCHANGED opsVars
  <2>1. UNCHANGED dests
    BY <1>1 DEF opsVars
  <2> QED BY <1>1, <2>1, OpsStutters, ChatsStay
<1>2. CASE OperatorEdits
  BY <1>2, OperatorEditsHolds
<1>3. CASE PauseOrResume
  <2>1. UNCHANGED dests
    BY <1>3 DEF PauseOrResume
  <2> QED BY <1>3, <2>1, PauseOrResumeHolds, ChatsStay
<1>4. CASE Observe
  <2>1. UNCHANGED dests
    BY <1>4 DEF Observe
  <2> QED BY <1>4, <2>1, ObserveHolds, ChatsStay
<1>5. ASSUME NEW a \in Askers, ScanRequest(a) PROVE OpsInv' /\ ChatsKept
  <2>1. UNCHANGED dests
    BY <1>5 DEF ScanRequest, BeginScan, FinishScan
  <2> QED BY <1>5, <2>1, BeginScanHolds, FinishScanHolds, ChatsStay DEF ScanRequest
<1>6. ASSUME NEW a \in Askers, PreviewRequest(a) PROVE OpsInv' /\ ChatsKept
  <2>1. UNCHANGED dests
    BY <1>6 DEF PreviewRequest, ReadRec, WritePreview, Mark
  <2>2. CASE WritePreview(a)
    BY <2>1, <2>2, MarkHolds, ChatsStay DEF WritePreview
  <2>3. ASSUME NEW i \in DOMAIN recs, ReadRec(a, i, "preview") PROVE OpsInv'
    BY <2>3, ReadRecHolds
  <2> QED BY <1>6, <2>1, <2>2, <2>3, ChatsStay DEF PreviewRequest
<1>7. ASSUME NEW a \in Askers, DismissRequest(a) PROVE OpsInv' /\ ChatsKept
  <2>1. UNCHANGED dests
    BY <1>7 DEF DismissRequest, ReadRec, WriteDismiss, Mark
  <2>2. CASE WriteDismiss(a)
    BY <2>1, <2>2, MarkHolds, ChatsStay DEF WriteDismiss
  <2>3. ASSUME NEW i \in DOMAIN recs, ReadRec(a, i, "dismiss") PROVE OpsInv'
    BY <2>3, ReadRecHolds
  <2> QED BY <1>7, <2>1, <2>2, <2>3, ChatsStay DEF DismissRequest
<1>8. ASSUME NEW a \in Askers, ApplyRequest(a) PROVE OpsInv' /\ ChatsKept
  <2>1. ASSUME NEW i \in DOMAIN recs, ReadRec(a, i, "apply") PROVE OpsInv' /\ ChatsKept
    <3>1. UNCHANGED dests
      BY <2>1 DEF ReadRec
    <3> QED BY <2>1, <3>1, ReadRecHolds, ChatsStay
  <2>2. CASE Apply(a)
    BY <2>2, ApplyHolds
  <2>3. CASE ApplyFails(a)
    <3>1. UNCHANGED dests
      BY <2>3 DEF ApplyFails
    <3> QED BY <2>3, <3>1, ApplyFailsHolds, ChatsStay
  <2> QED BY <1>8, <2>1, <2>2, <2>3 DEF ApplyRequest
<1>9. ASSUME NEW a \in Askers, RuleRequest(a) PROVE OpsInv' /\ ChatsKept
  <2>1. UNCHANGED dests
    BY <1>9 DEF RuleRequest, ReadRule, WriteRule
  <2> QED BY <1>9, <2>1, ReadRuleHolds, WriteRuleHolds, ChatsStay DEF RuleRequest
<1>10. ASSUME NEW a \in Askers, RuleRun(a) PROVE OpsInv' /\ ChatsKept
  <2>1. UNCHANGED dests
    BY <1>10 DEF RuleRun, BeginRun, RunPicks
  <2> QED BY <1>10, <2>1, BeginRunHolds, RunPicksHolds, ChatsStay DEF RuleRun
<1>11. ASSUME NEW a \in Askers, RequestEnds(a) PROVE OpsInv' /\ ChatsKept
  <2>1. UNCHANGED dests
    BY <1>11 DEF RequestEnds
  <2> QED BY <1>11, <2>1, RequestEndsHolds, ChatsStay
<1> QED BY <1>1, <1>2, <1>3, <1>4, <1>5, <1>6, <1>7, <1>8, <1>9, <1>10, <1>11 DEF OpsNext

LEMMA OpsInvariant == OpsSpec => []OpsInv
<1>1. OpsInv /\ [OpsNext]_opsVars => OpsInv'
  BY OpsStep
<1> QED BY <1>1, OpsInitHolds, PTL DEF OpsSpec

\* The tables, the requests under way and what they count keep their types.
THEOREM OpsTypeCorrect == OpsSpec => []OpsTypeOK
<1>1. OpsInv => OpsTypeOK
  BY DEF OpsInv
<1> QED BY <1>1, OpsInvariant, PTL

(***************************************************************************)
(* One open recommendation for a chat, each applied once, by a rule only   *)
(* under a low limit of risk, whichever scans, previews, dismissals, rule  *)
(* runs and rule updates overlap (TelegramOpsService): or a request has    *)
(* written over what another one had read.                                 *)
(***************************************************************************)
THEOREM RecommendationsAreExplained == OpsSpec => []RecommendationsExplained
<1>1. OpsInv => RecommendationsExplained
  BY DEF OpsInv
<1> QED BY <1>1, OpsInvariant, PTL

(***************************************************************************)
(* No recommendation, however old, moves a destination to another chat     *)
(* (_apply_destination_action): except where the destination it names was  *)
(* deleted and the database has given its id to another one.               *)
(***************************************************************************)
THEOREM DestinationsStayWithTheirChat == OpsSpec => DestinationsKeepTheirChat
<1>1. OpsInv /\ [OpsNext]_opsVars
        => [\A d \in Present : dests'[d].chat \in {dests[d].chat, NoChat} \/ d \in reused]_opsVars
  BY OpsStep DEF ChatsKept
<1> QED BY <1>1, OpsInvariant, PTL DEF OpsSpec, DestinationsKeepTheirChat

-----------------------------------------------------------------------------
(* Logs of commits.                                                         *)

LEMMA PrefixIsLogged ==
  ASSUME NEW S, NEW s \in Seq(S), NEW t \in Seq(S), IsPrefix(s, t)
  PROVE  Logged(s) \subseteq Logged(t)
<1> SUFFICES ASSUME NEW i \in DOMAIN s PROVE i \in DOMAIN t /\ s[i] = t[i]
  BY DEF Logged
<1>1. Len(s) <= Len(t) /\ SubSeq(s, 1, Len(s)) = SubSeq(t, 1, Len(s)) /\ i \in 1..Len(s)
  BY DEF IsPrefix
<1>2. SubSeq(s, 1, Len(s))[i] = s[i] /\ SubSeq(t, 1, Len(s))[i] = t[i]
  BY <1>1
<1> QED BY <1>1, <1>2

LEMMA AppendedIsLogged ==
  ASSUME NEW S, NEW s \in Seq(S), NEW c
  PROVE  Logged(Append(s, c)) = Logged(s) \cup {c} /\ Append(s, c) \in Seq(S \cup {c})
<1>1. s \in Seq(S \cup {c})
  OBVIOUS
<1>2. /\ Append(s, c) \in Seq(S \cup {c}) /\ Len(Append(s, c)) = Len(s) + 1
      /\ Append(s, c)[Len(s) + 1] = c
      /\ \A i \in 1..Len(s) : Append(s, c)[i] = s[i]
  BY <1>1
<1>3. DOMAIN Append(s, c) = 1..Len(s) \cup {Len(s) + 1} /\ DOMAIN s = 1..Len(s)
  BY <1>1, <1>2
<1> QED BY <1>2, <1>3 DEF Logged

LEMMA LastIsLogged ==
  ASSUME NEW S, NEW s \in Seq(S), s # <<>> PROVE Last(s) \in Logged(s)
<1>1. Len(s) \in DOMAIN s
  OBVIOUS
<1> QED BY <1>1 DEF Last, Logged

-----------------------------------------------------------------------------
(* The inductive invariant.                                                 *)

Clone(log, file, exists) == [log |-> log, file |-> file, exists |-> exists]

LogsOf(S) ==
  remote \in Seq(S)
    /\ \A h \in Hosts : /\ clones[h] = Clone(clones[h].log, clones[h].file, clones[h].exists)
                        /\ clones[h].log \in Seq(S)

BackupsTyped ==
  /\ \E S : LogsOf(S)
  /\ DOMAIN clones = Hosts /\ configuration \in Configurations
  /\ \E S : backupRuns \in Seq(S)
  /\ dueRuns \in Seq(Nat)

\* A check that waits is as old as a run that is not the latest, or the interval is over.
ChecksSound ==
  /\ \A k \in 1..Len(dueRuns) : dueRuns[k] <= Len(backupRuns)
  /\ recent => /\ backupRuns # <<>> /\ LatestRun.finished
               /\ \A k \in 1..Len(dueRuns) : dueRuns[k] # Len(backupRuns)

BackupJob(at, j, commit) ==
  [at |-> at, host |-> j.host, holds |-> j.holds, push |-> j.push, commit |-> commit,
   early |-> j.early, tooSoon |-> j.tooSoon]

InRemote(commit, holds) == commit # 0 => GitCommit(commit, holds) \in Logged(remote)
Silent(push, commit, holds) ==
  push /\ commit = 0 => \E c \in Logged(remote) \cup stranded : c.holds = holds

\* The commit of a job is in its clone until it is in the remote's branch.
JobTracked ==
  job # NoJob =>
    /\ job = BackupJob(job.at, job, job.commit)
    /\ job.host \in Hosts /\ job.holds \in Configurations /\ (job.tooSoon => job.early)
    /\ job.at \in {"syncing", "writing", "committing", "pushing", "done", "failed"}
    /\ job.at \in {"syncing", "writing", "committing", "failed"} => job.commit = 0
    /\ job.at = "committing" => clones[job.host].file = job.holds
    /\ job.at = "pushing" => GitCommit(job.commit, job.holds) \in Logged(clones[job.host].log)
    /\ job.at = "done" => /\ InRemote(job.commit, job.holds)
                          /\ Silent(job.push, job.commit, job.holds)

\* A clone holds nothing but what was pushed, or failed to be, or is being pushed.
ClonesAccounted ==
  \A h \in Hosts :
    (job.at = "pushing" /\ job.host = h) \/ Logged(clones[h].log) \subseteq Logged(remote) \cup stranded

BackupsInv == BackupsTyped /\ ChecksSound /\ JobTracked /\ ClonesAccounted /\ BackupRunsExplained

LEMMA BackupsInitHolds == BackupsInit => BackupsInv
<1> SUFFICES ASSUME BackupsInit PROVE BackupsInv
  OBVIOUS
<1>1. /\ configuration \in Configurations /\ backupRuns = <<>> /\ recent = FALSE /\ dueRuns = <<>>
      /\ job = NoJob /\ clones = [h \in Hosts |-> NoClone] /\ remote = <<>>
  BY DEF BackupsInit
<1>2. BackupsTyped
  <2>1. \A h \in Hosts : clones[h] = Clone(<<>>, NoFile, FALSE)
    BY <1>1 DEF Clone, NoClone
  <2>2. \A h \in Hosts : /\ clones[h].log = <<>> /\ clones[h].file = NoFile
                         /\ clones[h].exists = FALSE
    BY <2>1 DEF Clone
  <2>5. <<>> \in Seq({})
    OBVIOUS
  <2>3. LogsOf({})
    BY <1>1, <2>1, <2>2, <2>5 DEF LogsOf
  <2>4. backupRuns \in Seq({})
    BY <1>1
  <2> QED BY <1>1, <2>3, <2>4 DEF BackupsTyped
<1>3. ChecksSound
  BY <1>1 DEF ChecksSound
<1>4. JobTracked
  BY <1>1 DEF JobTracked
<1>5. ClonesAccounted
  BY <1>1 DEF ClonesAccounted, NoClone, Logged
<1>6. BackupRunsExplained
  BY <1>1 DEF BackupRunsExplained, ReportedCommitsArrive, SilentSuccessExplained, SoonOnlyAfterOverlap
<1> QED BY <1>2, <1>3, <1>4, <1>5, <1>6 DEF BackupsInv

\* Nothing leaves the remote's branch or the list of what is stranded.
LEMMA RunsStayExplained ==
  ASSUME BackupRunsExplained, UNCHANGED backupRuns, Logged(remote) \subseteq Logged(remote'),
         stranded \subseteq stranded'
  PROVE  BackupRunsExplained'
<1>1. ReportedCommitsArrive'
  BY DEF BackupRunsExplained, ReportedCommitsArrive
<1>2. SilentSuccessExplained'
  BY DEF BackupRunsExplained, SilentSuccessExplained
<1>3. SoonOnlyAfterOverlap'
  BY DEF BackupRunsExplained, SoonOnlyAfterOverlap
<1> QED BY <1>1, <1>2, <1>3 DEF BackupRunsExplained

\* Steps of the schedule and of the job leave each other alone.
LEMMA ScheduleKept ==
  ASSUME ChecksSound, UNCHANGED <<recent, backupRuns, dueRuns>> PROVE ChecksSound'
BY DEF ChecksSound, LatestRun

LEMMA RunAppended ==
  ASSUME BackupsInv, NEW r, backupRuns' = Append(backupRuns, r)
  PROVE  /\ \E S : backupRuns' \in Seq(S)
         /\ Len(backupRuns) \in Nat /\ Len(backupRuns') = Len(backupRuns) + 1
         /\ DOMAIN backupRuns = 1..Len(backupRuns) /\ DOMAIN backupRuns' = 1..Len(backupRuns')
         /\ backupRuns'[Len(backupRuns) + 1] = r
         /\ \A i \in 1..Len(backupRuns) : backupRuns'[i] = backupRuns[i]
         /\ Last(backupRuns') = r /\ backupRuns' # <<>>
<1>1. PICK S : backupRuns \in Seq(S)
  BY DEF BackupsInv, BackupsTyped
<1>2. backupRuns \in Seq(S \cup {r})
  BY <1>1
<1>3. backupRuns' \in Seq(S \cup {r})
  BY <1>2
<1> QED BY <1>2, <1>3 DEF Last

LEMMA JobKept ==
  ASSUME JobTracked, job # NoJob, job' = BackupJob(job'.at, job, job'.commit),
         job'.at \in {"syncing", "writing", "committing", "pushing", "done", "failed"},
         job'.at \in {"syncing", "writing", "committing", "failed"} => job'.commit = 0,
         job'.at = "committing" => clones'[job.host].file = job.holds,
         job'.at = "pushing" => GitCommit(job'.commit, job.holds) \in Logged(clones'[job.host].log),
         job'.at = "done" =>
           /\ job'.commit # 0 => GitCommit(job'.commit, job.holds) \in Logged(remote')
           /\ job.push /\ job'.commit = 0 =>
                \E c \in Logged(remote') \cup stranded' : c.holds = job.holds
  PROVE  JobTracked' /\ job'.host = job.host /\ job'.holds = job.holds
<1>1. /\ job'.host = job.host /\ job'.holds = job.holds /\ job'.push = job.push
      /\ job'.early = job.early /\ job'.tooSoon = job.tooSoon
  BY DEF BackupJob
<1>2. job' = BackupJob(job'.at, job', job'.commit)
  BY <1>1 DEF BackupJob
<1>3. job.host \in Hosts /\ job.holds \in Configurations /\ (job.tooSoon => job.early)
  BY DEF JobTracked
<1>4. (job'.at = "done" => InRemote(job.commit, job.holds)')
  BY <1>1 DEF InRemote
<1>5. (job'.at = "done" => Silent(job.push, job.commit, job.holds)')
  BY <1>1 DEF Silent
<1> QED BY <1>1, <1>2, <1>3, <1>4, <1>5 DEF JobTracked

\* What the job is, wherever it moves.
LEMMA JobMoved ==
  ASSUME JobTracked, job # NoJob, NEW at, NEW commit
  PROVE  /\ [job EXCEPT !.at = at] = BackupJob(at, job, job.commit)
         /\ [job EXCEPT !.at = at, !.commit = commit] = BackupJob(at, job, commit)
<1> PICK j : j = job
  OBVIOUS
<1>1. j = [at |-> j.at, host |-> j.host, holds |-> j.holds, push |-> j.push, commit |-> j.commit,
           early |-> j.early, tooSoon |-> j.tooSoon]
  BY DEF JobTracked, BackupJob
<1>2. [j EXCEPT !.at = at] = BackupJob(at, j, j.commit)
  BY <1>1 DEF BackupJob
<1>3. [j EXCEPT !.at = at, !.commit = commit] = BackupJob(at, j, commit)
  <2> PICK k : k = [j EXCEPT !.at = at, !.commit = commit]
    OBVIOUS
  <2>1. DOMAIN k = {"at", "host", "holds", "push", "commit", "early", "tooSoon"}
    BY <1>1
  <2>2. /\ k.at = at /\ k.commit = commit /\ k.host = j.host /\ k.holds = j.holds
        /\ k.push = j.push /\ k.early = j.early /\ k.tooSoon = j.tooSoon
    BY <1>1
  <2>3. k = [f \in DOMAIN k |-> k[f]]
    OBVIOUS
  <2> QED BY <2>1, <2>2, <2>3 DEF BackupJob
<1> QED BY <1>2, <1>3

CloneBecomes(h, clone) == clones' = [clones EXCEPT ![h] = clone]

LEMMA CloneWritten ==
  ASSUME BackupsInv, NEW h \in Hosts, NEW log, NEW file, NEW exists, NEW T, log \in Seq(T),
         CloneBecomes(h, Clone(log, file, exists)),
         UNCHANGED <<configuration, backupRuns, dueRuns, remote>>
  PROVE  /\ BackupsTyped'
         /\ clones'[h] = Clone(log, file, exists)
         /\ \A g \in Hosts \ {h} : clones'[g] = clones[g]
<1>1. PICK S : LogsOf(S)
  BY DEF BackupsInv, BackupsTyped
<1>2. DOMAIN clones = Hosts
  BY DEF BackupsInv, BackupsTyped
<1>3. /\ DOMAIN clones' = Hosts /\ clones'[h] = Clone(log, file, exists)
      /\ \A g \in Hosts \ {h} : clones'[g] = clones[g]
  BY <1>2 DEF CloneBecomes
<1>4. LogsOf(S \cup T)'
  <2>1. remote' \in Seq(S \cup T) /\ log \in Seq(S \cup T)
    BY <1>1 DEF LogsOf
  <2>2. ASSUME NEW g \in Hosts
        PROVE  /\ clones'[g] = Clone(clones'[g].log, clones'[g].file, clones'[g].exists)
               /\ clones'[g].log \in Seq(S \cup T)
    <3>1. CASE g = h
      <4>1. clones'[g].log = log /\ clones'[g].file = file /\ clones'[g].exists = exists
        BY <1>3, <3>1 DEF Clone
      <4> QED BY <1>3, <2>1, <3>1, <4>1
    <3>2. CASE g # h
      <4>1. clones'[g] = clones[g] /\ clones[g].log \in Seq(S \cup T)
        BY <1>1, <1>3, <3>2 DEF LogsOf
      <4> QED BY <1>1, <4>1 DEF LogsOf
    <3> QED BY <3>1, <3>2
  <2> QED BY <2>1, <2>2 DEF LogsOf, Clone
<1> QED BY <1>3, <1>4 DEF BackupsInv, BackupsTyped

\* A step that leaves the logs as they are, and pushes nothing.
LEMMA LogsKept ==
  ASSUME BackupsInv, UNCHANGED <<clones, remote, backupRuns>>, stranded \subseteq stranded',
         job.at = "pushing" => \/ job'.at = "pushing" /\ job'.host = job.host
                               \/ Logged(clones[job.host].log) \subseteq Logged(remote) \cup stranded'
  PROVE  ClonesAccounted' /\ BackupRunsExplained'
<1>1. BackupRunsExplained'
  BY RunsStayExplained DEF BackupsInv
<1>2. ClonesAccounted'
  BY DEF BackupsInv, ClonesAccounted
<1> QED BY <1>1, <1>2

-----------------------------------------------------------------------------
(* The schedule.                                                            *)

LEMMA ChecksDueStep == ASSUME BackupsInv, ChecksDue PROVE BackupsInv'
<1>1. /\ job = NoJob /\ dueRuns' = Append(dueRuns, Len(backupRuns)) /\ ~NotDue
      /\ UNCHANGED <<recent, configuration, backupRuns, job, clones, remote, stranded>>
  BY DEF ChecksDue
<1>2. dueRuns \in Seq(Nat) /\ Len(backupRuns) \in Nat
  BY DEF BackupsInv, BackupsTyped
<1>3. BackupsTyped'
  BY <1>1, <1>2 DEF BackupsInv, BackupsTyped, LogsOf
<1>4. ~recent
  BY <1>1 DEF NotDue, BackupsInv, ChecksSound
<1>5. \A k \in 1..Len(dueRuns') : dueRuns'[k] <= Len(backupRuns)
  BY <1>1, <1>2 DEF BackupsInv, ChecksSound
<1>6. ChecksSound'
  BY <1>1, <1>4, <1>5 DEF ChecksSound
<1>7. JobTracked'
  BY <1>1 DEF JobTracked
<1>8. ClonesAccounted' /\ BackupRunsExplained'
  BY <1>1, LogsKept DEF NoJob
<1> QED BY <1>3, <1>6, <1>7, <1>8 DEF BackupsInv

LEMMA BeginsStep ==
  ASSUME BackupsInv, NEW h \in Hosts, NEW push \in BOOLEAN, NEW newest, Begins(h, push, newest),
         h = "worker" /\ recent => newest # Len(backupRuns)
  PROVE  JobTracked' /\ ClonesAccounted' /\ BackupRunsExplained'
<1> PICK early : early = (newest # Len(backupRuns))
  OBVIOUS
<1> PICK tooSoon : tooSoon = (h = "worker" /\ recent)
  OBVIOUS
<1>1. /\ job = NoJob
      /\ job' = [at |-> IF push THEN "syncing" ELSE "done", host |-> h, holds |-> configuration,
                 push |-> push, commit |-> 0, early |-> early, tooSoon |-> tooSoon]
      /\ UNCHANGED <<backupRuns, clones, remote, stranded>>
  BY DEF Begins
<1>2. /\ job'.at = (IF push THEN "syncing" ELSE "done") /\ job'.host = h
      /\ job'.holds = configuration /\ job'.push = push /\ job'.commit = 0
      /\ job'.early = early /\ job'.tooSoon = tooSoon
  BY <1>1
<1>3. job' = BackupJob(job'.at, job', job'.commit)
  BY <1>1, <1>2 DEF BackupJob
<1>4. (job'.tooSoon => job'.early)
  BY <1>2
<1>5. JobTracked'
  BY <1>2, <1>3, <1>4 DEF JobTracked, InRemote, Silent, BackupsInv, BackupsTyped
<1>6. ClonesAccounted' /\ BackupRunsExplained'
  BY <1>1, LogsKept DEF NoJob
<1> QED BY <1>5, <1>6

LEMMA RunScheduledStep == ASSUME BackupsInv, NEW push \in BOOLEAN, RunScheduled(push) PROVE BackupsInv'
<1>1. dueRuns # <<>> /\ Begins("worker", push, Head(dueRuns)) /\ dueRuns' = Tail(dueRuns)
  BY DEF RunScheduled
<1>2. UNCHANGED <<recent, configuration, backupRuns, clones, remote, stranded>>
  BY <1>1 DEF Begins
<1>3. dueRuns \in Seq(Nat)
  BY DEF BackupsInv, BackupsTyped
<1>4. /\ dueRuns' \in Seq(Nat) /\ Head(dueRuns) = dueRuns[1] /\ 1 \in 1..Len(dueRuns)
      /\ \A k \in 1..Len(dueRuns') : dueRuns'[k] = dueRuns[k + 1] /\ k + 1 \in 1..Len(dueRuns)
  BY <1>1, <1>3
<1>5. recent => Head(dueRuns) # Len(backupRuns)
  BY <1>4 DEF BackupsInv, ChecksSound
<1> PICK newest : newest = Head(dueRuns)
  OBVIOUS
<1>6. JobTracked' /\ ClonesAccounted' /\ BackupRunsExplained'
  BY <1>1, <1>5, BeginsStep, BackupsAssumption
<1>7. ChecksSound'
  BY <1>2, <1>4 DEF BackupsInv, ChecksSound, LatestRun
<1>8. BackupsTyped'
  BY <1>2, <1>4 DEF BackupsInv, BackupsTyped, LogsOf
<1> QED BY <1>6, <1>7, <1>8 DEF BackupsInv

LEMMA RunManuallyStep == ASSUME BackupsInv, NEW push \in BOOLEAN, RunManually(push) PROVE BackupsInv'
<1> PICK newest : newest = Len(backupRuns)
  OBVIOUS
<1>1. Begins("api", push, newest) /\ UNCHANGED dueRuns
  BY DEF RunManually
<1>2. UNCHANGED <<recent, configuration, backupRuns, clones, remote, stranded>>
  BY <1>1 DEF Begins
<1>3. JobTracked' /\ ClonesAccounted' /\ BackupRunsExplained'
  BY <1>1, BeginsStep, BackupsAssumption
<1>4. ChecksSound'
  BY <1>1, <1>2, ScheduleKept DEF BackupsInv
<1>5. BackupsTyped'
  BY <1>1, <1>2 DEF BackupsInv, BackupsTyped, LogsOf
<1> QED BY <1>3, <1>4, <1>5 DEF BackupsInv

LEMMA IntervalPassesStep == ASSUME BackupsInv, IntervalPasses PROVE BackupsInv'
<1>1. recent' = FALSE /\ UNCHANGED <<configuration, backupRuns, dueRuns, job, clones, remote, stranded>>
  BY DEF IntervalPasses
<1>2. BackupsTyped' /\ ChecksSound'
  BY <1>1 DEF BackupsInv, BackupsTyped, LogsOf, ChecksSound
<1>3. JobTracked'
  BY <1>1 DEF BackupsInv, JobTracked, InRemote, Silent
<1>4. ClonesAccounted' /\ BackupRunsExplained'
  BY <1>1, LogsKept
<1> QED BY <1>2, <1>3, <1>4 DEF BackupsInv

-----------------------------------------------------------------------------
(* The push.                                                                *)

\* The job's logs and its clone.
LEMMA JobsLogs ==
  ASSUME BackupsInv, job # NoJob
  PROVE  \E S : /\ remote \in Seq(S) /\ Here.log \in Seq(S)
                /\ \A h \in Hosts : clones[h].log \in Seq(S)
                /\ Here = Clone(Here.log, Here.file, Here.exists)
                /\ job.host \in Hosts
BY DEF BackupsInv, BackupsTyped, LogsOf, JobTracked, Here

\* The job goes to a step before the push, or fails; the clones stay.
LEMMA JobMovesOn ==
  ASSUME BackupsInv, job.at \in {"syncing", "writing", "committing"},
         job' = BackupJob(job'.at, job, job'.commit), job'.commit = 0,
         job'.at \in {"writing", "failed"},
         UNCHANGED <<recent, configuration, backupRuns, dueRuns, clones, remote, stranded>>
  PROVE  BackupsInv'
<1>1. job # NoJob
  BY DEF NoJob
<1>2. JobTracked'
  BY <1>1, JobKept DEF BackupsInv
<1>3. ClonesAccounted' /\ BackupRunsExplained'
  BY LogsKept
<1>4. ChecksSound' /\ BackupsTyped'
  BY ScheduleKept DEF BackupsInv, BackupsTyped, LogsOf
<1> QED BY <1>2, <1>3, <1>4 DEF BackupsInv

\* The job's clone gets another log or file.
LEMMA CloneMoves ==
  ASSUME BackupsInv, job # NoJob, job.at # "pushing", NEW log, NEW file, NEW exists, NEW T, log \in Seq(T),
         CloneBecomes(job.host, Clone(log, file, exists)),
         \/ job'.at = "pushing" /\ job'.host = job.host
         \/ Logged(log) \subseteq Logged(remote) \cup stranded,
         UNCHANGED <<recent, configuration, backupRuns, dueRuns, remote, stranded>>
  PROVE  /\ BackupsTyped' /\ ChecksSound' /\ ClonesAccounted' /\ BackupRunsExplained'
         /\ clones'[job.host] = Clone(log, file, exists)
<1> PICK h \in Hosts : h = job.host
  BY DEF BackupsInv, JobTracked
<1>0. CloneBecomes(h, Clone(log, file, exists))
  OBVIOUS
<1>1. /\ BackupsTyped' /\ clones'[h] = Clone(log, file, exists)
      /\ \A g \in Hosts \ {h} : clones'[g] = clones[g]
  BY <1>0, CloneWritten
<1>2. clones'[h].log = log
  BY <1>1 DEF Clone
<1>3. ClonesAccounted'
  <2> SUFFICES ASSUME NEW g \in Hosts
               PROVE  \/ job'.at = "pushing" /\ job'.host = g
                      \/ Logged(clones'[g].log) \subseteq Logged(remote') \cup stranded'
    BY DEF ClonesAccounted, Logged
  <2>1. CASE g = h
    BY <1>2, <2>1
  <2>2. CASE g # h
    <3>1. Logged(clones[g].log) \subseteq Logged(remote) \cup stranded
      BY DEF BackupsInv, ClonesAccounted
    <3> QED BY <1>1, <2>2, <3>1
  <2> QED BY <2>1, <2>2
<1>4. ChecksSound' /\ BackupRunsExplained'
  BY ScheduleKept, RunsStayExplained DEF BackupsInv
<1> QED BY <1>1, <1>3, <1>4

LEMMA SyncsStep == ASSUME BackupsInv, Syncs PROVE BackupsInv'
<1>1. /\ job # NoJob /\ job.at = "syncing" /\ job.commit = 0 /\ JobTracked /\ job.host \in Hosts
      /\ UNCHANGED <<recent, configuration, backupRuns, dueRuns, remote, stranded>>
  BY DEF Syncs, NoJob, BackupsInv, JobTracked
<1>2. PICK S : /\ remote \in Seq(S) /\ Here.log \in Seq(S)
               /\ Here = Clone(Here.log, Here.file, Here.exists)
  BY <1>1, JobsLogs
<1>3. ASSUME NEW at \in {"writing", "failed"}, Moves(at)
      PROVE  job' = BackupJob(job'.at, job, job'.commit) /\ job'.commit = 0 /\ job'.at = at
  <2>1. job' = BackupJob(at, job, job.commit)
    BY <1>1, <1>3, JobMoved DEF Moves
  <2>2. job'.at = at /\ job'.commit = job.commit
    BY <2>1 DEF BackupJob
  <2> QED BY <1>1, <2>1, <2>2
<1>4. ASSUME NEW at \in {"writing", "failed"}, Moves(at), UNCHANGED clones PROVE BackupsInv'
  BY <1>1, <1>3, <1>4, JobMovesOn
<1>5. ASSUME Moves("writing"), NEW file, NEW exists,
             clones' = [clones EXCEPT ![job.host] = Clone(remote, file, exists)]
      PROVE  BackupsInv'
  <2> PICK log : log = remote
    OBVIOUS
  <2>1. /\ job' = BackupJob(job'.at, job, job'.commit) /\ job'.commit = 0 /\ job'.at = "writing"
    BY <1>3, <1>5
  <2>2. JobTracked'
    BY <1>1, <2>1, JobKept
  <2>3. CloneBecomes(job.host, Clone(log, file, exists))
    BY <1>5 DEF CloneBecomes
  <2>4. log \in Seq(S)
    BY <1>2
  <2>5. BackupsTyped' /\ ChecksSound' /\ ClonesAccounted' /\ BackupRunsExplained'
    BY <1>1, <2>3, <2>4, CloneMoves
  <2> QED BY <2>2, <2>5 DEF BackupsInv
<1>6. CASE /\ ~Here.exists
           /\ clones' = [clones EXCEPT ![job.host] = [log |-> remote, file |-> FileOf(remote), exists |-> TRUE]]
           /\ Moves("writing")
  <2> PICK file : file = FileOf(remote)
    OBVIOUS
  <2> QED BY <1>5, <1>6 DEF Clone
<1>7. CASE /\ Here.exists /\ Behind /\ (FileInTheWay => Here.file = FileOf(remote))
           /\ clones' = [clones EXCEPT ![job.host].log = remote,
                ![job.host].file = IF FileOf(remote) = FileOf(Here.log) THEN @ ELSE FileOf(remote)]
           /\ Moves("writing")
  <2> PICK file : file = IF FileOf(remote) = FileOf(Here.log) THEN Here.file ELSE FileOf(remote)
    OBVIOUS
  <2> PICK h \in Hosts : h = job.host
    BY <1>1
  <2> PICK exists : exists = Here.exists
    OBVIOUS
  <2> PICK log : log = remote
    OBVIOUS
  <2> PICK c : c = clones
    OBVIOUS
  <2>1. c[h] = Clone(c[h].log, c[h].file, exists) /\ Here = c[h]
    BY <1>2 DEF Here
  <2>2. [c EXCEPT ![h].log = log, ![h].file = file] = [c EXCEPT ![h] = Clone(log, file, exists)]
    <3> PICK b : b = c[h]
      OBVIOUS
    <3> PICK r : r = [b EXCEPT !.log = log, !.file = file]
      OBVIOUS
    <3>1. b = [log |-> b.log, file |-> b.file, exists |-> exists]
      BY <2>1 DEF Clone
    <3>2. DOMAIN r = {"log", "file", "exists"}
      BY <3>1
    <3>3. r.log = log /\ r.file = file /\ r.exists = exists
      BY <3>1
    <3>4. r = [f \in DOMAIN r |-> r[f]]
      OBVIOUS
    <3>5. r = Clone(log, file, exists)
      BY <3>2, <3>3, <3>4 DEF Clone
    <3>6. h \in DOMAIN c
      BY DEF BackupsInv, BackupsTyped
    <3>7. [c EXCEPT ![h].log = log, ![h].file = file] = [c EXCEPT ![h] = r]
      BY <3>6
    <3> QED BY <3>5, <3>7
  <2>3. clones' = [c EXCEPT ![h].log = log, ![h].file = file]
    BY <1>7, <2>1
  <2>4. clones' = [clones EXCEPT ![job.host] = Clone(remote, file, exists)]
    BY <2>2, <2>3
  <2> QED BY <1>5, <1>7, <2>4
<1> QED BY <1>4, <1>6, <1>7 DEF Syncs

\* One field of a clone.
WithFile(c, h, file) == [c EXCEPT ![h].file = file]
WithCommit(c, h, x) == [c EXCEPT ![h].log = Append(@, x)]
WithClone(c, h, clone) == [c EXCEPT ![h] = clone]

LEMMA FieldOfClone ==
  ASSUME NEW c, NEW h \in DOMAIN c, NEW log, NEW file, NEW exists, NEW x,
         c[h] = Clone(log, file, exists)
  PROVE  /\ WithFile(c, h, x) = WithClone(c, h, Clone(log, x, exists))
         /\ WithCommit(c, h, x) = WithClone(c, h, Clone(Append(log, x), file, exists))
<1> PICK b : b = c[h]
  OBVIOUS
<1>1. b = [log |-> log, file |-> file, exists |-> exists]
  BY DEF Clone
<1>2. b.log = log
  BY <1>1
<1>3. [b EXCEPT !.file = x] = Clone(log, x, exists)
  BY <1>1 DEF Clone
<1>4. [b EXCEPT !.log = Append(log, x)] = Clone(Append(log, x), file, exists)
  BY <1>1, SMTT(20) DEF Clone
<1>5. [c EXCEPT ![h].file = x] = [c EXCEPT ![h] = [b EXCEPT !.file = x]]
  OBVIOUS
<1>6. [c EXCEPT ![h].log = Append(@, x)] = [c EXCEPT ![h] = [b EXCEPT !.log = Append(log, x)]]
  BY <1>2
<1> QED BY <1>3, <1>4, <1>5, <1>6 DEF WithFile, WithCommit, WithClone

LEMMA WritesStep == ASSUME BackupsInv, Writes PROVE BackupsInv'
<1>1. /\ job # NoJob /\ job.at = "writing" /\ job.commit = 0 /\ JobTracked /\ job.host \in Hosts
      /\ clones' = [clones EXCEPT ![job.host].file = job.holds] /\ Moves("committing")
      /\ UNCHANGED <<recent, configuration, backupRuns, dueRuns, remote, stranded>>
  BY DEF Writes, NoJob, BackupsInv, JobTracked
<1>2. PICK S : Here.log \in Seq(S) /\ Here = Clone(Here.log, Here.file, Here.exists)
  BY <1>1, JobsLogs
<1> PICK h \in Hosts : h = job.host
  BY <1>1
<1> PICK log : log = Here.log
  OBVIOUS
<1> PICK file : file = Here.file
  OBVIOUS
<1> PICK exists : exists = Here.exists
  OBVIOUS
<1> PICK c : c = clones
  OBVIOUS
<1> PICK holds : holds = job.holds
  OBVIOUS
<1>3. h \in DOMAIN c /\ c[h] = Clone(log, file, exists)
  BY <1>2 DEF Here, BackupsInv, BackupsTyped
<1>4. WithFile(c, h, holds) = WithClone(c, h, Clone(log, holds, exists))
  BY <1>3, FieldOfClone
<1>5. CloneBecomes(job.host, Clone(log, holds, exists)) /\ log \in Seq(S)
  BY <1>1, <1>2, <1>4 DEF CloneBecomes, WithFile, WithClone
<1>6. Logged(log) \subseteq Logged(remote) \cup stranded
  BY <1>1 DEF BackupsInv, ClonesAccounted, Here
<1>7. job.at # "pushing"
  BY <1>1
<1>8. /\ BackupsTyped' /\ ChecksSound' /\ ClonesAccounted' /\ BackupRunsExplained'
      /\ clones'[job.host] = Clone(log, holds, exists)
  BY <1>1, <1>2, <1>5, <1>6, <1>7, CloneMoves
<1>9. job' = BackupJob("committing", job, job.commit)
  BY <1>1, JobMoved DEF Moves
<1>10. job'.at = "committing" /\ job'.commit = 0 /\ job' = BackupJob(job'.at, job, job'.commit)
  BY <1>1, <1>9 DEF BackupJob
<1>11. clones'[job.host].file = job.holds
  BY <1>8 DEF Clone
<1>12. JobTracked'
  BY <1>1, <1>10, <1>11, JobKept
<1> QED BY <1>8, <1>12 DEF BackupsInv

\* With nothing new, the version is in the clone's last commit, which is accounted for.
LEMMA NothingNewIsKnown ==
  ASSUME BackupsInv, job.at = "committing", NothingNew
  PROVE  \E c \in Logged(remote) \cup stranded : c.holds = job.holds
<1>1. job # NoJob
  BY DEF NoJob
<1>2. Here.file = job.holds /\ job.holds \in Configurations
  BY <1>1 DEF BackupsInv, JobTracked, Here
<1>3. FileOf(Here.log) # NoFile
  BY <1>2, BackupsAssumption DEF NothingNew, NoFile
<1>4. Here.log # <<>> /\ Last(Here.log).holds = job.holds
  BY <1>2, <1>3 DEF NothingNew, FileOf
<1>5. PICK S : Here.log \in Seq(S) /\ job.host \in Hosts
  BY <1>1, JobsLogs
<1> PICK log : log = Here.log
  OBVIOUS
<1>6. Last(log) \in Logged(log)
  BY <1>4, <1>5, LastIsLogged
<1>7. Logged(log) \subseteq Logged(remote) \cup stranded
  BY <1>5 DEF BackupsInv, ClonesAccounted, Here
<1> QED BY <1>4, <1>6, <1>7

LEMMA MakesCommitStep == ASSUME BackupsInv, MakesCommit PROVE BackupsInv'
<1>1. /\ job # NoJob /\ job.at = "committing" /\ job.commit = 0 /\ JobTracked /\ job.host \in Hosts
      /\ UNCHANGED <<recent, configuration, backupRuns, dueRuns, remote, stranded>>
  BY DEF MakesCommit, NoJob, BackupsInv, JobTracked
<1>2. CASE NothingNew /\ Moves("done") /\ UNCHANGED clones
  <2>1. job' = BackupJob("done", job, job.commit)
    BY <1>1, <1>2, JobMoved DEF Moves
  <2>2. job'.at = "done" /\ job'.commit = 0 /\ job' = BackupJob(job'.at, job, job'.commit)
    BY <1>1, <2>1 DEF BackupJob
  <2>3. \E c \in Logged(remote') \cup stranded' : c.holds = job.holds
    BY <1>1, <1>2, NothingNewIsKnown
  <2>4. JobTracked'
    BY <1>1, <2>2, <2>3, JobKept
  <2>5. ClonesAccounted' /\ BackupRunsExplained'
    BY <1>1, <1>2, LogsKept
  <2>6. ChecksSound' /\ BackupsTyped'
    BY <1>1, <1>2, ScheduleKept DEF BackupsInv, BackupsTyped, LogsOf
  <2> QED BY <2>4, <2>5, <2>6 DEF BackupsInv
<1>3. CASE ~NothingNew
  <2> PICK n : n = Cardinality(Commits) + 1
    OBVIOUS
  <2>b. PICK x : x = GitCommit(n, job.holds)
    OBVIOUS
  <2>1. /\ clones' = [clones EXCEPT ![job.host].log = Append(@, x)]
        /\ job' = [job EXCEPT !.at = "pushing", !.commit = n]
    BY <1>3, <2>b DEF MakesCommit, GitCommit
  <2>2. PICK S : Here.log \in Seq(S) /\ Here = Clone(Here.log, Here.file, Here.exists)
    BY <1>1, JobsLogs
  <2> PICK h \in Hosts : h = job.host
    BY <1>1
  <2>c. PICK log : log = Here.log
    OBVIOUS
  <2> PICK file : file = Here.file
    OBVIOUS
  <2> PICK exists : exists = Here.exists
    OBVIOUS
  <2> PICK c : c = clones
    OBVIOUS
  <2>a. PICK more : more = Append(log, x)
    OBVIOUS
  <2>3. h \in DOMAIN c /\ c[h] = Clone(log, file, exists)
    BY <2>2, <2>c DEF Here, BackupsInv, BackupsTyped
  <2>4. WithCommit(c, h, x) = WithClone(c, h, Clone(more, file, exists))
    BY <2>a, <2>3, FieldOfClone
  <2>5. CloneBecomes(job.host, Clone(more, file, exists)) /\ log \in Seq(S)
    BY <2>1, <2>2, <2>c, <2>4 DEF CloneBecomes, WithCommit, WithClone
  <2>6. more \in Seq(S \cup {x}) /\ x \in Logged(more)
    <3>1. Append(log, x) \in Seq(S \cup {x}) /\ Logged(Append(log, x)) = Logged(log) \cup {x}
      BY <2>5, AppendedIsLogged
    <3> QED BY <2>a, <3>1
  <2>7. job' = BackupJob("pushing", job, n)
    BY <1>1, <2>1, JobMoved
  <2>8. /\ job'.at = "pushing" /\ job'.commit = n /\ job'.host = job.host
        /\ job' = BackupJob(job'.at, job, job'.commit)
    BY <2>7 DEF BackupJob
  <2>9. PICK T : more \in Seq(T)
    BY <2>6
  <2>10. /\ BackupsTyped' /\ ChecksSound' /\ ClonesAccounted' /\ BackupRunsExplained'
         /\ clones'[job.host] = Clone(more, file, exists)
    <3>1. /\ job # NoJob /\ job.at # "pushing" /\ more \in Seq(T)
          /\ CloneBecomes(job.host, Clone(more, file, exists))
          /\ job'.at = "pushing" /\ job'.host = job.host
          /\ UNCHANGED <<recent, configuration, backupRuns, dueRuns, remote, stranded>>
      BY <1>1, <2>5, <2>8, <2>9
    <3> QED BY <3>1, CloneMoves
  <2>11. GitCommit(job'.commit, job.holds) \in Logged(clones'[job.host].log)
    BY <2>6, <2>8, <2>b, <2>10 DEF Clone
  <2>12. JobTracked'
    BY <1>1, <2>8, <2>11, JobKept
  <2> QED BY <2>10, <2>12 DEF BackupsInv
<1> QED BY <1>2, <1>3 DEF MakesCommit

\* The commits of a push are in the remote's branch, or stranded.
LEMMA PushLeavesNothing ==
  ASSUME BackupsInv, job.at = "pushing",
         Logged(remote) \subseteq Logged(remote'), stranded \subseteq stranded',
         Logged(Here.log) \subseteq Logged(remote') \cup stranded',
         UNCHANGED <<clones, backupRuns>>
  PROVE  ClonesAccounted' /\ BackupRunsExplained'
<1>1. BackupRunsExplained'
  BY RunsStayExplained DEF BackupsInv
<1>2. ClonesAccounted'
  BY DEF BackupsInv, ClonesAccounted, Here
<1> QED BY <1>1, <1>2

LEMMA TypedWithRemote ==
  ASSUME BackupsInv, NEW h \in Hosts, remote' = remote \/ remote' = clones[h].log,
         UNCHANGED <<configuration, backupRuns, dueRuns, clones>>
  PROVE  BackupsTyped'
<1>1. PICK S : LogsOf(S)
  BY DEF BackupsInv, BackupsTyped
<1>2. LogsOf(S)'
  BY <1>1 DEF LogsOf, Clone
<1> QED BY <1>2 DEF BackupsInv, BackupsTyped

LEMMA PushesStep == ASSUME BackupsInv, Pushes PROVE BackupsInv'
<1>1. /\ job # NoJob /\ job.at = "pushing" /\ JobTracked /\ job.host \in Hosts
      /\ GitCommit(job.commit, job.holds) \in Logged(Here.log)
      /\ UNCHANGED <<recent, configuration, backupRuns, dueRuns, clones>>
  BY DEF Pushes, NoJob, BackupsInv, JobTracked, Here
<1>2. PICK S : remote \in Seq(S) /\ Here.log \in Seq(S)
  BY <1>1, JobsLogs
<1> PICK log : log = Here.log
  OBVIOUS
<1> PICK old : old = remote
  OBVIOUS
<1>3. ChecksSound'
  BY <1>1, ScheduleKept DEF BackupsInv
<1>4. CASE IsPrefix(old, log) /\ remote' = log /\ Moves("done") /\ UNCHANGED stranded
  <2>1. Logged(remote) \subseteq Logged(remote') /\ Logged(log) = Logged(remote')
    BY <1>2, <1>4, PrefixIsLogged
  <2>2. job' = BackupJob("done", job, job.commit)
    BY <1>1, <1>4, JobMoved DEF Moves
  <2>3. job'.at = "done" /\ job'.commit = job.commit /\ job' = BackupJob(job'.at, job, job'.commit)
    BY <2>2 DEF BackupJob
  <2>4. GitCommit(job.commit, job.holds) \in Logged(remote') /\ GitCommit(job.commit, job.holds).holds = job.holds
    BY <1>1, <2>1 DEF GitCommit
  <2>5. JobTracked'
    BY <1>1, <2>3, <2>4, JobKept
  <2>6. ClonesAccounted' /\ BackupRunsExplained'
    BY <1>1, <1>4, <2>1, PushLeavesNothing
  <2>7. BackupsTyped'
    BY <1>1, <1>4, TypedWithRemote DEF Here
  <2> QED BY <1>3, <2>5, <2>6, <2>7 DEF BackupsInv
<1>5. CASE /\ job' = [job EXCEPT !.at = "failed", !.commit = 0] /\ remote' = remote
           /\ stranded' = stranded \cup (Logged(log) \ Logged(remote))
  <2>1. job' = BackupJob("failed", job, 0)
    BY <1>1, <1>5, JobMoved
  <2>2. job'.at = "failed" /\ job'.commit = 0 /\ job' = BackupJob(job'.at, job, job'.commit)
    BY <2>1 DEF BackupJob
  <2>3. JobTracked'
    BY <1>1, <2>2, JobKept
  <2>4. ClonesAccounted' /\ BackupRunsExplained'
    BY <1>1, <1>5, PushLeavesNothing
  <2>5. BackupsTyped'
    BY <1>1, <1>5, TypedWithRemote
  <2> QED BY <1>3, <2>3, <2>4, <2>5 DEF BackupsInv
<1> QED BY <1>4, <1>5 DEF Pushes

LEMMA GitFailsStep == ASSUME BackupsInv, GitFails PROVE BackupsInv'
<1>1. /\ job # NoJob /\ job.at \in {"syncing", "writing", "committing", "pushing"}
      /\ JobTracked /\ job.host \in Hosts
      /\ job' = [job EXCEPT !.at = "failed", !.commit = 0]
      /\ UNCHANGED <<recent, configuration, backupRuns, dueRuns, clones>>
  BY DEF GitFails, NoJob, BackupsInv, JobTracked
<1>2. job' = BackupJob("failed", job, 0)
  BY <1>1, JobMoved
<1>3. job'.at = "failed" /\ job'.commit = 0 /\ job' = BackupJob(job'.at, job, job'.commit)
  BY <1>2 DEF BackupJob
<1>4. JobTracked' /\ ChecksSound'
  BY <1>1, <1>3, JobKept, ScheduleKept DEF BackupsInv
<1>5. CASE job.at # "pushing"
  <2>1. UNCHANGED <<remote, stranded>>
    BY <1>5 DEF GitFails
  <2>2. ClonesAccounted' /\ BackupRunsExplained'
    BY <1>1, <1>5, <2>1, LogsKept
  <2>3. BackupsTyped'
    BY <1>1, <2>1, TypedWithRemote
  <2> QED BY <1>4, <2>2, <2>3 DEF BackupsInv
<1>6. CASE job.at = "pushing"
  <2>1. PICK S : remote \in Seq(S) /\ Here.log \in Seq(S)
    BY <1>1, JobsLogs
  <2> PICK log : log = Here.log
    OBVIOUS
  <2> PICK old : old = remote
    OBVIOUS
  <2>2. /\ remote' = remote \/ (IsPrefix(old, log) /\ remote' = log)
        /\ stranded' = stranded \cup (Logged(log) \ Logged(old))
    BY <1>6 DEF GitFails
  <2>3. IsPrefix(old, log) => Logged(old) \subseteq Logged(log)
    BY <2>1, PrefixIsLogged
  <2>4. /\ Logged(remote) \subseteq Logged(remote')
        /\ Logged(log) \subseteq Logged(remote') \cup stranded'
    BY <2>2, <2>3
  <2>5. ClonesAccounted' /\ BackupRunsExplained'
    BY <1>1, <1>6, <2>2, <2>4, PushLeavesNothing
  <2>6. BackupsTyped'
    BY <1>1, <2>2, TypedWithRemote DEF Here
  <2> QED BY <1>4, <2>5, <2>6 DEF BackupsInv
<1> QED BY <1>5, <1>6

LEMMA RecordsStep == ASSUME BackupsInv, Records PROVE BackupsInv'
<1>1. /\ job # NoJob /\ job.at \in {"done", "failed"} /\ JobTracked
      /\ recent' = TRUE /\ job' = NoJob
      /\ UNCHANGED <<configuration, dueRuns, clones, remote, stranded>>
  BY DEF Records, NoJob, BackupsInv
<1> PICK r : r = [status |-> IF job.at = "done" THEN "succeeded" ELSE "failed",
                  holds |-> job.holds, push |-> job.push, commit |-> job.commit,
                  early |-> job.early, tooSoon |-> job.tooSoon, finished |-> TRUE]
  OBVIOUS
<1>2. backupRuns' = Append(backupRuns, r)
  BY DEF Records
<1>3. /\ \E S : backupRuns' \in Seq(S)
      /\ Len(backupRuns) \in Nat /\ Len(backupRuns') = Len(backupRuns) + 1
      /\ DOMAIN backupRuns = 1..Len(backupRuns) /\ DOMAIN backupRuns' = 1..Len(backupRuns')
      /\ backupRuns'[Len(backupRuns) + 1] = r
      /\ \A i \in 1..Len(backupRuns) : backupRuns'[i] = backupRuns[i]
      /\ Last(backupRuns') = r /\ backupRuns' # <<>>
  BY <1>2, RunAppended
<1>4. BackupsTyped'
  BY <1>1, <1>3 DEF BackupsInv, BackupsTyped, LogsOf
<1>5. ChecksSound'
  <2>1. \A k \in 1..Len(dueRuns) : dueRuns[k] \in Nat /\ dueRuns[k] <= Len(backupRuns)
    BY DEF BackupsInv, BackupsTyped, ChecksSound
  <2>2. LatestRun'.finished
    BY <1>3 DEF LatestRun
  <2> QED BY <1>1, <1>3, <2>1, <2>2 DEF ChecksSound
<1>6. JobTracked' /\ ClonesAccounted'
  BY <1>1 DEF JobTracked, BackupsInv, ClonesAccounted, NoJob
<1>7. /\ r.commit # 0 => GitCommit(r.commit, r.holds) \in Logged(remote)
      /\ r.status = "succeeded" /\ r.push /\ r.commit = 0 =>
           \E c \in Logged(remote) \cup stranded : c.holds = r.holds
      /\ r.tooSoon => r.early
  BY <1>1 DEF JobTracked, InRemote, Silent
<1>8. \A i \in DOMAIN backupRuns' : i \in DOMAIN backupRuns \/ backupRuns'[i] = r
  BY <1>3
<1>9. BackupRunsExplained'
  BY <1>1, <1>3, <1>7, <1>8 DEF BackupsInv, BackupRunsExplained, ReportedCommitsArrive,
    SilentSuccessExplained, SoonOnlyAfterOverlap
<1> QED BY <1>4, <1>5, <1>6, <1>9 DEF BackupsInv

LEMMA SafetyCopyStep == ASSUME BackupsInv, SafetyCopy PROVE BackupsInv'
<1> PICK r : r = [status |-> "pre_restore", holds |-> configuration, push |-> FALSE, commit |-> 0,
                  early |-> FALSE, tooSoon |-> FALSE, finished |-> FALSE]
  OBVIOUS
<1>1. /\ job = NoJob /\ recent' = FALSE /\ configuration' \in Configurations
      /\ backupRuns' = Append(backupRuns, r)
      /\ UNCHANGED <<dueRuns, job, clones, remote, stranded>>
  BY DEF SafetyCopy
<1>2. /\ \E S : backupRuns' \in Seq(S)
      /\ Len(backupRuns) \in Nat /\ Len(backupRuns') = Len(backupRuns) + 1
      /\ DOMAIN backupRuns = 1..Len(backupRuns) /\ DOMAIN backupRuns' = 1..Len(backupRuns')
      /\ backupRuns'[Len(backupRuns) + 1] = r
      /\ \A i \in 1..Len(backupRuns) : backupRuns'[i] = backupRuns[i]
  BY <1>1, RunAppended
<1>3. BackupsTyped'
  BY <1>1, <1>2 DEF BackupsInv, BackupsTyped, LogsOf
<1>4. ChecksSound'
  <2>1. \A k \in 1..Len(dueRuns) : dueRuns[k] \in Nat /\ dueRuns[k] <= Len(backupRuns)
    BY DEF BackupsInv, BackupsTyped, ChecksSound
  <2> QED BY <1>1, <1>2, <2>1 DEF ChecksSound
<1>5. JobTracked' /\ ClonesAccounted'
  BY <1>1 DEF JobTracked, BackupsInv, ClonesAccounted, NoJob
<1>6. \A i \in DOMAIN backupRuns' : i \in DOMAIN backupRuns \/ backupRuns'[i] = r
  BY <1>2
<1>7. r.commit = 0 /\ ~r.push /\ ~r.tooSoon
  OBVIOUS
<1>8. BackupRunsExplained'
  BY <1>1, <1>2, <1>6, <1>7 DEF BackupsInv, BackupRunsExplained, ReportedCommitsArrive,
    SilentSuccessExplained, SoonOnlyAfterOverlap
<1> QED BY <1>3, <1>4, <1>5, <1>8 DEF BackupsInv

LEMMA ConfigureStep == ASSUME BackupsInv, Configure PROVE BackupsInv'
<1>1. /\ job = NoJob /\ configuration' \in Configurations
      /\ UNCHANGED <<recent, backupRuns, dueRuns, job, clones, remote, stranded>>
  BY DEF Configure
<1>2. BackupsTyped' /\ ChecksSound'
  BY <1>1, ScheduleKept DEF BackupsInv, BackupsTyped, LogsOf
<1>3. JobTracked'
  BY <1>1 DEF JobTracked
<1>4. ClonesAccounted' /\ BackupRunsExplained'
  BY <1>1, LogsKept DEF NoJob
<1> QED BY <1>2, <1>3, <1>4 DEF BackupsInv

LEMMA HostDiesStep == ASSUME BackupsInv, HostDies PROVE BackupsInv'
<1>1. /\ job # NoJob /\ job' = NoJob /\ JobTracked /\ job.host \in Hosts
      /\ UNCHANGED <<recent, configuration, backupRuns, dueRuns, clones, remote>>
      /\ stranded' = IF job.at = "pushing" THEN stranded \cup (Logged(Here.log) \ Logged(remote))
                     ELSE stranded
  BY DEF HostDies, BackupsInv, JobTracked
<1>2. JobTracked' /\ ChecksSound' /\ BackupsTyped'
  BY <1>1, ScheduleKept DEF JobTracked, BackupsInv, BackupsTyped, LogsOf
<1>3. stranded \subseteq stranded'
  BY <1>1
<1>4. job.at = "pushing" => Logged(clones[job.host].log) \subseteq Logged(remote) \cup stranded'
  BY <1>1 DEF Here
<1>5. ClonesAccounted' /\ BackupRunsExplained'
  BY <1>1, <1>3, <1>4, LogsKept
<1> QED BY <1>2, <1>5 DEF BackupsInv

LEMMA RemoteMovesStep == ASSUME BackupsInv, RemoteMoves PROVE BackupsInv'
<1> PICK x : x = GitCommit(Cardinality(Commits) + 1, FileOf(remote))
  OBVIOUS
<1> PICK old : old = remote
  OBVIOUS
<1>1. /\ remote' = Append(old, x)
      /\ UNCHANGED <<recent, configuration, backupRuns, dueRuns, job, clones, stranded>>
  BY DEF RemoteMoves
<1>2. PICK S : LogsOf(S)
  BY DEF BackupsInv, BackupsTyped
<1>3. remote' \in Seq(S \cup {x}) /\ Logged(remote') = Logged(remote) \cup {x}
  <2>1. old \in Seq(S)
    BY <1>2 DEF LogsOf
  <2>2. Append(old, x) \in Seq(S \cup {x}) /\ Logged(Append(old, x)) = Logged(old) \cup {x}
    BY <2>1, AppendedIsLogged
  <2> QED BY <1>1, <2>2
<1>4. LogsOf(S \cup {x})'
  BY <1>1, <1>2, <1>3 DEF LogsOf, Clone
<1>5. BackupsTyped' /\ ChecksSound'
  BY <1>1, <1>4, ScheduleKept DEF BackupsInv, BackupsTyped
<1>6. JobTracked'
  BY <1>1, <1>3 DEF BackupsInv, JobTracked, InRemote, Silent
<1>7. ClonesAccounted' /\ BackupRunsExplained'
  BY <1>1, <1>3, RunsStayExplained DEF BackupsInv, ClonesAccounted
<1> QED BY <1>5, <1>6, <1>7 DEF BackupsInv

LEMMA ReplacesStep == ASSUME BackupsInv, NEW h \in Hosts, Replaces(h) PROVE BackupsInv'
<1>1. /\ clones' = [clones EXCEPT ![h] = NoClone] /\ (job # NoJob => job.host # h)
      /\ UNCHANGED <<recent, configuration, backupRuns, dueRuns, job, remote, stranded>>
  BY DEF Replaces
<1>a. PICK log : log = <<>>
  OBVIOUS
<1>b. PICK gone : gone = FALSE
  OBVIOUS
<1>c. PICK T : log \in Seq(T)
  <2>1. <<>> \in Seq({})
    OBVIOUS
  <2> QED BY <1>a, <2>1
<1>2. CloneBecomes(h, Clone(log, NoFile, gone)) /\ log \in Seq(T)
  <2>1. NoClone = Clone(log, NoFile, gone)
    BY <1>a, <1>b DEF Clone, NoClone
  <2> QED BY <1>1, <1>c, <2>1 DEF CloneBecomes
<1>3. /\ BackupsTyped' /\ clones'[h] = Clone(log, NoFile, gone)
      /\ \A g \in Hosts \ {h} : clones'[g] = clones[g]
  BY <1>1, <1>2, CloneWritten
<1>4. Logged(clones'[h].log) = {}
  BY <1>a, <1>3 DEF Clone, Logged
<1>5. ChecksSound' /\ BackupRunsExplained'
  BY <1>1, ScheduleKept, RunsStayExplained DEF BackupsInv
<1>6. JobTracked'
  <2>1. job # NoJob => clones'[job.host] = clones[job.host]
    BY <1>1, <1>3 DEF BackupsInv, JobTracked
  <2> QED BY <1>1, <2>1 DEF BackupsInv, JobTracked, InRemote, Silent
<1>7. ClonesAccounted'
  BY <1>1, <1>3, <1>4 DEF BackupsInv, ClonesAccounted
<1> QED BY <1>3, <1>5, <1>6, <1>7 DEF BackupsInv

LEMMA BackupsStep == ASSUME BackupsInv, [BackupsNext]_backupsVars PROVE BackupsInv'
<1>1. CASE ScheduledBackup
  BY <1>1, ChecksDueStep, RunScheduledStep DEF ScheduledBackup
<1>2. CASE BackupRun
  BY <1>2, RunManuallyStep, SyncsStep, WritesStep, MakesCommitStep, PushesStep, GitFailsStep,
    RecordsStep DEF BackupRun, PushSnapshot
<1>3. CASE IntervalPasses \/ SafetyCopy \/ Configure \/ HostDies \/ RemoteMoves
  BY <1>3, IntervalPassesStep, SafetyCopyStep, ConfigureStep, HostDiesStep, RemoteMovesStep
<1>4. CASE \E h \in Hosts : Replaces(h)
  BY <1>4, ReplacesStep
<1>5. CASE UNCHANGED backupsVars
  <2>1. UNCHANGED <<configuration, backupRuns, recent, dueRuns, job, clones, remote, stranded>>
    BY <1>5 DEF backupsVars
  <2>2. BackupsTyped' /\ ChecksSound'
    BY <2>1, ScheduleKept DEF BackupsInv, BackupsTyped, LogsOf
  <2>3. JobTracked'
    BY <2>1 DEF BackupsInv, JobTracked, InRemote, Silent
  <2>4. ClonesAccounted' /\ BackupRunsExplained'
    BY <2>1, LogsKept
  <2> QED BY <2>2, <2>3, <2>4 DEF BackupsInv
<1> QED BY <1>1, <1>2, <1>3, <1>4, <1>5 DEF BackupsNext

LEMMA BackupsInvariant == BackupsSpec => []BackupsInv
<1>1. BackupsInit => BackupsInv
  BY BackupsInitHolds
<1>2. BackupsInv /\ [BackupsNext]_backupsVars => BackupsInv'
  BY BackupsStep
<1> QED BY <1>1, <1>2, PTL DEF BackupsSpec

(***************************************************************************)
(* The list of backup runs tells what became of each version               *)
(* (BackupService.run, run_scheduled_backup): for any number of containers *)
(* and runs, failures of git, deaths and pushes from elsewhere.            *)
(***************************************************************************)
THEOREM BackupRunsAreExplained == BackupsSpec => []BackupRunsExplained
<1>1. BackupsInv => BackupRunsExplained
  BY DEF BackupsInv
<1> QED BY <1>1, BackupsInvariant, PTL

-----------------------------------------------------------------------------
(* The identities of commits.                                               *)

\* What git knows of: the branch, what was left in clones, and what is being pushed.
Known == Logged(remote) \cup stranded \cup (IF job.at = "pushing" THEN Logged(Here.log) ELSE {})

\* Commits bear numbers up to how many there are: the next number is free.
Numbered(S) == IsFiniteSet(S) /\ \A c \in S : c.n \in 1..Cardinality(S)
Once(log) == \A i, j \in DOMAIN log : i # j => log[i].n # log[j].n
NoCommitTwice == Once(remote) /\ \A h \in Hosts : Once(clones[h].log)

LEMMA KnownIsAll == ASSUME BackupsInv PROVE Commits = Known
<1>1. job.at = "pushing" => job.host \in Hosts
  BY DEF BackupsInv, JobTracked, NoJob
<1>2. ASSUME NEW h \in Hosts PROVE Logged(clones[h].log) \subseteq Known
  <2>1. CASE job.at = "pushing" /\ job.host = h
    BY <2>1 DEF Known, Here
  <2>2. CASE Logged(clones[h].log) \subseteq Logged(remote) \cup stranded
    BY <2>2 DEF Known
  <2> QED BY <2>1, <2>2 DEF BackupsInv, ClonesAccounted
<1> DEFINE cloned == UNION {Logged(clones[h].log) : h \in Hosts}
<1>a. Commits = Logged(remote) \cup cloned \cup stranded
  BY DEF Commits
<1>3. Known \subseteq Commits
  <2>1. job.at = "pushing" => Logged(Here.log) \subseteq cloned
    BY <1>1 DEF Here
  <2> QED BY <1>a, <2>1 DEF Known
<1>4. Commits \subseteq Known
  <2>1. cloned \subseteq Known
    BY <1>2
  <2>2. Logged(remote) \cup stranded \subseteq Known
    BY DEF Known
  <2> QED BY <1>a, <2>1, <2>2
<1> QED BY <1>3, <1>4

LEMMA NumberedAdds ==
  ASSUME NEW S, Numbered(S), NEW version
  PROVE  Numbered(S \cup {GitCommit(Cardinality(S) + 1, version)})
<1> PICK x : x = GitCommit(Cardinality(S) + 1, version)
  OBVIOUS
<1>1. Cardinality(S) \in Nat /\ IsFiniteSet(S)
  BY FS_CardinalityType DEF Numbered
<1>2. x.n = Cardinality(S) + 1
  BY DEF GitCommit
<1>3. x \notin S
  BY <1>1, <1>2 DEF Numbered
<1>4. IsFiniteSet(S \cup {x}) /\ Cardinality(S \cup {x}) = Cardinality(S) + 1
  BY <1>1, <1>3, FS_AddElement
<1>5. \A c \in S \cup {x} : c.n \in 1..(Cardinality(S) + 1)
  BY <1>1, <1>2 DEF Numbered
<1> QED BY <1>4, <1>5 DEF Numbered

LEMMA OnceAppended ==
  ASSUME NEW S, NEW log \in Seq(S), Once(log), NEW N \in Nat, NEW version,
         \A c \in Logged(log) : c.n \in 1..N
  PROVE  Once(Append(log, GitCommit(N + 1, version)))
<1> PICK x : x = GitCommit(N + 1, version)
  OBVIOUS
<1>1. x.n = N + 1
  BY DEF GitCommit
<1>2. log \in Seq(S \cup {x})
  OBVIOUS
<1>3. /\ DOMAIN Append(log, x) = 1..(Len(log) + 1) /\ Len(log) \in Nat /\ DOMAIN log = 1..Len(log)
      /\ Append(log, x)[Len(log) + 1] = x
      /\ \A i \in 1..Len(log) : Append(log, x)[i] = log[i]
  BY <1>2
<1>4. \A i \in 1..Len(log) : log[i].n \in 1..N
  BY <1>3 DEF Logged
<1> QED BY <1>1, <1>3, <1>4 DEF Once

CommitsNumbered == Numbered(Known) /\ NoCommitTwice

LEMMA EmptyLog == Logged(<<>>) = {} /\ Once(<<>>)
BY DEF Logged, Once

LEMMA NumberedInit == BackupsInit => CommitsNumbered
<1> SUFFICES ASSUME BackupsInit PROVE CommitsNumbered
  OBVIOUS
<1>1. /\ remote = <<>> /\ stranded = {} /\ job.at = "none"
      /\ \A h \in Hosts : clones[h].log = <<>>
  BY DEF BackupsInit, NoJob, NoClone
<1>2. Known = {}
  BY <1>1, EmptyLog DEF Known
<1> QED BY <1>1, <1>2, EmptyLog, FS_EmptySet DEF CommitsNumbered, Numbered, NoCommitTwice

\* A step that makes no commit: a log stays, goes, or becomes another one.
LEMMA NumbersKept ==
  ASSUME CommitsNumbered, Known' = Known,
         remote' = remote \/ \E h \in Hosts : remote' = clones[h].log,
         \A h \in Hosts : clones'[h].log \in {clones[h].log, remote, <<>>}
  PROVE  CommitsNumbered'
<1>1. Once(remote')
  BY DEF CommitsNumbered, NoCommitTwice
<1>2. \A h \in Hosts : Once(clones'[h].log)
  BY EmptyLog DEF CommitsNumbered, NoCommitTwice
<1>3. NoCommitTwice'
  BY <1>1, <1>2 DEF NoCommitTwice, Once
<1>4. Numbered(Known)'
  BY DEF CommitsNumbered, Numbered
<1> QED BY <1>3, <1>4 DEF CommitsNumbered

\* Before the push a step of the job reads the branch into its clone, or not even that.
LEMMA SyncsNumbers == ASSUME BackupsInv, CommitsNumbered, Syncs \/ Writes PROVE CommitsNumbered'
<1>1. /\ job # NoJob /\ job.at \in {"syncing", "writing"} /\ JobTracked /\ job.host \in Hosts
      /\ UNCHANGED <<remote, stranded>>
  BY DEF Syncs, Writes, NoJob, BackupsInv, JobTracked
<1>2. PICK S : Here = Clone(Here.log, Here.file, Here.exists)
  BY <1>1, JobsLogs
<1> PICK h \in Hosts : h = job.host
  BY <1>1
<1> PICK c : c = clones
  OBVIOUS
<1>3. DOMAIN c = Hosts /\ c[h] = [log |-> c[h].log, file |-> c[h].file, exists |-> c[h].exists]
  BY <1>2 DEF Here, BackupsInv, BackupsTyped, Clone
<1>4. ASSUME NEW log, NEW file, NEW exists
      PROVE  /\ [c EXCEPT ![h] = [log |-> log, file |-> file, exists |-> exists]][h].log = log
             /\ [c EXCEPT ![h].log = log, ![h].file = file][h].log = log
             /\ [c EXCEPT ![h].file = file][h].log = c[h].log
  BY <1>3
<1>5. \A g \in Hosts : clones'[g].log \in {clones[g].log, remote}
  <2>1. \A g \in Hosts \ {h} : clones'[g] = clones[g]
    BY <1>3 DEF Syncs, Writes
  <2>2. CASE Writes
    <3>1. clones' = [c EXCEPT ![h].file = job.holds]
      BY <2>2 DEF Writes
    <3> QED BY <1>4, <2>1, <3>1
  <2>3. CASE clones' = [c EXCEPT ![h] = [log |-> remote, file |-> FileOf(remote), exists |-> TRUE]]
    BY <1>4, <2>1, <2>3
  <2>4. CASE clones' = [c EXCEPT ![h].log = remote,
               ![h].file = IF FileOf(remote) = FileOf(Here.log) THEN @ ELSE FileOf(remote)]
    <3> PICK file : file = IF FileOf(remote) = FileOf(Here.log) THEN c[h].file ELSE FileOf(remote)
      OBVIOUS
    <3>1. clones' = [c EXCEPT ![h].log = remote, ![h].file = file]
      BY <1>3, <2>4
    <3>2. clones'[h].log = remote
      BY <1>4, <3>1
    <3> QED BY <2>1, <3>2
  <2> QED BY <2>1, <2>2, <2>3, <2>4 DEF Syncs
<1>6. job'.at # "pushing"
  BY <1>1, JobMoved DEF Syncs, Writes, Moves, BackupJob
<1>7. Known' = Known
  BY <1>1, <1>6 DEF Known, Logged
<1> QED BY <1>1, <1>5, <1>7, NumbersKept

\* Where the job neither was nor is pushing and the logs stay, nothing becomes known.
LEMMA NumbersStay ==
  ASSUME CommitsNumbered, UNCHANGED <<clones, remote, stranded>>,
         \/ UNCHANGED job
         \/ job.at # "pushing" /\ job'.at # "pushing"
  PROVE  CommitsNumbered'
<1>1. Known' = Known
  BY DEF Known, Logged, Here
<1>2. \A h \in Hosts : clones'[h].log = clones[h].log
  OBVIOUS
<1> QED BY <1>1, <1>2, NumbersKept

LEMMA MakesCommitNumbers == ASSUME BackupsInv, CommitsNumbered, MakesCommit PROVE CommitsNumbered'
<1>1. /\ job # NoJob /\ job.at = "committing" /\ JobTracked /\ job.host \in Hosts
      /\ UNCHANGED <<remote, stranded>>
  BY DEF MakesCommit, NoJob, BackupsInv, JobTracked
<1>2. CASE NothingNew
  <2>1. job' = BackupJob("done", job, job.commit) /\ UNCHANGED clones
    BY <1>1, <1>2, JobMoved DEF MakesCommit, Moves
  <2>2. job'.at # "pushing"
    BY <2>1 DEF BackupJob
  <2> QED BY <1>1, <2>1, <2>2, NumbersStay
<1>3. CASE ~NothingNew
  <2>a. PICK N : N = Cardinality(Commits)
    OBVIOUS
  <2>b. PICK x : x = GitCommit(N + 1, job.holds)
    OBVIOUS
  <2>1. /\ clones' = [clones EXCEPT ![job.host].log = Append(@, x)]
        /\ job' = [job EXCEPT !.at = "pushing", !.commit = N + 1]
    BY <1>3, <2>a, <2>b DEF MakesCommit, GitCommit
  <2>2. PICK S : /\ remote \in Seq(S) /\ Here.log \in Seq(S)
                 /\ Here = Clone(Here.log, Here.file, Here.exists)
    BY <1>1, JobsLogs
  <2> PICK h \in Hosts : h = job.host
    BY <1>1
  <2>c. PICK log : log = Here.log
    OBVIOUS
  <2>d. PICK more : more = Append(log, x)
    OBVIOUS
  <2> PICK c : c = clones
    OBVIOUS
  <2>3. /\ DOMAIN c = Hosts /\ c[h] = [log |-> log, file |-> c[h].file, exists |-> c[h].exists]
    BY <2>2, <2>c DEF Here, BackupsInv, BackupsTyped, Clone
  <2>4. clones' = [c EXCEPT ![h].log = more]
    <3>1. c[h].log = log
      BY <2>3
    <3>2. [c EXCEPT ![h].log = Append(@, x)] = [c EXCEPT ![h].log = Append(c[h].log, x)]
      OBVIOUS
    <3> QED BY <2>1, <2>d, <3>1, <3>2
  <2>5. clones'[h].log = more /\ \A g \in Hosts \ {h} : clones'[g] = clones[g]
    BY <2>3, <2>4
  <2>6. job' = BackupJob("pushing", job, N + 1)
    BY <1>1, <2>1, JobMoved
  <2>7. job'.at = "pushing" /\ job'.host = h
    BY <2>6 DEF BackupJob
  <2>8. Logged(log) \subseteq Logged(remote) \cup stranded
    BY <1>1, <2>c DEF BackupsInv, ClonesAccounted, Here
  <2>9. Known = Logged(remote) \cup stranded /\ N = Cardinality(Known) /\ Known' = Known \cup {x}
    <3>1. Known = Logged(remote) \cup stranded
      BY <1>1 DEF Known
    <3>2. Commits = Known
      BY KnownIsAll
    <3>3. log \in Seq(S)
      BY <2>2, <2>c
    <3>4. Logged(more) = Logged(log) \cup {x}
      BY <2>d, <3>3, AppendedIsLogged
    <3>5. Here' = clones'[h] /\ Logged(Here'.log) = Logged(more)
      BY <2>5, <2>7 DEF Here
    <3>6. Known' = Logged(remote) \cup stranded \cup Logged(more)
      BY <1>1, <2>7, <3>5 DEF Known, Logged
    <3> QED BY <2>8, <2>a, <3>1, <3>2, <3>4, <3>6
  <2>10. N \in Nat /\ \A k \in Known : k.n \in 1..N
    BY <2>9, FS_CardinalityType DEF CommitsNumbered, Numbered
  <2>11. Numbered(Known)'
    <3>1. Numbered(Known \cup {x})
      BY <2>9, <2>b, NumberedAdds DEF CommitsNumbered
    <3> QED BY <2>9, <3>1 DEF Numbered
  <2>12. Once(more)
    <3>1. log \in Seq(S) /\ Once(log)
      BY <2>2, <2>c DEF CommitsNumbered, NoCommitTwice, Here
    <3>2. \A k \in Logged(log) : k.n \in 1..N
      BY <2>8, <2>9, <2>10
    <3> QED BY <2>10, <2>b, <2>d, <3>1, <3>2, OnceAppended
  <2>13. \A g \in Hosts : Once(clones'[g].log)
    BY <2>5, <2>12 DEF CommitsNumbered, NoCommitTwice
  <2>14. NoCommitTwice'
    BY <1>1, <2>13 DEF CommitsNumbered, NoCommitTwice, Once
  <2> QED BY <2>11, <2>14 DEF CommitsNumbered
<1> QED BY <1>2, <1>3

\* The push is over: what was pushed is in the branch or stranded, and nothing else is new.
LEMMA PushNumbers ==
  ASSUME BackupsInv, CommitsNumbered, Pushes \/ GitFails \/ HostDies PROVE CommitsNumbered'
<1>1. /\ job # NoJob /\ JobTracked /\ job.host \in Hosts /\ UNCHANGED clones
  BY DEF Pushes, GitFails, HostDies, NoJob, BackupsInv, JobTracked
<1>2. job'.at # "pushing"
  <2>1. \/ job' = NoJob
        \/ job' = BackupJob("done", job, job.commit)
        \/ job' = BackupJob("failed", job, 0)
    BY <1>1, JobMoved DEF Pushes, GitFails, HostDies, Moves
  <2> QED BY <2>1 DEF BackupJob, NoJob
<1>3. CASE job.at # "pushing"
  <2>1. UNCHANGED <<remote, stranded>>
    BY <1>3 DEF Pushes, GitFails, HostDies
  <2> QED BY <1>1, <1>2, <1>3, <2>1, NumbersStay
<1>4. CASE job.at = "pushing"
  <2>1. PICK S : remote \in Seq(S) /\ Here.log \in Seq(S)
    BY <1>1, JobsLogs
  <2> PICK log : log = Here.log
    OBVIOUS
  <2> PICK old : old = remote
    OBVIOUS
  <2>2. /\ \/ remote' = old /\ stranded' = stranded \cup (Logged(log) \ Logged(old))
           \/ IsPrefix(old, log) /\ remote' = log
        /\ stranded' \subseteq stranded \cup Logged(log) /\ stranded \subseteq stranded'
    BY <1>4 DEF Pushes, GitFails, HostDies
  <2>3. IsPrefix(old, log) => Logged(old) \subseteq Logged(log)
    BY <2>1, PrefixIsLogged
  <2>4. Known = Logged(old) \cup stranded \cup Logged(log)
    BY <1>4 DEF Known
  <2>5. Known' = Logged(remote') \cup stranded'
    BY <1>2 DEF Known, Logged
  <2>6. Known' = Known
    BY <2>2, <2>3, <2>4, <2>5
  <2>7. remote' = remote \/ remote' = clones[job.host].log
    BY <2>2 DEF Here
  <2>8. remote' = remote \/ \E h \in Hosts : remote' = clones[h].log
    BY <1>1, <2>7
  <2>9. \A h \in Hosts : clones'[h].log = clones[h].log
    BY <1>1
  <2> QED BY <2>6, <2>8, <2>9, NumbersKept
<1> QED BY <1>3, <1>4

LEMMA RemoteMovesNumbers == ASSUME BackupsInv, CommitsNumbered, RemoteMoves PROVE CommitsNumbered'
<1>a. PICK N : N = Cardinality(Commits)
  OBVIOUS
<1>b. PICK x : x = GitCommit(N + 1, FileOf(remote))
  OBVIOUS
<1> PICK old : old = remote
  OBVIOUS
<1>1. remote' = Append(old, x) /\ UNCHANGED <<job, clones, stranded>>
  BY <1>a, <1>b DEF RemoteMoves
<1>2. PICK S : old \in Seq(S)
  BY DEF BackupsInv, BackupsTyped, LogsOf
<1>3. Logged(remote') = Logged(old) \cup {x}
  BY <1>1, <1>2, AppendedIsLogged
<1>4. N = Cardinality(Known)
  BY <1>a, KnownIsAll
<1>5. Known' = Known \cup {x}
  BY <1>1, <1>3 DEF Known, Here, Logged
<1>6. N \in Nat /\ \A k \in Known : k.n \in 1..N
  BY <1>4, FS_CardinalityType DEF CommitsNumbered, Numbered
<1>7. Numbered(Known)'
  <2>1. Numbered(Known \cup {x})
    BY <1>4, <1>b, NumberedAdds DEF CommitsNumbered
  <2> QED BY <1>5, <2>1 DEF Numbered
<1>8. Once(remote')
  <2>1. Once(old) /\ \A k \in Logged(old) : k.n \in 1..N
    BY <1>6 DEF CommitsNumbered, NoCommitTwice, Known
  <2> QED BY <1>1, <1>2, <1>6, <1>b, <2>1, OnceAppended
<1>9. NoCommitTwice'
  BY <1>1, <1>8 DEF CommitsNumbered, NoCommitTwice, Once
<1> QED BY <1>7, <1>9 DEF CommitsNumbered

LEMMA ReplacesNumbers ==
  ASSUME BackupsInv, CommitsNumbered, NEW h \in Hosts, Replaces(h) PROVE CommitsNumbered'
<1>1. /\ clones' = [clones EXCEPT ![h] = NoClone] /\ (job # NoJob => job.host # h)
      /\ UNCHANGED <<job, remote, stranded>> /\ DOMAIN clones = Hosts
  BY DEF Replaces, BackupsInv, BackupsTyped
<1>2. \A g \in Hosts : clones'[g] = IF g = h THEN NoClone ELSE clones[g]
  BY <1>1
<1>3. \A g \in Hosts : clones'[g].log \in {clones[g].log, <<>>}
  BY <1>2 DEF NoClone
<1>4. job.at = "pushing" => Here' = Here
  BY <1>1, <1>2 DEF Here, NoJob, BackupsInv, JobTracked
<1>5. Known' = Known
  BY <1>1, <1>4 DEF Known, Logged
<1> QED BY <1>1, <1>3, <1>5, NumbersKept

LEMMA NumbersStep ==
  ASSUME BackupsInv, CommitsNumbered, [BackupsNext]_backupsVars PROVE CommitsNumbered'
<1>1. CASE Syncs \/ Writes
  BY <1>1, SyncsNumbers
<1>2. CASE MakesCommit
  BY <1>2, MakesCommitNumbers
<1>3. CASE Pushes \/ GitFails \/ HostDies
  BY <1>3, PushNumbers
<1>4. CASE RemoteMoves
  BY <1>4, RemoteMovesNumbers
<1>5. CASE \E h \in Hosts : Replaces(h)
  BY <1>5, ReplacesNumbers
<1>6. CASE \E push \in BOOLEAN : RunManually(push) \/ RunScheduled(push)
  <2>1. /\ job = NoJob /\ UNCHANGED <<clones, remote, stranded>>
        /\ \E push \in BOOLEAN : job'.at = IF push THEN "syncing" ELSE "done"
    BY <1>6 DEF RunManually, RunScheduled, Begins
  <2> QED BY <2>1, NumbersStay DEF NoJob
<1>7. CASE Records \/ SafetyCopy \/ ChecksDue \/ IntervalPasses \/ Configure \/ UNCHANGED backupsVars
  <2>1. /\ UNCHANGED <<clones, remote, stranded>>
        /\ UNCHANGED job \/ (job.at # "pushing" /\ job' = NoJob)
    BY <1>7 DEF Records, SafetyCopy, ChecksDue, IntervalPasses, Configure, backupsVars
  <2> QED BY <2>1, NumbersStay DEF NoJob
<1> QED BY <1>1, <1>2, <1>3, <1>4, <1>5, <1>6, <1>7
       DEF BackupsNext, ScheduledBackup, BackupRun, PushSnapshot

\* The lists stay within their bounds, and a run ends in one of three ways.
ListsBounded ==
  /\ Len(backupRuns) <= MaxBackups /\ Len(dueRuns) <= MaxDue
  /\ job # NoJob => Len(backupRuns) < MaxBackups
  /\ \A i \in DOMAIN backupRuns : backupRuns[i].status \in {"succeeded", "failed", "pre_restore"}

LEMMA ListsStep ==
  ASSUME BackupsInv, ListsBounded, [BackupsNext]_backupsVars PROVE ListsBounded'
<1>a. dueRuns \in Seq(Nat) /\ Len(backupRuns) \in Nat
  BY DEF BackupsInv, BackupsTyped
<1>1. CASE ChecksDue
  <2>1. Len(dueRuns') = Len(dueRuns) + 1 /\ Len(dueRuns) < MaxDue /\ UNCHANGED <<backupRuns, job>>
    BY <1>1, <1>a DEF ChecksDue
  <2> QED BY <1>a, <2>1, BackupsAssumption DEF ListsBounded
<1>2. CASE \E push \in BOOLEAN : RunManually(push) \/ RunScheduled(push)
  <2>1. /\ UNCHANGED backupRuns /\ Len(backupRuns) < MaxBackups
        /\ dueRuns' = dueRuns \/ (dueRuns # <<>> /\ dueRuns' = Tail(dueRuns))
    BY <1>2 DEF RunManually, RunScheduled, Begins
  <2>2. Len(dueRuns') <= Len(dueRuns) /\ Len(dueRuns) \in Nat /\ Len(dueRuns') \in Nat
    BY <1>a, <2>1
  <2> QED BY <2>1, <2>2, BackupsAssumption DEF ListsBounded
<1>3. CASE Records \/ SafetyCopy
  <2>1. \E r : backupRuns' = Append(backupRuns, r) /\ r.status \in {"succeeded", "failed", "pre_restore"}
    BY <1>3 DEF Records, SafetyCopy
  <2>2. PICK r : backupRuns' = Append(backupRuns, r) /\ r.status \in {"succeeded", "failed", "pre_restore"}
    BY <2>1
  <2>3. /\ Len(backupRuns) \in Nat /\ Len(backupRuns') = Len(backupRuns) + 1
        /\ DOMAIN backupRuns = 1..Len(backupRuns) /\ DOMAIN backupRuns' = 1..Len(backupRuns')
        /\ backupRuns'[Len(backupRuns) + 1] = r
        /\ \A i \in 1..Len(backupRuns) : backupRuns'[i] = backupRuns[i]
    BY <2>2, RunAppended
  <2>4. Len(backupRuns) < MaxBackups /\ job' = NoJob /\ UNCHANGED dueRuns
    BY <1>3 DEF Records, SafetyCopy, ListsBounded, NoJob
  <2>5. \A i \in DOMAIN backupRuns' : i \in DOMAIN backupRuns \/ backupRuns'[i] = r
    BY <2>3
  <2>6. \A i \in DOMAIN backupRuns' : backupRuns'[i].status \in {"succeeded", "failed", "pre_restore"}
    BY <2>2, <2>3, <2>5 DEF ListsBounded
  <2>7. Len(backupRuns') <= MaxBackups
    BY <2>3, <2>4, BackupsAssumption
  <2> QED BY <2>4, <2>6, <2>7 DEF ListsBounded
<1>4. CASE UNCHANGED <<backupRuns, dueRuns>> /\ (job' # NoJob => job # NoJob)
  BY <1>4 DEF ListsBounded
<1>5. PushSnapshot \/ IntervalPasses \/ Configure \/ HostDies \/ RemoteMoves
        \/ (\E h \in Hosts : Replaces(h)) \/ UNCHANGED backupsVars
        => UNCHANGED <<backupRuns, dueRuns>>
  BY DEF PushSnapshot, Syncs, Writes, MakesCommit, Pushes, GitFails, IntervalPasses, Configure,
    HostDies, RemoteMoves, Replaces, backupsVars
<1>6. PushSnapshot => job # NoJob
  BY DEF PushSnapshot, Syncs, Writes, MakesCommit, Pushes, GitFails, NoJob
<1>7. IntervalPasses \/ Configure \/ HostDies \/ RemoteMoves
        \/ (\E h \in Hosts : Replaces(h)) \/ UNCHANGED backupsVars
        => UNCHANGED job \/ job # NoJob
  BY DEF IntervalPasses, Configure, HostDies, RemoteMoves, Replaces, backupsVars
<1> QED BY <1>1, <1>2, <1>3, <1>4, <1>5, <1>6, <1>7 DEF BackupsNext, ScheduledBackup, BackupRun

(***************************************************************************)
(* Runs and checks are of their types, and no commit is in the remote's    *)
(* branch twice (BackupService._push_snapshot_sync): however often clones  *)
(* are dropped, pushes fail half way, processes die and others push.       *)
(***************************************************************************)
THEOREM BackupsTypeCorrect == BackupsSpec => []BackupsTypeOK
<1> DEFINE Inv == BackupsInv /\ CommitsNumbered /\ ListsBounded
<1>1. BackupsInit => Inv
  <2>1. BackupsInit => ListsBounded
    BY BackupsAssumption DEF BackupsInit, ListsBounded
  <2> QED BY <2>1, BackupsInitHolds, NumberedInit
<1>2. Inv /\ [BackupsNext]_backupsVars => Inv'
  BY BackupsStep, NumbersStep, ListsStep
<1>3. Inv => BackupsTypeOK
  <2> SUFFICES ASSUME Inv PROVE BackupsTypeOK
    OBVIOUS
  <2>1. dueRuns \in BoundedSeq(0..MaxBackups, MaxDue)
    <3> PICK n : n = Len(dueRuns)
      OBVIOUS
    <3>1. /\ dueRuns \in [1..n -> Nat] /\ n \in Nat /\ n <= MaxDue /\ Len(backupRuns) \in Nat
      BY DEF BackupsInv, BackupsTyped, ListsBounded
    <3>2. \A k \in 1..n : dueRuns[k] \in 0..MaxBackups
      BY <3>1, BackupsAssumption DEF BackupsInv, ChecksSound, ListsBounded
    <3>3. dueRuns \in [1..n -> 0..MaxBackups]
      BY <3>1, <3>2
    <3>4. n \in 0..MaxDue
      BY <3>1, BackupsAssumption
    <3> QED BY <3>3, <3>4 DEF BoundedSeq, SeqOf
  <2>2. job.at \in {"none", "syncing", "writing", "committing", "pushing", "done", "failed"}
    BY DEF BackupsInv, JobTracked, NoJob
  <2> QED BY <2>1, <2>2 DEF BackupsTypeOK, BackupsInv, BackupsTyped, ListsBounded, CommitsNumbered,
             NoCommitTwice, Once
<1> QED BY <1>1, <1>2, <1>3, PTL DEF BackupsSpec

-----------------------------------------------------------------------------
(* Analytics runs.                                                          *)

RunRow(target, status) == [target |-> target, status |-> status]
RunsTyped ==
  /\ \E S : runs \in Seq(S)
  /\ \A r \in 1..Len(runs) : runs[r] = RunRow(runs[r].target, runs[r].status)
  /\ made \subseteq 1..Len(runs)

\* The job is at one of its steps, and its run has come as far as that.
JobAt(w, at) == w = [at |-> at, target |-> w.target, run |-> w.run, rest |-> w.rest]
JobSound ==
  work # NoWork =>
    /\ \E at \in {"start", "announce", "collect", "save", "tell", "fail"} : JobAt(work, at)
    /\ work.run \in 0..Len(runs)
    /\ work.at = "start" /\ work.run # 0 => runs[work.run].status = "queued" /\ work.run \notin made
    /\ work.at # "start" => work.run # 0
    /\ work.at \in {"announce", "collect", "save"} =>
         runs[work.run].status = "started" /\ work.run \notin made
    /\ work.at = "tell" => runs[work.run].status = "finished" /\ work.run \in made
    /\ work.at = "fail" /\ work.run \in made => work.run \in unheard

\* A run has one task at most, which waits for its job.
TasksSound ==
  /\ \A k \in refreshTasks :
       /\ k.run \in 1..Len(runs) /\ runs[k.run].status = "queued" /\ k.run \notin made
       /\ work # NoWork => work.run # k.run
  /\ \A k, l \in refreshTasks : k.run = l.run => k = l

AnalyticsInv == RunsTyped /\ JobSound /\ TasksSound /\ OutcomesExplained /\ OpenRunsExplained

LEMMA AnalyticsInitHolds == AnalyticsInit => AnalyticsInv
<1> SUFFICES ASSUME AnalyticsInit PROVE AnalyticsInv
  OBVIOUS
<1>1. runs = <<>> /\ refreshTasks = {} /\ work = NoWork /\ made = {}
  BY DEF AnalyticsInit
<1>2. RunsTyped
  <2>1. runs \in Seq({}) /\ Len(runs) = 0
    BY <1>1
  <2> QED BY <1>1, <2>1 DEF RunsTyped
<1>3. JobSound /\ TasksSound
  BY <1>1 DEF JobSound, TasksSound
<1>4. OutcomesExplained /\ OpenRunsExplained
  BY <1>1 DEF OutcomesExplained, OpenRunsExplained
<1> QED BY <1>2, <1>3, <1>4 DEF AnalyticsInv

LEMMA RunsAreNumbered ==
  ASSUME RunsTyped PROVE Len(runs) \in Nat /\ DOMAIN runs = 1..Len(runs)
BY DEF RunsTyped

\* A new run has the next number.
LEMMA RunAdded ==
  ASSUME RunsTyped, NEW t, NEW s, runs' = Append(runs, [target |-> t, status |-> s]),
         made' = made
  PROVE  /\ RunsTyped' /\ Len(runs') = Len(runs) + 1
         /\ runs'[NextRun].status = s
         /\ \A r \in 1..Len(runs) : runs'[r] = runs[r]
         /\ NextRun \notin made /\ NextRun \in 1..Len(runs')
<1> PICK S : runs \in Seq(S)
  BY DEF RunsTyped
<1> PICK row : row = [target |-> t, status |-> s]
  OBVIOUS
<1>1. runs' = Append(runs, row) /\ row = RunRow(row.target, row.status) /\ row.status = s
  BY DEF RunRow
<1>2. runs \in Seq(S \cup {row}) /\ row \in S \cup {row}
  OBVIOUS
<1> PICK T : T = S \cup {row}
  OBVIOUS
<1>3. /\ runs' \in Seq(T) /\ Len(runs') = Len(runs) + 1 /\ Len(runs) \in Nat
      /\ \A r \in 1..Len(runs) : runs'[r] = runs[r]
      /\ runs'[Len(runs) + 1] = row
  BY <1>1, <1>2
<1>4. \A r \in 1..Len(runs') : r \in 1..Len(runs) \/ r = Len(runs) + 1
  BY <1>3
<1>5. \A r \in 1..Len(runs') : runs'[r] = RunRow(runs'[r].target, runs'[r].status)
  BY <1>1, <1>3, <1>4 DEF RunsTyped
<1>6. made \subseteq 1..Len(runs') /\ NextRun \notin made
  <2>1. made \subseteq 1..Len(runs)
    BY DEF RunsTyped
  <2>2. Len(runs) + 1 \notin 1..Len(runs) /\ 1..Len(runs) \subseteq 1..(Len(runs) + 1)
    BY <1>3
  <2> QED BY <1>3, <2>1, <2>2 DEF NextRun
<1> QED BY <1>1, <1>3, <1>5, <1>6 DEF RunsTyped, NextRun

\* Marking a run changes its status and no other.
Marks(r, status) == runs' = [runs EXCEPT ![r].status = status]

LEMMA RunMarked ==
  ASSUME RunsTyped, NEW r \in 1..Len(runs), NEW s, Marks(r, s),
         made' \subseteq made \cup {r}
  PROVE  /\ RunsTyped' /\ Len(runs') = Len(runs)
         /\ \A i \in 1..Len(runs) : /\ runs'[i].status = IF i = r THEN s ELSE runs[i].status
                                   /\ runs'[i].target = runs[i].target
<1> PICK S : runs \in Seq(S)
  BY DEF RunsTyped
<1> PICK row : row = [runs[r] EXCEPT !.status = s]
  OBVIOUS
<1>1. runs[r] = RunRow(runs[r].target, runs[r].status)
  BY DEF RunsTyped
<1>2. row = RunRow(row.target, row.status) /\ row.status = s /\ row.target = runs[r].target
  BY <1>1 DEF RunRow
<1> PICK T : T = S \cup {row}
  OBVIOUS
<1>3. runs \in Seq(T) /\ row \in T /\ r \in DOMAIN runs /\ DOMAIN runs = 1..Len(runs)
  OBVIOUS
<1>4. runs' = [runs EXCEPT ![r] = row]
  BY DEF Marks
<1>5. runs' \in Seq(T) /\ Len(runs') = Len(runs)
  BY <1>3, <1>4, ExceptSeq
<1>6. \A i \in 1..Len(runs) : runs'[i] = IF i = r THEN row ELSE runs[i]
  BY <1>3, <1>4
<1>7. \A i \in 1..Len(runs') : runs'[i] = RunRow(runs'[i].target, runs'[i].status)
  BY <1>2, <1>5, <1>6 DEF RunsTyped
<1>8. made' \subseteq 1..Len(runs')
  BY <1>5 DEF RunsTyped
<1> QED BY <1>2, <1>5, <1>6, <1>7, <1>8 DEF RunsTyped

-----------------------------------------------------------------------------

\* A run added by an endpoint or a tool is at the broker or known to be cut off.
LEMMA RefreshStep ==
  ASSUME AnalyticsInv, NEW t, runs' = CreateRun(t), UNCHANGED <<work, made, unheard>>,
         \/ refreshTasks' = refreshTasks \cup {[target |-> t, run |-> NextRun]} /\ cut' = cut
         \/ refreshTasks' = refreshTasks /\ cut' = cut \cup {NextRun}
  PROVE  AnalyticsInv'
<1>0. Len(runs) \in Nat /\ DOMAIN runs = 1..Len(runs)
  BY RunsAreNumbered DEF AnalyticsInv
<1>1. /\ RunsTyped' /\ Len(runs') = Len(runs) + 1 /\ runs'[NextRun].status = "queued"
      /\ \A r \in 1..Len(runs) : runs'[r] = runs[r]
      /\ NextRun \notin made /\ NextRun \in 1..Len(runs')
  BY RunAdded DEF AnalyticsInv, CreateRun
<1>2. DOMAIN runs' = 1..Len(runs')
  BY <1>1, RunsAreNumbered DEF RunsTyped
<1>3. \A r \in DOMAIN runs' : r \in 1..Len(runs) \/ r = NextRun
  BY <1>0, <1>1, <1>2 DEF NextRun
<1>4. JobSound'
  BY <1>0, <1>1 DEF AnalyticsInv, JobSound
<1>5. TasksSound'
  <2>1. \A k \in refreshTasks : k.run \in 1..Len(runs) /\ k.run # NextRun /\ k.run \in 1..Len(runs')
    BY <1>0, <1>1 DEF AnalyticsInv, TasksSound, NextRun
  <2>2. work # NoWork => work.run # NextRun
    BY <1>0 DEF AnalyticsInv, JobSound, NextRun
  <2>3. \A k \in refreshTasks' : k \in refreshTasks \/ k = [target |-> t, run |-> NextRun]
    <3>1. CASE refreshTasks' = refreshTasks \cup {[target |-> t, run |-> NextRun]}
      BY <3>1
    <3>2. CASE refreshTasks' = refreshTasks
      BY <3>2
    <3> QED BY <3>1, <3>2
  <2> QED BY <1>1, <2>1, <2>2, <2>3 DEF AnalyticsInv, TasksSound
<1>6. OutcomesExplained'
  BY <1>0, <1>1, <1>3 DEF AnalyticsInv, OutcomesExplained
<1>7. OpenRunsExplained'
  <2>1. \A r \in 1..Len(runs) :
          runs'[r].status \in {"queued", "started"} =>
             \/ r \in cut' \cup unheard'
             \/ \E k \in refreshTasks' : k.run = r
             \/ work' # NoWork /\ work'.run = r
    BY <1>0, <1>1 DEF AnalyticsInv, OpenRunsExplained, Unlocked
  <2>2. NextRun \in cut' \/ \E k \in refreshTasks' : k.run = NextRun
    <3>1. CASE refreshTasks' = refreshTasks \cup {[target |-> t, run |-> NextRun]}
      <4> PICK k : k = [target |-> t, run |-> NextRun]
        OBVIOUS
      <4> QED BY <3>1
    <3>2. CASE cut' = cut \cup {NextRun}
      BY <3>2
    <3> QED BY <3>1, <3>2
  <2> QED BY <1>3, <2>1, <2>2 DEF OpenRunsExplained, Unlocked
<1> QED BY <1>1, <1>4, <1>5, <1>6, <1>7 DEF AnalyticsInv

\* A step of the job that leaves the runs alone, while the job still has its run or the
\* run's end is accounted for.
LEMMA JobMoves ==
  ASSUME AnalyticsInv, UNCHANGED <<runs, made>>, refreshTasks' \subseteq refreshTasks,
         unheard \subseteq unheard', cut \subseteq cut',
         JobSound', TasksSound',
         \A r \in 1..Len(runs) :
           /\ runs[r].status \in {"queued", "started"}
           /\ (\E k \in refreshTasks : k.run = r) \/ (work # NoWork /\ work.run = r)
           => \/ r \in cut' \cup unheard'
              \/ \E k \in refreshTasks' : k.run = r
              \/ work' # NoWork /\ work'.run = r
  PROVE  AnalyticsInv'
<1>1. DOMAIN runs = 1..Len(runs)
  BY RunsAreNumbered DEF AnalyticsInv
<1>2. RunsTyped'
  BY DEF AnalyticsInv, RunsTyped
<1>3. OutcomesExplained'
  BY DEF AnalyticsInv, OutcomesExplained
<1>4. OpenRunsExplained'
  BY <1>1 DEF AnalyticsInv, OpenRunsExplained, Unlocked
<1> QED BY <1>2, <1>3, <1>4 DEF AnalyticsInv

LEMMA TakesTaskStep ==
  ASSUME AnalyticsInv, NEW k \in refreshTasks, TakesTask(k) PROVE AnalyticsInv'
<1>0. Len(runs) \in Nat /\ DOMAIN runs = 1..Len(runs)
  BY RunsAreNumbered DEF AnalyticsInv
<1>1. /\ work = NoWork /\ refreshTasks' = refreshTasks \ {k}
      /\ work' = [at |-> "start", target |-> k.target, run |-> k.run, rest |-> <<>>]
      /\ UNCHANGED <<runs, made, unheard, cut>>
  BY DEF TakesTask, Unlocked
<1>2. k.run \in 1..Len(runs) /\ runs[k.run].status = "queued" /\ k.run \notin made
  BY DEF AnalyticsInv, TasksSound
<1>3. JobSound'
  BY <1>0, <1>1, <1>2 DEF JobSound, JobAt
<1>4. TasksSound'
  BY <1>1 DEF TasksSound, AnalyticsInv
<1>5. ASSUME NEW r \in 1..Len(runs), NEW l \in refreshTasks, l.run = r
      PROVE  (\E x \in refreshTasks' : x.run = r) \/ (work' # NoWork /\ work'.run = r)
  <2>1. CASE l = k
    BY <1>1, <1>5, <2>1 DEF NoWork
  <2>2. CASE l # k
    BY <1>1, <1>5, <2>2
  <2> QED BY <2>1, <2>2
<1> QED BY <1>1, <1>3, <1>4, <1>5, JobMoves

LEMMA TakesAllStep ==
  ASSUME AnalyticsInv, TakesAll PROVE AnalyticsInv'
<1>0. Len(runs) \in Nat /\ DOMAIN runs = 1..Len(runs)
  BY RunsAreNumbered DEF AnalyticsInv
<1>1. /\ work = NoWork /\ UNCHANGED <<runs, refreshTasks, made, unheard, cut>>
      /\ \E t, rest : work' = [at |-> "start", target |-> t, run |-> 0, rest |-> rest]
  BY DEF TakesAll, Unlocked
<1> PICK t, rest : work' = [at |-> "start", target |-> t, run |-> 0, rest |-> rest]
  BY <1>1
<1>3. JobSound'
  BY <1>0, <1>1 DEF JobSound, JobAt
<1>4. TasksSound'
  <2>1. work'.run = 0 /\ \A k \in refreshTasks : k.run # 0
    BY <1>0 DEF AnalyticsInv, TasksSound
  <2> QED BY <1>1, <2>1 DEF TasksSound, AnalyticsInv
<1> QED BY <1>1, <1>3, <1>4, JobMoves

LEMMA JobStartsStep ==
  ASSUME AnalyticsInv, JobStarts PROVE AnalyticsInv'
<1>0. Len(runs) \in Nat /\ DOMAIN runs = 1..Len(runs)
  BY RunsAreNumbered DEF AnalyticsInv
<1> PICK w : w = work
  OBVIOUS
<1>1. /\ w # NoWork /\ w.at = "start" /\ JobAt(w, "start")
      /\ w.run \in 0..Len(runs)
      /\ w.run # 0 => runs[w.run].status = "queued" /\ w.run \notin made
      /\ UNCHANGED <<refreshTasks, made, unheard>>
  <2>1. work # NoWork /\ work.at = "start"
    BY DEF JobStarts, NoWork
  <2> QED BY <2>1 DEF AnalyticsInv, JobSound, JobAt, JobStarts
<1>2. CASE targets[work.target] = "none"
  <2>1. work' = NoWork /\ cut' = cut \cup {w.run} /\ UNCHANGED runs
    BY <1>2 DEF JobStarts
  <2>2. JobSound' /\ TasksSound'
    BY <1>1, <2>1 DEF JobSound, TasksSound, AnalyticsInv
  <2> QED BY <1>1, <2>1, <2>2, JobMoves
<1>3. CASE targets[work.target] # "none"
  <2>1. /\ runs' = Started(w.target, w.run) /\ cut' = cut
        /\ work' = [w EXCEPT !.at = "announce", !.run = IF w.run = 0 THEN NextRun ELSE w.run]
    BY <1>3 DEF JobStarts
  <2> PICK n : n = IF w.run = 0 THEN NextRun ELSE w.run
    OBVIOUS
  <2>2. work' = [at |-> "announce", target |-> w.target, run |-> n, rest |-> w.rest]
    BY <1>1, <2>1 DEF JobAt
  <2>3. /\ RunsTyped' /\ Len(runs') \in Nat /\ Len(runs) <= Len(runs')
        /\ n \in 1..Len(runs') /\ runs'[n].status = "started" /\ n \notin made
        /\ \A r \in 1..Len(runs') : r = n \/ (r \in 1..Len(runs) /\ runs'[r].status = runs[r].status)
    <3>1. CASE w.run = 0
      <4>1. runs' = Append(runs, [target |-> w.target, status |-> "started"])
        BY <2>1, <3>1 DEF Started
      <4>2. /\ RunsTyped' /\ Len(runs') = Len(runs) + 1 /\ runs'[NextRun].status = "started"
            /\ \A r \in 1..Len(runs) : runs'[r] = runs[r]
            /\ NextRun \notin made /\ NextRun \in 1..Len(runs')
        BY <1>1, <4>1, RunAdded DEF AnalyticsInv
      <4> QED BY <1>0, <3>1, <4>2 DEF NextRun
    <3>2. CASE w.run # 0
      <4>1. w.run \in 1..Len(runs) /\ n = w.run
        BY <1>0, <1>1, <3>2
      <4>2. Marks(w.run, "started")
        BY <2>1, <3>2 DEF Started, Marks
      <4>3. /\ RunsTyped' /\ Len(runs') = Len(runs)
            /\ \A i \in 1..Len(runs) : runs'[i].status = IF i = w.run THEN "started" ELSE runs[i].status
        <5>1. RunsTyped /\ made' \subseteq made \cup {w.run}
          BY <1>1 DEF AnalyticsInv
        <5> QED BY <4>1, <4>2, <5>1, RunMarked
      <4> QED BY <1>0, <1>1, <3>2, <4>1, <4>3
    <3> QED BY <3>1, <3>2
  <2>4. DOMAIN runs' = 1..Len(runs')
    BY <2>3, RunsAreNumbered DEF RunsTyped
  <2>5. JobSound'
    BY <1>1, <2>2, <2>3 DEF JobSound, JobAt
  <2>6. \A k \in refreshTasks : k.run # n
    <3>1. \A k \in refreshTasks : k.run \in 1..Len(runs) /\ k.run # w.run
      BY <1>1 DEF AnalyticsInv, TasksSound
    <3> QED BY <1>0, <3>1 DEF NextRun
  <2>7. TasksSound'
    <3>1. \A k \in refreshTasks : k.run \in 1..Len(runs')
      BY <1>0, <2>3 DEF AnalyticsInv, TasksSound
    <3> QED BY <1>1, <2>2, <2>3, <2>6, <3>1 DEF AnalyticsInv, TasksSound
  <2>8. OutcomesExplained'
    BY <1>0, <1>1, <2>3, <2>4 DEF AnalyticsInv, OutcomesExplained
  <2>9. OpenRunsExplained'
    <3>1. work' # NoWork /\ work'.run = n
      BY <2>2 DEF NoWork
    <3>2. \A r \in 1..Len(runs) : r # n /\ runs[r].status \in {"queued", "started"} =>
             r \in cut \cup unheard \/ \E k \in refreshTasks : k.run = r
      <4>1. \A r \in 1..Len(runs) : r # n => r # w.run
        BY <1>0, <1>1
      <4> QED BY <1>0, <4>1 DEF AnalyticsInv, OpenRunsExplained
    <3> QED BY <1>1, <2>1, <2>3, <2>4, <3>1, <3>2 DEF OpenRunsExplained, Unlocked
  <2> QED BY <2>3, <2>5, <2>7, <2>8, <2>9 DEF AnalyticsInv
<1> QED BY <1>2, <1>3

\* The job between its steps: what it works on stays with it.
LEMMA JobStepsOn ==
  ASSUME AnalyticsInv, UNCHANGED <<runs, made, refreshTasks, cut>>, unheard \subseteq unheard',
         work # NoWork, work' # NoWork, work'.run = work.run, JobSound'
  PROVE  AnalyticsInv'
<1>1. TasksSound'
  BY DEF AnalyticsInv, TasksSound
<1> QED BY <1>1, JobMoves

\* The job ends, with its run over or its loss known.
LEMMA JobEnds ==
  ASSUME AnalyticsInv, UNCHANGED <<runs, made, refreshTasks>>, unheard \subseteq unheard',
         cut \subseteq cut', work # NoWork,
         work' = NoWork \/ \E t, rest : work' = [at |-> "start", target |-> t, run |-> 0, rest |-> rest],
         work.run \in cut' \cup unheard' \/ runs[work.run].status = "finished"
  PROVE  AnalyticsInv'
<1>0. Len(runs) \in Nat
  BY RunsAreNumbered DEF AnalyticsInv
<1>1. CASE work' = NoWork
  <2>1. JobSound' /\ TasksSound'
    BY <1>1 DEF JobSound, TasksSound, AnalyticsInv
  <2> QED BY <2>1, JobMoves
<1>2. ASSUME NEW t, NEW rest, work' = [at |-> "start", target |-> t, run |-> 0, rest |-> rest]
      PROVE  AnalyticsInv'
  <2>1. JobSound'
    BY <1>0, <1>2 DEF JobSound, JobAt
  <2>2. work'.run = 0 /\ \A k \in refreshTasks : k.run # 0
    BY <1>0, <1>2 DEF AnalyticsInv, TasksSound
  <2>3. TasksSound'
    BY <2>2 DEF TasksSound, AnalyticsInv
  <2> QED BY <2>1, <2>3, JobMoves
<1> QED BY <1>1, <1>2

LEMMA JobAnnouncesStep ==
  ASSUME AnalyticsInv, JobAnnounces PROVE AnalyticsInv'
<1> PICK w : w = work
  OBVIOUS
<1>1. /\ w # NoWork /\ JobAt(w, "announce") /\ w.run # 0 /\ w.run \in 0..Len(runs)
      /\ runs[w.run].status = "started" /\ w.run \notin made
      /\ UNCHANGED <<runs, refreshTasks, made, cut>>
  <2>1. work # NoWork /\ work.at = "announce"
    BY DEF JobAnnounces, NoWork
  <2> QED BY <2>1 DEF AnalyticsInv, JobSound, JobAt, JobAnnounces
<1>2. CASE work' = [work EXCEPT !.at = "collect"] /\ UNCHANGED unheard
  <2>1. work' = [at |-> "collect", target |-> w.target, run |-> w.run, rest |-> w.rest]
    BY <1>1, <1>2 DEF JobAt
  <2>2. JobSound'
    BY <1>1, <2>1 DEF JobSound, JobAt
  <2> QED BY <1>1, <1>2, <2>1, <2>2, JobStepsOn DEF NoWork
<1>3. CASE BusFails /\ work' = NoWork
  BY <1>1, <1>3, JobEnds DEF BusFails
<1> QED BY <1>2, <1>3 DEF JobAnnounces

LEMMA JobCollectsStep ==
  ASSUME AnalyticsInv, JobCollects PROVE AnalyticsInv'
<1> PICK w : w = work
  OBVIOUS
<1>1. /\ w # NoWork /\ JobAt(w, "collect") /\ w.run # 0 /\ w.run \in 0..Len(runs)
      /\ runs[w.run].status = "started" /\ w.run \notin made
      /\ UNCHANGED <<runs, refreshTasks, made, cut, unheard>>
  <2>1. work # NoWork /\ work.at = "collect"
    BY DEF JobCollects, NoWork
  <2> QED BY <2>1 DEF AnalyticsInv, JobSound, JobAt, JobCollects
<1>2. ASSUME NEW at \in {"fail", "save"}, work' = [work EXCEPT !.at = at] PROVE AnalyticsInv'
  <2>1. work' = [at |-> at, target |-> w.target, run |-> w.run, rest |-> w.rest]
    BY <1>1, <1>2 DEF JobAt
  <2>2. JobSound'
    BY <1>1, <2>1 DEF JobSound, JobAt
  <2> QED BY <1>1, <2>1, <2>2, JobStepsOn DEF NoWork
<1> QED BY <1>2 DEF JobCollects

LEMMA JobSavesStep ==
  ASSUME AnalyticsInv, JobSaves PROVE AnalyticsInv'
<1>0. Len(runs) \in Nat /\ DOMAIN runs = 1..Len(runs)
  BY RunsAreNumbered DEF AnalyticsInv
<1> PICK w : w = work
  OBVIOUS
<1>1. /\ w # NoWork /\ JobAt(w, "save") /\ w.run # 0 /\ w.run \in 0..Len(runs)
      /\ runs' = [runs EXCEPT ![w.run].status = "finished"] /\ made' = made \cup {w.run}
      /\ work' = [work EXCEPT !.at = "tell"]
      /\ UNCHANGED <<refreshTasks, cut, unheard>>
  <2>1. work # NoWork /\ work.at = "save"
    BY DEF JobSaves, NoWork
  <2> QED BY <2>1 DEF AnalyticsInv, JobSound, JobAt, JobSaves
<1>2. w.run \in 1..Len(runs)
  BY <1>0, <1>1
<1>3. work' = [at |-> "tell", target |-> w.target, run |-> w.run, rest |-> w.rest]
  BY <1>1 DEF JobAt
<1>4. /\ RunsTyped' /\ Len(runs') = Len(runs)
      /\ \A i \in 1..Len(runs) : runs'[i].status = IF i = w.run THEN "finished" ELSE runs[i].status
  <2>1. RunsTyped /\ made' \subseteq made \cup {w.run}
    BY <1>1 DEF AnalyticsInv
  <2>2. Marks(w.run, "finished")
    BY <1>1 DEF Marks
  <2> QED BY <1>2, <2>1, <2>2, RunMarked
<1>5. DOMAIN runs' = 1..Len(runs)
  BY <1>4, RunsAreNumbered DEF RunsTyped
<1>6. JobSound'
  BY <1>1, <1>2, <1>3, <1>4 DEF JobSound, JobAt
<1>7. TasksSound'
  <2>1. \A k \in refreshTasks : k.run # w.run
    BY <1>1 DEF AnalyticsInv, TasksSound
  <2> QED BY <1>1, <1>3, <1>4, <2>1 DEF AnalyticsInv, TasksSound
<1>8. OutcomesExplained'
  BY <1>0, <1>1, <1>4, <1>5 DEF AnalyticsInv, OutcomesExplained
<1>9. OpenRunsExplained'
  BY <1>0, <1>1, <1>3, <1>4, <1>5 DEF AnalyticsInv, OpenRunsExplained, Unlocked
<1> QED BY <1>4, <1>6, <1>7, <1>8, <1>9 DEF AnalyticsInv

LEMMA JobTellsStep ==
  ASSUME AnalyticsInv, JobTells PROVE AnalyticsInv'
<1> PICK w : w = work
  OBVIOUS
<1>1. /\ w # NoWork /\ JobAt(w, "tell") /\ w.run # 0 /\ w.run \in 0..Len(runs)
      /\ runs[w.run].status = "finished" /\ w.run \in made
      /\ UNCHANGED <<runs, refreshTasks, made, cut>>
  <2>1. work # NoWork /\ work.at = "tell"
    BY DEF JobTells, NoWork
  <2> QED BY <2>1 DEF AnalyticsInv, JobSound, JobAt, JobTells
<1>2. CASE /\ work' = IF work.rest = <<>> THEN NoWork
                      ELSE [at |-> "start", target |-> Head(work.rest), run |-> 0, rest |-> Tail(work.rest)]
           /\ UNCHANGED unheard
  <2>1. work' = NoWork \/ \E t, rest : work' = [at |-> "start", target |-> t, run |-> 0, rest |-> rest]
    BY <1>2
  <2> QED BY <1>1, <1>2, <2>1, JobEnds
<1>3. CASE BusFails /\ work' = [work EXCEPT !.at = "fail"]
  <2>1. work' = [at |-> "fail", target |-> w.target, run |-> w.run, rest |-> w.rest]
    BY <1>1, <1>3 DEF JobAt
  <2>2. unheard' = unheard \cup {w.run}
    BY <1>3 DEF BusFails
  <2>3. JobSound'
    BY <1>1, <2>1, <2>2 DEF JobSound, JobAt
  <2> QED BY <1>1, <2>1, <2>2, <2>3, JobStepsOn DEF NoWork
<1> QED BY <1>2, <1>3 DEF JobTells

LEMMA JobFailsStep ==
  ASSUME AnalyticsInv, JobFails PROVE AnalyticsInv'
<1>0. Len(runs) \in Nat /\ DOMAIN runs = 1..Len(runs)
  BY RunsAreNumbered DEF AnalyticsInv
<1> PICK w : w = work
  OBVIOUS
<1>1. /\ w # NoWork /\ w.run # 0 /\ w.run \in 0..Len(runs) /\ (w.run \in made => w.run \in unheard)
      /\ runs' = [runs EXCEPT ![w.run].status = "failed"] /\ work' = NoWork
      /\ UNCHANGED <<refreshTasks, made, cut, unheard>>
  <2>1. work # NoWork /\ work.at = "fail"
    BY DEF JobFails, NoWork
  <2> QED BY <2>1 DEF AnalyticsInv, JobSound, JobFails
<1>2. w.run \in 1..Len(runs)
  BY <1>0, <1>1
<1>4. /\ RunsTyped' /\ Len(runs') = Len(runs)
      /\ \A i \in 1..Len(runs) : runs'[i].status = IF i = w.run THEN "failed" ELSE runs[i].status
  <2>1. RunsTyped /\ made' \subseteq made \cup {w.run}
    BY <1>1 DEF AnalyticsInv
  <2>2. Marks(w.run, "failed")
    BY <1>1 DEF Marks
  <2> QED BY <1>2, <2>1, <2>2, RunMarked
<1>5. DOMAIN runs' = 1..Len(runs)
  BY <1>4, RunsAreNumbered DEF RunsTyped
<1>6. JobSound'
  BY <1>1 DEF JobSound
<1>7. TasksSound'
  <2>1. \A k \in refreshTasks : k.run # w.run
    BY <1>1 DEF AnalyticsInv, TasksSound
  <2> QED BY <1>1, <1>4, <2>1 DEF AnalyticsInv, TasksSound
<1>8. OutcomesExplained'
  BY <1>0, <1>1, <1>4, <1>5 DEF AnalyticsInv, OutcomesExplained
<1>9. OpenRunsExplained'
  BY <1>0, <1>1, <1>4, <1>5 DEF AnalyticsInv, OpenRunsExplained, Unlocked
<1> QED BY <1>4, <1>6, <1>7, <1>8, <1>9 DEF AnalyticsInv

LEMMA AnalyticsStep == AnalyticsInv /\ AnalyticsNext => AnalyticsInv'
<1> SUFFICES ASSUME AnalyticsInv, AnalyticsNext PROVE AnalyticsInv'
  OBVIOUS
<1>1. ASSUME UNCHANGED <<runs, refreshTasks, work, made, unheard, cut>> PROVE AnalyticsInv'
  <2>1. RunsTyped'
    BY <1>1 DEF AnalyticsInv, RunsTyped
  <2>2. JobSound' /\ TasksSound'
    BY <1>1 DEF AnalyticsInv, JobSound, TasksSound
  <2>3. OutcomesExplained' /\ OpenRunsExplained'
    BY <1>1 DEF AnalyticsInv, OutcomesExplained, OpenRunsExplained, Unlocked
  <2> QED BY <2>1, <2>2, <2>3 DEF AnalyticsInv
<1>2. ASSUME NEW t \in Targets,
             \/ TargetCreated(t) \/ TargetDeleted(t)
             \/ \E status \in {"active", "paused"} : TargetUpdated(t, status)
      PROVE  AnalyticsInv'
  BY <1>1, <1>2 DEF TargetCreated, TargetDeleted, TargetUpdated
<1>3. ASSUME NEW t \in Targets, Refresh(t) \/ McpRefresh(t) PROVE AnalyticsInv'
  BY <1>3, RefreshStep DEF Refresh, McpRefresh
<1>4. CASE JobIsLost
  BY <1>4, JobEnds DEF JobIsLost, Unlocked
<1>5. CASE StartLogin \/ ConfirmCode \/ ConfirmPassword \/ TelegramForgets
  BY <1>1, <1>5 DEF StartLogin, ConfirmCode, ConfirmPassword, TelegramForgets, LoginStatus
<1> QED BY <1>2, <1>3, <1>4, <1>5, TakesTaskStep, TakesAllStep, JobStartsStep, JobAnnouncesStep,
  JobCollectsStep, JobSavesStep, JobTellsStep, JobFailsStep DEF AnalyticsNext

\* Runs, tasks and the job fit each other in every behaviour (AnalyticsService).
THEOREM AnalyticsInvariant == AnalyticsSpec => []AnalyticsInv
<1>1. AnalyticsInv /\ UNCHANGED analyticsVars => AnalyticsInv'
  BY DEF analyticsVars, AnalyticsInv, RunsTyped, JobSound, TasksSound, OutcomesExplained,
    OpenRunsExplained, Unlocked
<1> QED BY <1>1, AnalyticsStep, AnalyticsInitHolds, PTL DEF AnalyticsSpec

\* The list of refresh runs may be taken for what it says, for any number of targets, tasks
\* and rounds: an end says what became of the snapshot, and an open run has its task, its
\* job or a known loss (AnalyticsService.refresh_target, refresh tasks).
THEOREM RefreshRunsAreExplained == AnalyticsSpec => []RefreshRunsExplained
<1>1. AnalyticsInv => RefreshRunsExplained
  BY DEF AnalyticsInv, RefreshRunsExplained
<1> QED BY <1>1, AnalyticsInvariant, PTL

\* Targets, the statuses of runs and the targets of tasks are what the code writes.
RunStatuses == {"queued", "started", "finished", "failed"}
AnalyticsParts ==
  /\ targets \in [Targets -> {"none", "active", "paused"}]
  /\ \A r \in 1..Len(runs) : runs[r].status \in RunStatuses
  /\ \A k \in refreshTasks : runs[k.run].target = k.target

\* A run more, and at most a task for it.
LEMMA PartsAdded ==
  ASSUME AnalyticsInv, AnalyticsParts, NEW t, NEW s \in RunStatuses,
         runs' = Append(runs, [target |-> t, status |-> s]), UNCHANGED <<targets, made>>,
         refreshTasks' \subseteq refreshTasks \cup {[target |-> t, run |-> NextRun]}
  PROVE  AnalyticsParts'
<1> PICK row : row = [target |-> t, status |-> s]
  OBVIOUS
<1>1. row.target = t /\ row.status = s
  OBVIOUS
<1> PICK S : runs \in Seq(S)
  BY DEF AnalyticsInv, RunsTyped
<1>2. runs \in Seq(S \cup {row}) /\ row \in S \cup {row} /\ runs' = Append(runs, row)
  OBVIOUS
<1>3. /\ Len(runs) \in Nat /\ Len(runs') = Len(runs) + 1
      /\ \A r \in 1..Len(runs) : runs'[r] = runs[r]
      /\ runs'[Len(runs) + 1] = row
  BY <1>2
<1>4. \A r \in 1..Len(runs') : r \in 1..Len(runs) \/ r = Len(runs) + 1
  BY <1>3
<1>5. \A r \in 1..Len(runs') : runs'[r].status \in RunStatuses
  BY <1>1, <1>3, <1>4 DEF AnalyticsParts
<1>6. \A k \in refreshTasks : runs'[k.run].target = k.target
  BY <1>3 DEF AnalyticsParts, AnalyticsInv, TasksSound
<1>7. \A k \in refreshTasks' : runs'[k.run].target = k.target
  <2> SUFFICES ASSUME NEW k \in refreshTasks' PROVE runs'[k.run].target = k.target
    OBVIOUS
  <2>1. k \in refreshTasks \/ k = [target |-> t, run |-> Len(runs) + 1]
    BY DEF NextRun
  <2>2. CASE k = [target |-> t, run |-> Len(runs) + 1]
    <3>1. k.run = Len(runs) + 1 /\ k.target = t
      BY <2>2
    <3> QED BY <1>1, <1>3, <3>1, Zenon
  <2> QED BY <1>6, <2>1, <2>2
<1> QED BY <1>5, <1>7 DEF AnalyticsParts

\* A run that is marked keeps its target.
LEMMA PartsMarked ==
  ASSUME AnalyticsInv, AnalyticsParts, NEW r \in 1..Len(runs), NEW s \in RunStatuses, Marks(r, s),
         made' \subseteq made \cup {r}, UNCHANGED <<targets, refreshTasks>>
  PROVE  AnalyticsParts'
<1>1. /\ Len(runs') = Len(runs)
      /\ \A i \in 1..Len(runs) : /\ runs'[i].status = IF i = r THEN s ELSE runs[i].status
                                 /\ runs'[i].target = runs[i].target
  BY RunMarked DEF AnalyticsInv
<1> QED BY <1>1 DEF AnalyticsParts, AnalyticsInv, TasksSound

LEMMA AnalyticsPartsStep ==
  ASSUME AnalyticsInv, AnalyticsParts, [AnalyticsNext]_analyticsVars PROVE AnalyticsParts'
<1>1. RunsTyped /\ JobSound /\ Len(runs) \in Nat
  BY RunsAreNumbered DEF AnalyticsInv
<1>2. ASSUME UNCHANGED <<targets, runs>>, refreshTasks' \subseteq refreshTasks PROVE AnalyticsParts'
  BY <1>2 DEF AnalyticsParts
<1>3. ASSUME NEW t \in Targets, NEW status \in {"active", "paused"},
             TargetCreated(t) \/ TargetUpdated(t, status) \/ TargetDeleted(t)
      PROVE  AnalyticsParts'
  BY <1>3 DEF TargetCreated, TargetUpdated, TargetDeleted, AnalyticsParts
<1>4. ASSUME NEW t \in Targets, Refresh(t) \/ McpRefresh(t) PROVE AnalyticsParts'
  BY <1>4, PartsAdded DEF Refresh, McpRefresh, CreateRun, RunStatuses
<1>5. ASSUME NEW k \in refreshTasks, TakesTask(k) PROVE AnalyticsParts'
  BY <1>2, <1>5 DEF TakesTask
<1>6. CASE JobStarts
  <2>1. CASE UNCHANGED runs
    BY <1>2, <1>6, <2>1 DEF JobStarts
  <2>2. CASE runs' = Started(work.target, work.run)
    <3>1. UNCHANGED <<targets, refreshTasks, made>>
      BY <1>6 DEF JobStarts
    <3>2. CASE work.run = 0
      BY <2>2, <3>1, <3>2, PartsAdded DEF Started, RunStatuses
    <3>3. CASE work.run # 0
      <4>1. work.run \in 1..Len(runs)
        BY <1>1, <1>6, <3>3 DEF JobStarts, JobSound, NoWork
      <4> QED BY <2>2, <3>1, <3>3, <4>1, PartsMarked DEF Started, Marks, RunStatuses
    <3> QED BY <3>2, <3>3
  <2> QED BY <1>6, <2>1, <2>2 DEF JobStarts
<1>7. CASE JobSaves \/ JobFails
  <2>1. work.run \in 1..Len(runs) /\ UNCHANGED <<targets, refreshTasks>>
    BY <1>1, <1>7 DEF JobSaves, JobFails, JobSound, NoWork
  <2>2. \E s \in RunStatuses : Marks(work.run, s)
    BY <1>7 DEF JobSaves, JobFails, Marks, RunStatuses
  <2>3. made' \subseteq made \cup {work.run}
    BY <1>7 DEF JobSaves, JobFails
  <2> QED BY <2>1, <2>2, <2>3, PartsMarked
<1>8. CASE TakesAll \/ JobAnnounces \/ JobCollects \/ JobTells \/ JobIsLost \/ StartLogin
           \/ ConfirmCode \/ ConfirmPassword \/ TelegramForgets
  <2>1. UNCHANGED <<targets, runs, refreshTasks>>
    BY <1>8 DEF TakesAll, JobAnnounces, JobCollects, JobTells, JobIsLost, StartLogin, ConfirmCode,
      ConfirmPassword, LoginStatus, TelegramForgets
  <2> QED BY <1>2, <2>1
<1>9. CASE UNCHANGED analyticsVars
  BY <1>2, <1>9 DEF analyticsVars
<1> QED BY <1>3, <1>4, <1>5, <1>6, <1>7, <1>8, <1>9 DEF AnalyticsNext

\* Targets, runs, tasks and the job are of their types, for any targets: every task names
\* the target of its run, and the job a run there is.
THEOREM AnalyticsTypeCorrect == AnalyticsSpec => []AnalyticsTypeOK
<1>1. AnalyticsInit => AnalyticsParts
  <2>1. AnalyticsInit => Len(runs) = 0
    BY DEF AnalyticsInit
  <2> QED BY <2>1 DEF AnalyticsInit, AnalyticsParts
<1>2. AnalyticsInv /\ AnalyticsParts => AnalyticsTypeOK
  BY RunsAreNumbered DEF AnalyticsInv, AnalyticsParts, RunStatuses, JobSound, Unlocked, AnalyticsTypeOK
<1> QED
  BY <1>1, <1>2, AnalyticsInvariant, AnalyticsPartsStep, PTL DEF AnalyticsSpec

-----------------------------------------------------------------------------
(* The egress row.                                                          *)

Egresses == [mode : Modes, provider : Providers \cup {"none"}, status : States, since : BOOLEAN]
CommandCall == [at : {"run", "stop", "stop_run", "observe"}, provider : Modes \cup {"none"}]
LoadCall == [at : {"load"}, status : States, fresh : BOOLEAN]
StoreCall == [at : {"store"}, status : States, fresh : BOOLEAN,
              loaded : [status : States, since : BOOLEAN]]

\* What a status says of the tunnel.
Speaks(status) ==
  /\ status = "connected" => tunnel = "running"
  /\ status = "disconnected" => (tunnel # "running" \/ control = "none")

\* An observation is true of the tunnel until the tunnel changes.
ObservationsFresh ==
  \A c \in EgressCalls :
    egressCall[c].at \in {"load", "store"} /\ egressCall[c].fresh => Speaks(egressCall[c].status)

EgressInv ==
  /\ egress \in Egresses /\ control \in {"none", "deaf", "ready"} /\ unseen \in BOOLEAN
  /\ egressCall \in [EgressCalls -> {NoCall} \cup CommandCall \cup LoadCall \cup StoreCall]
  /\ ObservationsFresh
  /\ EgressRowExplained

LEMMA EgressInitHolds == EgressInit => EgressInv
<1> SUFFICES ASSUME EgressInit PROVE EgressInv
  OBVIOUS
<1>1. egress \in Egresses /\ unseen \in BOOLEAN
  BY DEF EgressInit, Egresses, Modes, States
<1>2. egressCall \in [EgressCalls -> {NoCall}] /\ ObservationsFresh
  BY DEF EgressInit, ObservationsFresh, NoCall
<1>3. SinceGoesWithStatus /\ RecordSpeaksOfTunnel /\ ProviderFitsMode
  BY DEF EgressInit, SinceGoesWithStatus, RecordSpeaksOfTunnel, ProviderFitsMode
<1> QED BY <1>1, <1>2, <1>3 DEF EgressInit, EgressInv, EgressRowExplained

\* A call may be at a command, or have observed what is true.
Sound(call) ==
  /\ call \in {NoCall} \cup CommandCall \cup LoadCall \cup StoreCall
  /\ call.at \in {"load", "store"} /\ call.fresh => Speaks(call.status)

LEMMA CallGoesOn ==
  ASSUME EgressInv, NEW c \in EgressCalls, NEW call, Sound(call), CallGoes(c, call),
         UNCHANGED <<egress, tunnel, control, crossed, unseen, odd>>
  PROVE  EgressInv'
<1>1. /\ egressCall' \in [EgressCalls -> {NoCall} \cup CommandCall \cup LoadCall \cup StoreCall]
      /\ \A x \in EgressCalls : egressCall'[x] = IF x = c THEN call ELSE egressCall[x]
  BY DEF CallGoes, EgressInv, Sound
<1>2. ObservationsFresh'
  BY <1>1 DEF EgressInv, ObservationsFresh, Sound, Speaks
<1>3. EgressRowExplained'
  BY DEF EgressInv, EgressRowExplained, SinceGoesWithStatus, RecordSpeaksOfTunnel, ProviderFitsMode
<1> QED BY <1>1, <1>2, <1>3 DEF EgressInv

\* Once a change of the tunnel aged them, calls hold nothing true any more.
LEMMA AgedIsSound ==
  ASSUME EgressInv, NEW x \in EgressCalls
  PROVE  /\ Aged(egressCall)[x] \in {NoCall} \cup CommandCall \cup LoadCall \cup StoreCall
         /\ Aged(egressCall)[x].at \in {"load", "store"} => ~Aged(egressCall)[x].fresh
<1> PICK r : r = egressCall[x]
  OBVIOUS
<1>1. Aged(egressCall)[x] = IF r.at \in {"load", "store"} THEN [r EXCEPT !.fresh = FALSE] ELSE r
  BY DEF Aged
<1>2. r \in {NoCall} \cup CommandCall \cup LoadCall \cup StoreCall
  BY DEF EgressInv
<1>3. CASE r \in LoadCall
  <2>1. r.at = "load" /\ [r EXCEPT !.fresh = FALSE] \in LoadCall /\ ~[r EXCEPT !.fresh = FALSE].fresh
    BY <1>3 DEF LoadCall
  <2> QED BY <1>1, <2>1
<1>5. CASE r \in StoreCall
  <2>1. r.at = "store" /\ [r EXCEPT !.fresh = FALSE] \in StoreCall /\ ~[r EXCEPT !.fresh = FALSE].fresh
    BY <1>5 DEF StoreCall
  <2> QED BY <1>1, <2>1
<1>4. CASE r \in {NoCall} \cup CommandCall
  BY <1>1, <1>4 DEF NoCall, CommandCall
<1> QED BY <1>2, <1>3, <1>4, <1>5

LEMMA CommandTunnelStep ==
  ASSUME EgressInv, NEW c \in EgressCalls, CommandTunnel(c) PROVE EgressInv'
<1> PICK call : call = egressCall[c]
  OBVIOUS
<1> PICK wanted : wanted = IF call.at = "run" THEN "running" ELSE "stopped"
  OBVIOUS
<1>1. call \in CommandCall /\ UNCHANGED <<egress, control, crossed, odd>>
  BY DEF EgressInv, CommandTunnel, NoCall, LoadCall, StoreCall
<1>2. /\ NoCall \in {NoCall} \cup CommandCall /\ [call EXCEPT !.at = NextStep(call.at)] \in {NoCall} \cup CommandCall
      /\ \A x \in {NoCall} \cup CommandCall : x.at \notin {"load", "store"}
  BY <1>1 DEF CommandCall, NextStep, NoCall
<1>3. CASE CallEnds(c) /\ UNCHANGED <<tunnel, unseen>>
  BY <1>1, <1>2, <1>3, CallGoesOn DEF CallEnds, CallGoes, Sound
<1>4. ASSUME tunnel' = wanted, unseen' = (unseen \/ tunnel # wanted),
             NEW after \in {NoCall, [call EXCEPT !.at = NextStep(call.at)]},
             egressCall' = [IF tunnel = wanted THEN egressCall ELSE Aged(egressCall) EXCEPT ![c] = after]
      PROVE  EgressInv'
  <2>1. CASE tunnel = wanted
    <3>1. tunnel' = tunnel /\ unseen' = unseen /\ CallGoes(c, after) /\ Sound(after)
      <4>1. unseen' = unseen
        BY <1>4, <2>1 DEF EgressInv
      <4> QED BY <1>2, <1>4, <2>1, <4>1 DEF CallGoes, Sound
    <3> QED BY <1>1, <3>1, CallGoesOn
  <2>2. CASE tunnel # wanted
    <3>1. \A x \in EgressCalls : egressCall'[x] = IF x = c THEN after ELSE Aged(egressCall)[x]
      BY <1>4, <2>2 DEF Aged
    <3>2. \A x \in EgressCalls :
            /\ egressCall'[x] \in {NoCall} \cup CommandCall \cup LoadCall \cup StoreCall
            /\ egressCall'[x].at \in {"load", "store"} => ~egressCall'[x].fresh
      BY <1>2, <3>1, AgedIsSound
    <3>3. egressCall' \in [EgressCalls -> {NoCall} \cup CommandCall \cup LoadCall \cup StoreCall]
      BY <1>4, <2>2, <3>2 DEF Aged
    <3>4. ObservationsFresh'
      BY <3>2 DEF ObservationsFresh
    <3>5. EgressRowExplained'
      BY <1>1, <1>4, <2>2
        DEF EgressInv, EgressRowExplained, SinceGoesWithStatus, RecordSpeaksOfTunnel, ProviderFitsMode
    <3>6. unseen' \in BOOLEAN
      BY <1>4
    <3> QED BY <1>1, <3>3, <3>4, <3>5, <3>6 DEF EgressInv
  <2> QED BY <2>1, <2>2
<1> QED BY <1>3, <1>4 DEF CommandTunnel

LEMMA ReadStatusStep ==
  ASSUME EgressInv, NEW c \in EgressCalls, ReadStatus(c) PROVE EgressInv'
<1> DEFINE holding(status) == [at |-> "load", status |-> status, fresh |-> TRUE]
<1>1. UNCHANGED <<egress, tunnel, control, crossed, unseen, odd>>
  BY DEF ReadStatus
<1>2. ASSUME NEW status \in States, Speaks(status) PROVE Sound(holding(status))
  BY <1>2 DEF Sound, LoadCall
<1>3. \E status \in States : Speaks(status) /\ CallGoes(c, holding(status))
  <2>1. \/ CallGoes(c, holding("not_applicable"))
        \/ CallGoes(c, holding("misconfigured"))
        \/ \E heard \in Heard : CallGoes(c, holding(TunnelState(heard)))
    BY DEF ReadStatus
  <2>2. ASSUME NEW heard \in Heard PROVE TunnelState(heard) \in States /\ Speaks(TunnelState(heard))
    <3>1. CASE heard = "running"
      BY <3>1 DEF Heard, TunnelState, States, Speaks
    <3>2. CASE heard = "stopped"
      BY <3>2 DEF Heard, TunnelState, States, Speaks
    <3>3. CASE heard \notin {"running", "stopped"}
      BY <3>3 DEF Heard, TunnelState, States, Speaks
    <3> QED BY <3>1, <3>2, <3>3
  <2>3. \A status \in {"not_applicable", "misconfigured"} : status \in States /\ Speaks(status)
    BY DEF States, Speaks
  <2> QED BY <2>1, <2>2, <2>3
<1> HIDE DEF holding
<1> QED BY <1>1, <1>2, <1>3, CallGoesOn

LEMMA LoadRowStep ==
  ASSUME EgressInv, NEW c \in EgressCalls, LoadRow(c) PROVE EgressInv'
<1> PICK call : call = egressCall[c]
  OBVIOUS
<1> PICK next : next = [at |-> "store", status |-> call.status, fresh |-> call.fresh,
                        loaded |-> [status |-> egress.status, since |-> egress.since]]
  OBVIOUS
<1>1. call \in LoadCall /\ (call.fresh => Speaks(call.status))
  BY DEF EgressInv, LoadRow, NoCall, CommandCall, LoadCall, StoreCall, ObservationsFresh
<1>2. next \in StoreCall /\ next.fresh = call.fresh /\ next.status = call.status
  BY <1>1 DEF LoadCall, StoreCall, EgressInv, Egresses
<1> QED BY <1>1, <1>2, CallGoesOn DEF LoadRow, Sound

LEMMA StoreRowStep ==
  ASSUME EgressInv, NEW c \in EgressCalls, StoreRow(c) PROVE EgressInv'
<1> PICK call : call = egressCall[c]
  OBVIOUS
<1> PICK e : e = egress
  OBVIOUS
<1>1. call \in StoreCall /\ (call.fresh => Speaks(call.status)) /\ e \in Egresses
  BY DEF EgressInv, StoreRow, NoCall, CommandCall, LoadCall, StoreCall, ObservationsFresh
<1> PICK status : status = IF call.status # call.loaded.status THEN call.status ELSE e.status
  OBVIOUS
<1> PICK since : since = IF (call.status = "connected") # call.loaded.since
                         THEN call.status = "connected" ELSE e.since
  OBVIOUS
<1>2. status \in States /\ since \in BOOLEAN /\ call.loaded.since \in BOOLEAN /\ call.fresh \in BOOLEAN
  BY <1>1 DEF StoreCall, Egresses
<1>3. /\ egress' = [e EXCEPT !.status = status, !.since = since]
      /\ crossed' = (e.status # call.loaded.status \/ e.since # call.loaded.since)
      /\ unseen' = ~call.fresh
      /\ UNCHANGED <<tunnel, control, odd>>
  BY DEF StoreRow, SinceAfter
<1>4. egress' \in Egresses /\ egress'.status = status /\ egress'.since = since
      /\ egress'.mode = e.mode /\ egress'.provider = e.provider
  BY <1>1, <1>2, <1>3 DEF Egresses
<1>5. SinceGoesWithStatus'
  <2>1. CASE e.status = call.loaded.status /\ e.since = call.loaded.since
    <3>1. status = call.status
      BY <2>1
    <3>2. since = (call.status = "connected")
      BY <1>2, <2>1
    <3> QED BY <1>4, <3>1, <3>2 DEF SinceGoesWithStatus
  <2>2. CASE ~(e.status = call.loaded.status /\ e.since = call.loaded.since)
    BY <1>3, <2>2 DEF SinceGoesWithStatus
  <2> QED BY <2>1, <2>2
<1>6. RecordSpeaksOfTunnel'
  BY <1>1, <1>2, <1>3, <1>4 DEF RecordSpeaksOfTunnel, Speaks
<1>7. ProviderFitsMode'
  BY <1>3, <1>4 DEF ProviderFitsMode, EgressInv, EgressRowExplained
<1>8. /\ egressCall' \in [EgressCalls -> {NoCall} \cup CommandCall \cup LoadCall \cup StoreCall]
      /\ \A x \in EgressCalls : egressCall'[x] = IF x = c THEN NoCall ELSE egressCall[x]
  BY DEF StoreRow, CallEnds, EgressInv
<1>9. ObservationsFresh'
  BY <1>3, <1>8 DEF EgressInv, ObservationsFresh, Speaks, NoCall
<1> QED BY <1>3, <1>4, <1>5, <1>6, <1>7, <1>8, <1>9 DEF EgressInv, EgressRowExplained

LEMMA BeginEgressStep ==
  ASSUME EgressInv, NEW c \in EgressCalls, NEW kind \in {"check", "connect", "disconnect", "restart"},
         BeginEgress(c, kind)
  PROVE  EgressInv'
<1>1. UNCHANGED <<egress, tunnel, control, crossed, unseen, odd>>
  BY DEF BeginEgress
<1>2. CASE UNCHANGED egressCall
  BY <1>1, <1>2 DEF EgressInv, ObservationsFresh, Speaks, EgressRowExplained, SinceGoesWithStatus,
    RecordSpeaksOfTunnel, ProviderFitsMode
<1>3. ASSUME ~UNCHANGED egressCall PROVE EgressInv'
  <2> PICK p : p = ProviderFor(egress.mode, egress.provider)
    OBVIOUS
  <2> PICK at : at = CASE kind = "check" \/ p = "direct" -> "observe"
                       [] kind = "connect" -> "run"
                       [] kind = "disconnect" -> "stop"
                       [] kind = "restart" -> "stop_run"
    OBVIOUS
  <2>1. CallGoes(c, [at |-> at, provider |-> p])
    BY <1>3 DEF BeginEgress
  <2>2. p \in Modes \cup {"none"}
    BY DEF EgressInv, Egresses, ProviderFor, Resolved, Modes
  <2>3. at \in {"run", "stop", "stop_run", "observe"}
    OBVIOUS
  <2>4. Sound([at |-> at, provider |-> p])
    BY <2>2, <2>3 DEF Sound, CommandCall
  <2> QED BY <1>1, <2>1, <2>4, CallGoesOn
<1> QED BY <1>2, <1>3

LEMMA PatchEgressStep ==
  ASSUME EgressInv, NEW mode \in Modes \cup {"same"}, NEW provider \in Providers \cup {"none"},
         PatchEgress(mode, provider) \/ (mode \in Modes /\ SetEgress(mode, provider))
  PROVE  EgressInv'
<1> PICK e : e = egress
  OBVIOUS
<1>1. UNCHANGED <<tunnel, control, egressCall, crossed, unseen>> /\ e \in Egresses
  BY DEF PatchEgress, SetEgress, EgressInv
<1>2. \E m \in Modes, p \in Providers \cup {"none"} :
        egress' = [e EXCEPT !.mode = m, !.provider = p] /\ (odd' \/ p \in {"none", m})
  <2>1. CASE PatchEgress(mode, provider)
    <3> PICK m : m = IF mode = "same" THEN e.mode ELSE mode
      OBVIOUS
    <3> PICK p : p = PatchedProvider(m, provider)
      OBVIOUS
    <3>1. m \in Modes /\ p \in Providers \cup {"none"}
      BY <1>1 DEF Egresses, PatchedProvider, Resolved
    <3>2. egress' = [e EXCEPT !.mode = m, !.provider = p]
      BY <2>1 DEF PatchEgress
    <3>3. odd' \/ provider \in {"none", m}
      BY <2>1 DEF PatchEgress
    <3>4. odd' \/ p \in {"none", m}
      BY <3>3 DEF PatchedProvider, Resolved
    <3> QED BY <3>1, <3>2, <3>4
  <2>2. CASE mode \in Modes /\ SetEgress(mode, provider)
    BY <2>2 DEF SetEgress
  <2> QED BY <2>1, <2>2
<1>3. PICK m \in Modes, p \in Providers \cup {"none"} :
        egress' = [e EXCEPT !.mode = m, !.provider = p] /\ (odd' \/ p \in {"none", m})
  BY <1>2
<1>4. egress' \in Egresses /\ egress'.mode = m /\ egress'.provider = p
      /\ egress'.status = e.status /\ egress'.since = e.since
  BY <1>1, <1>3 DEF Egresses
<1>5. ObservationsFresh'
  BY <1>1 DEF EgressInv, ObservationsFresh, Speaks
<1>6. EgressRowExplained'
  BY <1>1, <1>3, <1>4 DEF EgressInv, EgressRowExplained, SinceGoesWithStatus, RecordSpeaksOfTunnel,
    ProviderFitsMode
<1> QED BY <1>1, <1>4, <1>5, <1>6 DEF EgressInv

LEMMA EgressStep == EgressInv /\ EgressNext => EgressInv'
<1> SUFFICES ASSUME EgressInv, EgressNext PROVE EgressInv'
  OBVIOUS
<1>1. ASSUME UNCHANGED <<egress, tunnel, control, egressCall, crossed, unseen, odd>> PROVE EgressInv'
  BY <1>1 DEF EgressInv, ObservationsFresh, Speaks, EgressRowExplained, SinceGoesWithStatus,
    RecordSpeaksOfTunnel, ProviderFitsMode
<1>2. ASSUME NEW p \in Providers, NEW q, ConfigureEgress(p, q) PROVE EgressInv'
  BY <1>1, <1>2 DEF ConfigureEgress
<1>3. CASE BaseUrlChanges
  BY <1>3 DEF BaseUrlChanges, EgressInv, ObservationsFresh, Speaks, EgressRowExplained,
    SinceGoesWithStatus, RecordSpeaksOfTunnel, ProviderFitsMode
<1>4. ASSUME NEW s, TunnelTurns(s) PROVE EgressInv'
  <2>1. egressCall' = Aged(egressCall) /\ unseen' /\ UNCHANGED <<egress, control, crossed, odd>>
    BY <1>4 DEF TunnelTurns
  <2>2. egressCall' \in [EgressCalls -> {NoCall} \cup CommandCall \cup LoadCall \cup StoreCall]
        /\ ObservationsFresh'
    <3>1. \A x \in EgressCalls :
            /\ Aged(egressCall)[x] \in {NoCall} \cup CommandCall \cup LoadCall \cup StoreCall
            /\ Aged(egressCall)[x].at \in {"load", "store"} => ~Aged(egressCall)[x].fresh
      BY AgedIsSound
    <3>2. Aged(egressCall) \in [EgressCalls -> {NoCall} \cup CommandCall \cup LoadCall \cup StoreCall]
      BY <3>1 DEF Aged
    <3> QED BY <2>1, <3>1, <3>2 DEF ObservationsFresh
  <2> QED BY <2>1, <2>2 DEF EgressInv, EgressRowExplained, SinceGoesWithStatus, RecordSpeaksOfTunnel,
    ProviderFitsMode
<1>5. CASE ApiStops
  <2>1. egressCall' = [c \in EgressCalls |-> NoCall]
        /\ UNCHANGED <<egress, tunnel, control, crossed, unseen, odd>>
    BY <1>5 DEF ApiStops
  <2> QED BY <2>1 DEF EgressInv, ObservationsFresh, NoCall, EgressRowExplained, SinceGoesWithStatus,
    RecordSpeaksOfTunnel, ProviderFitsMode
<1> QED BY <1>2, <1>3, <1>4, <1>5, CommandTunnelStep, ReadStatusStep, LoadRowStep, StoreRowStep,
  BeginEgressStep, PatchEgressStep DEF EgressNext

\* The row, the calls and what they observed fit each other in every behaviour
\* (TelegramEgressService).
THEOREM EgressInvariant == EgressSpec => []EgressInv
<1>1. EgressInv /\ UNCHANGED egressVars => EgressInv'
  BY DEF egressVars, EgressInv, ObservationsFresh, Speaks, EgressRowExplained, SinceGoesWithStatus,
    RecordSpeaksOfTunnel, ProviderFitsMode
<1> QED BY <1>1, EgressStep, EgressInitHolds, PTL DEF EgressSpec

\* The stored egress row may be taken for what EgressRowExplained says, for any number of
\* calls and providers (TelegramEgressService): an observation is true until the tunnel
\* changes, and storing one over an unchanged row leaves the row as observed.
THEOREM EgressRowIsExplained == EgressSpec => []EgressRowExplained
<1>1. EgressInv => EgressRowExplained
  BY DEF EgressInv
<1> QED BY <1>1, EgressInvariant, PTL

\* Files and the tunnel are in one of their states.
EgressParts ==
  /\ profiles \in [Providers -> {"none", "bad", "good"}]
  /\ tunnel \in {"running", "stopped", "crashed"}

LEMMA EgressPartsStep == EgressParts /\ [EgressNext]_egressVars => EgressParts'
<1> SUFFICES ASSUME EgressParts, [EgressNext]_egressVars PROVE EgressParts'
  OBVIOUS
<1>1. ASSUME NEW p \in Providers, NEW q \in {"bad", "good"}, ConfigureEgress(p, q) PROVE EgressParts'
  BY <1>1 DEF ConfigureEgress, EgressParts
<1>2. ASSUME NEW c, CommandTunnel(c) PROVE EgressParts'
  BY <1>2 DEF CommandTunnel, EgressParts
<1>3. ASSUME NEW s \in {"stopped", "crashed"}, TunnelTurns(s) PROVE EgressParts'
  BY <1>3 DEF TunnelTurns, EgressParts
<1>4. ASSUME UNCHANGED <<profiles, tunnel>> PROVE EgressParts'
  BY <1>4 DEF EgressParts
<1>5. ASSUME NEW c, NEW k, BeginEgress(c, k) \/ ReadStatus(c) \/ LoadRow(c) \/ StoreRow(c)
      PROVE  EgressParts'
  BY <1>4, <1>5 DEF BeginEgress, ReadStatus, LoadRow, StoreRow
<1>6. ASSUME NEW m, NEW p, PatchEgress(m, p) \/ SetEgress(m, p) \/ BaseUrlChanges \/ ApiStops
      PROVE  EgressParts'
  BY <1>4, <1>6 DEF PatchEgress, SetEgress, BaseUrlChanges, ApiStops
<1>7. CASE UNCHANGED egressVars
  BY <1>4, <1>7 DEF egressVars
<1> QED BY <1>1, <1>2, <1>3, <1>5, <1>6, <1>7 DEF EgressNext

\* The row, the files and the calls hold what the code can put there, for any providers.
THEOREM EgressTypeCorrect == EgressSpec => []EgressTypeOK
<1>1. EgressInit => EgressParts
  BY DEF EgressInit, EgressParts
<1>2. EgressInv /\ EgressParts => EgressTypeOK
  BY DEF EgressInv, Egresses, NoCall, CommandCall, LoadCall, StoreCall, EgressParts, EgressTypeOK
<1> QED BY <1>1, <1>2, EgressInvariant, EgressPartsStep, PTL DEF EgressSpec

-----------------------------------------------------------------------------
(* The database switch.                                                     *)

Databases == {"sqlite", "pg"}
Item == [kind : {"config", "queue"}, id : Nat]
Opts == {"none", "a"}
DbRow == [rows : BOOLEAN, url : Urls, opt : Opts, items : SUBSET Item]
Running == [up : BOOLEAN, db : Databases, url : Databases, opt : {"env", "a"}]
Switching == [at : {"import", "override", "swap"}, home : Databases, dirty : BOOLEAN,
              snapshot : [opt : Opts, items : SUBSET Item]]
Kept == [opt : Opts, url : Urls, items : SUBSET Item]

DatabaseTyped ==
  /\ db \in [Databases -> DbRow] /\ app \in Running
  /\ patch \in {NoPatch} \cup Switching
  /\ writer \in [Writers -> [in : Databases \cup {"none"}]]
  /\ snapshotKept \subseteq Kept /\ items \in Nat

\* PostgreSQL never names another database, and a switch is one from SQLite.
UrlsFit ==
  ~foreign =>
    /\ db["pg"].url \in {"none", "pg"}
    /\ app.up => app.url = app.db
    /\ patch # NoPatch => app.up /\ app.db = "sqlite" /\ patch.home = "sqlite"
    /\ app.up /\ patch.at # "swap" => app.db = Override
    /\ patch.at = "swap" => Override = "pg"
    /\ patch.at \in {"override", "swap"} => db["pg"].url = "pg"

\* Between override and swap the API still runs with what SQLite's row gave it.
OptsFit ==
  ~foreign /\ ~cleared /\ app.up =>
    app.opt = IF patch.at = "swap" THEN Overlay("env", db["sqlite"].opt) ELSE ResolvedOpt

\* The snapshot holds what SQLite's sections hold, but for what was written since; once
\* imported it is in PostgreSQL.
SnapshotFits ==
  ~foreign /\ patch # NoPatch =>
    /\ \A i \in db["sqlite"].items : i.kind = "config" => i \in patch.snapshot.items \cup late \cup dropped
    /\ patch.snapshot.items \subseteq db["sqlite"].items
    /\ patch.at # "import" => patch.snapshot.items \subseteq db["pg"].items

DatabaseInv == DatabaseTyped /\ UrlsFit /\ OptsFit /\ SnapshotFits /\ NothingLostUnexplained

LEMMA DatabaseInitHolds == DatabaseInit => DatabaseInv
<1> SUFFICES ASSUME DatabaseInit PROVE DatabaseInv
  OBVIOUS
<1> PICK r : r = [rows |-> FALSE, url |-> "none", opt |-> "none", items |-> {}]
  OBVIOUS
<1>1. r \in DbRow /\ r.url = "none" /\ r.opt = "none" /\ r.items = {}
  BY DEF DbRow, Urls, Opts
<1>2. db \in [Databases -> DbRow] /\ db["sqlite"] = r /\ db["pg"] = r
  BY <1>1 DEF DatabaseInit, Databases
<1>3. app \in Running /\ app.url = "sqlite" /\ app.db = "sqlite" /\ app.opt = "env"
  BY DEF DatabaseInit, Running, Databases
<1>4. writer \in [Writers -> [in : Databases \cup {"none"}]]
  BY DEF DatabaseInit, NoWriter
<1>5. patch = NoPatch /\ patch.at = "idle" /\ snapshotKept = {} /\ items \in Nat
  BY DEF DatabaseInit, NoPatch
<1>6. DatabaseTyped
  BY <1>2, <1>3, <1>4, <1>5 DEF DatabaseTyped
<1>7. Override = "sqlite"
  BY <1>1, <1>2 DEF Override, Overlay
<1>8. UrlsFit /\ OptsFit
  BY <1>1, <1>2, <1>3, <1>5, <1>7 DEF UrlsFit, OptsFit, ResolvedOpt, Overlay
<1>9. SnapshotFits /\ NothingLostUnexplained
  BY <1>1, <1>2, <1>5 DEF SnapshotFits, NothingLostUnexplained
<1> QED BY <1>6, <1>8, <1>9 DEF DatabaseInv

\* The rows of both databases and of the patch, as they are taken apart below.
LEMMA DatabaseParts ==
  ASSUME DatabaseTyped
  PROVE  /\ db["sqlite"] \in DbRow /\ db["pg"] \in DbRow
         /\ Override \in Databases /\ Override = Overlay("sqlite", db["sqlite"].url)
         /\ patch # NoPatch => patch \in Switching
         /\ patch = NoPatch <=> patch.at = "idle"
<1>1. db["sqlite"] \in DbRow /\ db["pg"] \in DbRow
  BY DEF DatabaseTyped, Databases
<1>2. Override \in Databases /\ Override = Overlay("sqlite", db["sqlite"].url)
  BY <1>1 DEF Override, Overlay, DbRow, Urls, Databases
<1>3. (patch # NoPatch => patch \in Switching) /\ (patch = NoPatch <=> patch.at = "idle")
  BY DEF DatabaseTyped, NoPatch, Switching
<1> QED BY <1>1, <1>2, <1>3

\* What one row of the databases is after a write; the other stays.
LEMMA RowWritten ==
  ASSUME DatabaseTyped, NEW d \in Databases, NEW row \in DbRow, db' = [db EXCEPT ![d] = row]
  PROVE  db' \in [Databases -> DbRow] /\ \A e \in Databases : db'[e] = IF e = d THEN row ELSE db[e]
BY DEF DatabaseTyped

-----------------------------------------------------------------------------
\* Patches of settings and restores.

\* The API's database gets a row that names no other database, and the API lays it over its
\* settings.  The row's items are kept, or the loss is known.
LEMMA RowAndSettings ==
  ASSUME DatabaseInv, patch = NoPatch, app.up,
         NEW row \in DbRow,
         db' = [db EXCEPT ![app.db] = row], app' = AppAfter(app, row),
         ~foreign' => ~foreign /\ row.url \in {"none", app.db},
         ~cleared' => ~cleared /\ (row.opt = "a" \/ row.opt = db[app.db].opt),
         \A i \in db[app.db].items : i \in row.items \cup dropped',
         dropped \subseteq dropped', late' = late,
         UNCHANGED <<patch, writer, snapshotKept, items>>
  PROVE  DatabaseInv'
<1> PICK s : s = db["sqlite"]
  OBVIOUS
<1> PICK p : p = db["pg"]
  OBVIOUS
<1> PICK a : a = app
  OBVIOUS
<1>1. /\ s \in DbRow /\ p \in DbRow /\ a \in Running /\ a.db \in Databases
      /\ Override = Overlay("sqlite", s.url)
      /\ patch.at = "idle" /\ patch' = NoPatch /\ patch'.at = "idle"
  BY DatabaseParts DEF DatabaseInv, DatabaseTyped, Running
<1>2. /\ db' \in [Databases -> DbRow]
      /\ db'["sqlite"] = IF a.db = "sqlite" THEN row ELSE s
      /\ db'["pg"] = IF a.db = "pg" THEN row ELSE p
  BY <1>1, RowWritten DEF DatabaseInv, Databases
<1>3. /\ app' \in Running /\ app'.up /\ app'.db = a.db
      /\ app'.url = Overlay(a.url, row.url) /\ app'.opt = Overlay(a.opt, row.opt)
  <2> PICK o : o = Overlay(a.opt, row.opt)
    OBVIOUS
  <2> PICK u : u = Overlay(a.url, row.url)
    OBVIOUS
  <2>1. app' = [a EXCEPT !.opt = o, !.url = u]
    BY DEF AppAfter
  <2>2. o \in {"env", "a"} /\ u \in Databases
    BY <1>1 DEF Overlay, Running, DbRow, Urls, Opts, Databases
  <2> QED BY <1>1, <2>1, <2>2 DEF Running
<1>4. DatabaseTyped'
  BY <1>1, <1>2, <1>3 DEF DatabaseInv, DatabaseTyped
<1>5. ~foreign' => /\ ~foreign /\ row.url \in {"none", a.db} /\ p.url \in {"none", "pg"}
                   /\ a.url = a.db /\ a.db = Override
  BY <1>1 DEF DatabaseInv, UrlsFit
<1>6. ~foreign' => Override' = a.db
  <2>1. Override' = Overlay("sqlite", db'["sqlite"].url)
    BY DEF Override
  <2> QED BY <1>1, <1>2, <1>5, <2>1 DEF Overlay, Databases
<1>7. UrlsFit'
  BY <1>1, <1>2, <1>3, <1>5, <1>6 DEF UrlsFit, Overlay
<1>8. OptsFit'
  <2> SUFFICES ASSUME ~foreign', ~cleared' PROVE app'.opt = ResolvedOpt'
    BY <1>1, <1>3 DEF OptsFit
  <2>1. ~foreign /\ ~cleared /\ a.db = Override /\ a.opt = ResolvedOpt
    BY <1>1, <1>5 DEF DatabaseInv, OptsFit
  <2>2. ResolvedOpt = IF a.db = "sqlite" THEN Overlay("env", s.opt)
                      ELSE Overlay(Overlay("env", s.opt), p.opt)
    BY <2>1 DEF ResolvedOpt
  <2>3. ResolvedOpt' = IF a.db = "sqlite" THEN Overlay("env", db'["sqlite"].opt)
                       ELSE Overlay(Overlay("env", db'["sqlite"].opt), db'["pg"].opt)
    BY <1>6 DEF ResolvedOpt
  <2>4. CASE a.db = "sqlite"
    <3>1. row.opt = "a" \/ row.opt = s.opt
      BY <2>4
    <3> QED BY <1>1, <1>2, <1>3, <2>1, <2>2, <2>3, <2>4, <3>1 DEF Overlay, DbRow, Opts
  <2>5. CASE a.db = "pg"
    <3>1. row.opt = "a" \/ row.opt = p.opt
      BY <2>5
    <3> QED BY <1>1, <1>2, <1>3, <2>1, <2>2, <2>3, <2>5, <3>1 DEF Overlay, DbRow, Opts
  <2> QED BY <1>1, <2>4, <2>5 DEF Databases
<1>9. SnapshotFits'
  BY <1>1 DEF SnapshotFits
<1>10. NothingLostUnexplained'
  <2> SUFFICES ASSUME ~foreign', NEW i \in (db'["sqlite"].items \cup db'["pg"].items) \ (dropped' \cup late')
               PROVE  i \in db'[Override'].items \/ (i.kind = "queue" /\ i \in db'["sqlite"].items)
    BY DEF NothingLostUnexplained
  <2>1. Override' = a.db /\ Override = a.db /\ ~foreign /\ db'[a.db] = row /\ i \notin dropped \cup late
    BY <1>1, <1>2, <1>5, <1>6 DEF Databases
  <2>2. CASE i \in row.items
    BY <2>1, <2>2
  <2>3. CASE i \notin row.items
    <3>1. i \in s.items \cup p.items
      BY <1>2, <2>3
    <3>2. i \in db[a.db].items \/ (i.kind = "queue" /\ i \in s.items)
      BY <2>1, <3>1 DEF DatabaseInv, NothingLostUnexplained
    <3>3. i \notin db[a.db].items
      BY <2>3
    <3>4. i.kind = "queue" /\ i \in s.items /\ a.db # "sqlite"
      BY <3>2, <3>3
    <3> QED BY <1>2, <3>4
  <2> QED BY <2>2, <2>3
<1> QED BY <1>4, <1>7, <1>8, <1>9, <1>10 DEF DatabaseInv

LEMMA PatchSettingsStep ==
  ASSUME DatabaseInv, NEW opt \in {"same", "none", "a"}, NEW url \in Urls, PatchSettings(opt, url)
  PROVE  DatabaseInv'
<1> PICK a : a = app
  OBVIOUS
<1> PICK old : old = db[a.db]
  OBVIOUS
<1> PICK row : row = SettingsRow(a.db, opt, url)
  OBVIOUS
<1>1. /\ patch = NoPatch /\ a.up /\ a \in Running /\ old \in DbRow /\ a.db \in Databases
      /\ patch.at = "idle" /\ (url = "none" \/ url = a.url)
  BY DatabaseParts DEF DatabaseInv, DatabaseTyped, Running, PatchSettings, Switches
<1> PICK o : o = IF opt = "same" THEN old.opt ELSE opt
  OBVIOUS
<1> PICK u : u = IF url = "none" THEN old.url ELSE url
  OBVIOUS
<1>2. row = [old EXCEPT !.rows = TRUE, !.opt = o, !.url = u]
  BY DEF SettingsRow
<1>3. o \in Opts /\ u \in Urls
  BY <1>1 DEF DbRow, Opts
<1>4. row \in DbRow /\ row.opt = o /\ row.url = u /\ row.items = old.items
  BY <1>1, <1>2, <1>3 DEF DbRow
<1>5. /\ db' = [db EXCEPT ![a.db] = row] /\ app' = AppAfter(a, row)
      /\ cleared' = (cleared \/ opt = "none")
      /\ UNCHANGED <<patch, writer, snapshotKept, items, late, dropped, foreign>>
  BY DEF PatchSettings
<1>6. ~foreign' => ~foreign /\ row.url \in {"none", a.db}
  <2> SUFFICES ASSUME ~foreign PROVE u \in {"none", a.db}
    BY <1>4, <1>5
  <2>1. a.url = a.db /\ a.db = Override /\ db["pg"].url \in {"none", "pg"}
    BY <1>1 DEF DatabaseInv, UrlsFit
  <2>2. CASE url # "none"
    BY <1>1, <2>1, <2>2
  <2>3. CASE url = "none" /\ a.db = "pg"
    BY <2>1, <2>3
  <2>4. CASE url = "none" /\ a.db = "sqlite"
    <3>1. Overlay("sqlite", old.url) = "sqlite"
      BY <2>1, <2>4 DEF Override
    <3> QED BY <2>4, <3>1 DEF Overlay
  <2> QED BY <1>1, <2>2, <2>3, <2>4 DEF Databases
<1>7. ~cleared' => ~cleared /\ (row.opt = "a" \/ row.opt = old.opt)
  BY <1>4, <1>5
<1>8. \A i \in db[app.db].items : i \in row.items \cup dropped'
  BY <1>4
<1> QED BY <1>1, <1>4, <1>5, <1>6, <1>7, <1>8, RowAndSettings

LEMMA RestoreSnapshotStep ==
  ASSUME DatabaseInv, NEW k \in snapshotKept, RestoreSnapshot(k) PROVE DatabaseInv'
<1> PICK a : a = app
  OBVIOUS
<1> PICK old : old = db[a.db]
  OBVIOUS
<1> PICK its : its = k.items \cup {i \in old.items : i.kind # "config"}
  OBVIOUS
<1> PICK row : row = [old EXCEPT !.opt = k.opt, !.url = k.url, !.items = its]
  OBVIOUS
<1>1. /\ patch = NoPatch /\ a.up /\ a \in Running /\ old \in DbRow /\ a.db \in Databases /\ k \in Kept
  BY DatabaseParts DEF DatabaseInv, DatabaseTyped, Running, RestoreSnapshot
<1>2. k.opt \in Opts /\ k.url \in Urls /\ its \in SUBSET Item
  BY <1>1 DEF Kept, DbRow
<1>3. row \in DbRow /\ row.opt = k.opt /\ row.url = k.url /\ row.items = its
  BY <1>1, <1>2 DEF DbRow
<1>4. row = [db[app.db] EXCEPT !.opt = k.opt, !.url = k.url,
                               !.items = k.items \cup {i \in @ : i.kind # "config"}]
  OBVIOUS
<1>5. /\ db' = [db EXCEPT ![a.db] = row] /\ app' = AppAfter(a, row)
      /\ dropped' = dropped \cup (old.items \ row.items)
      /\ foreign' = (foreign \/ k.url \notin {"none", a.db})
      /\ cleared' = (cleared \/ k.opt = "none")
      /\ UNCHANGED <<patch, writer, snapshotKept, items, late>>
  BY <1>4 DEF RestoreSnapshot
<1>6. ~foreign' => ~foreign /\ row.url \in {"none", a.db}
  BY <1>3, <1>5
<1>7. ~cleared' => ~cleared /\ (row.opt = "a" \/ row.opt = old.opt)
  BY <1>2, <1>3, <1>5 DEF Opts
<1>8. \A i \in db[app.db].items : i \in row.items \cup dropped'
  BY <1>5
<1> QED BY <1>1, <1>3, <1>5, <1>6, <1>7, <1>8, RowAndSettings

-----------------------------------------------------------------------------
\* The switch.

LEMMA SwitchBeginsStep ==
  ASSUME DatabaseInv, NEW opt \in {"same", "none", "a"}, SwitchBegins(opt) PROVE DatabaseInv'
<1> PICK a : a = app
  OBVIOUS
<1> PICK old : old = db[a.db]
  OBVIOUS
<1> PICK row : row = SettingsRow(a.db, opt, "none")
  OBVIOUS
<1> PICK held : held = {i \in row.items : i.kind = "config"}
  OBVIOUS
<1> PICK dirty : dirty = (row # old \/ opt # "same")
  OBVIOUS
<1>1. /\ patch = NoPatch /\ patch.at = "idle" /\ a.up /\ a \in Running /\ old \in DbRow
      /\ a.db \in Databases /\ a.url = "sqlite"
  BY DatabaseParts DEF DatabaseInv, DatabaseTyped, Running, SwitchBegins
<1>2. row.opt \in Opts /\ row.items = old.items
  <2> PICK o : o = IF opt = "same" THEN old.opt ELSE opt
    OBVIOUS
  <2>1. row = [old EXCEPT !.rows = TRUE, !.opt = o, !.url = old.url]
    BY DEF SettingsRow
  <2>2. o \in Opts
    BY <1>1 DEF DbRow, Opts
  <2> QED BY <1>1, <2>1, <2>2 DEF DbRow
<1>3. patch' = [at |-> "import", home |-> a.db, dirty |-> dirty, snapshot |-> [opt |-> row.opt, items |-> held]]
      /\ UNCHANGED <<db, app, writer, snapshotKept, items, late, dropped, foreign, cleared>>
  BY DEF SwitchBegins
<1>4. held \in SUBSET Item /\ dirty \in BOOLEAN
  BY <1>1, <1>2 DEF DbRow
<1>5. patch' \in Switching /\ patch'.at = "import" /\ patch'.home = a.db /\ patch'.snapshot.items = held
      /\ patch' # NoPatch
  BY <1>1, <1>2, <1>3, <1>4 DEF Switching, NoPatch
<1>6. DatabaseTyped'
  BY <1>3, <1>5 DEF DatabaseInv, DatabaseTyped
<1>7. ~foreign => a.db = "sqlite" /\ Override = a.db
  BY <1>1 DEF DatabaseInv, UrlsFit
<1>8. Override' = Override /\ ResolvedOpt' = ResolvedOpt
  BY <1>3 DEF Override, ResolvedOpt
<1>9. UrlsFit' /\ OptsFit'
  BY <1>1, <1>3, <1>5, <1>7, <1>8 DEF DatabaseInv, UrlsFit, OptsFit
<1>10. SnapshotFits'
  BY <1>2, <1>3, <1>5, <1>7 DEF SnapshotFits
<1>11. NothingLostUnexplained'
  BY <1>3, <1>8 DEF DatabaseInv, NothingLostUnexplained
<1> QED BY <1>6, <1>9, <1>10, <1>11 DEF DatabaseInv

\* A patch that fails leaves everything as it was.
LEMMA PatchEnds ==
  ASSUME DatabaseInv, patch.at # "swap", patch' = NoPatch,
         UNCHANGED <<db, app, writer, snapshotKept, items, late, dropped, foreign, cleared>>
  PROVE  DatabaseInv'
<1>1. patch'.at = "idle"
  BY DEF NoPatch
<1>2. DatabaseTyped'
  BY DEF DatabaseInv, DatabaseTyped
<1>3. Override' = Override /\ ResolvedOpt' = ResolvedOpt
  BY DEF Override, ResolvedOpt
<1>4. UrlsFit' /\ OptsFit'
  BY <1>1, <1>3 DEF DatabaseInv, UrlsFit, OptsFit
<1>5. SnapshotFits' /\ NothingLostUnexplained'
  BY <1>3 DEF DatabaseInv, SnapshotFits, NothingLostUnexplained
<1> QED BY <1>2, <1>4, <1>5 DEF DatabaseInv

LEMMA SwitchImportsStep ==
  ASSUME DatabaseInv, SwitchImports PROVE DatabaseInv'
<1> PICK q : q = patch
  OBVIOUS
<1> PICK s : s = db["sqlite"]
  OBVIOUS
<1> PICK p : p = db["pg"]
  OBVIOUS
<1>1. /\ q \in Switching /\ q.at = "import" /\ q # NoPatch /\ s \in DbRow /\ p \in DbRow
      /\ q.snapshot.opt \in Opts /\ q.snapshot.items \in SUBSET Item
  BY DatabaseParts DEF DatabaseInv, SwitchImports, Switching, NoPatch
<1>2. CASE patch' = NoPatch /\ UNCHANGED <<db, dropped>>
  BY <1>1, <1>2, PatchEnds DEF SwitchImports
<1>3. CASE ~(patch' = NoPatch /\ UNCHANGED <<db, dropped>>)
  <2> PICK its : its = q.snapshot.items \cup {i \in p.items : i.kind # "config"}
    OBVIOUS
  <2> PICK row : row = [rows |-> TRUE, url |-> "pg", opt |-> q.snapshot.opt, items |-> its]
    OBVIOUS
  <2>1. /\ db' = [db EXCEPT !["pg"] = row]
        /\ patch' = [q EXCEPT !.at = "override"]
        /\ dropped \subseteq dropped'
        /\ q.home # "pg" => dropped' = dropped
        /\ UNCHANGED <<app, writer, snapshotKept, items, late, foreign, cleared>>
    BY <1>3 DEF SwitchImports, Imported
  <2>2. row \in DbRow /\ row.url = "pg" /\ row.items = its
    BY <1>1 DEF DbRow, Urls
  <2>3. /\ db' \in [Databases -> DbRow] /\ db'["sqlite"] = s /\ db'["pg"] = row
    BY <2>1, <2>2, RowWritten DEF DatabaseInv, Databases
  <2>4. /\ patch' \in Switching /\ patch'.at = "override" /\ patch'.home = q.home
        /\ patch'.snapshot = q.snapshot /\ patch' # NoPatch
    BY <1>1, <2>1 DEF Switching, NoPatch
  <2>5. DatabaseTyped'
    BY <2>1, <2>3, <2>4 DEF DatabaseInv, DatabaseTyped
  <2>6. Override' = Override
    BY <2>3 DEF Override
  <2>7. ~foreign => app.up /\ app.db = "sqlite" /\ Override = "sqlite" /\ q.home = "sqlite"
    BY <1>1 DEF DatabaseInv, UrlsFit
  <2>8. UrlsFit'
    BY <1>1, <2>1, <2>2, <2>3, <2>4, <2>6 DEF DatabaseInv, UrlsFit
  <2>9. ~foreign => ResolvedOpt' = ResolvedOpt
    BY <2>3, <2>6, <2>7 DEF ResolvedOpt
  <2>10. OptsFit'
    BY <1>1, <2>1, <2>4, <2>9 DEF DatabaseInv, OptsFit
  <2>11. SnapshotFits'
    BY <1>1, <2>1, <2>2, <2>3, <2>4 DEF DatabaseInv, SnapshotFits
  <2>12. NothingLostUnexplained'
    <3> SUFFICES ASSUME ~foreign, NEW i \in (s.items \cup row.items) \ (dropped \cup late)
                 PROVE  i \in s.items
      BY <2>1, <2>3, <2>6, <2>7 DEF NothingLostUnexplained
    <3>1. q.snapshot.items \subseteq s.items
      BY <1>1 DEF DatabaseInv, SnapshotFits
    <3>2. i \in p.items => i \in s.items
      BY <2>7 DEF DatabaseInv, NothingLostUnexplained
    <3> QED BY <2>2, <3>1, <3>2
  <2> QED BY <2>5, <2>8, <2>10, <2>11, <2>12 DEF DatabaseInv
<1> QED BY <1>2, <1>3

LEMMA SwitchOverridesStep ==
  ASSUME DatabaseInv, SwitchOverrides PROVE DatabaseInv'
<1> PICK q : q = patch
  OBVIOUS
<1> PICK s : s = db["sqlite"]
  OBVIOUS
<1> PICK p : p = db["pg"]
  OBVIOUS
<1>1. /\ q \in Switching /\ q.at = "override" /\ q # NoPatch /\ s \in DbRow /\ p \in DbRow
  BY DatabaseParts DEF DatabaseInv, SwitchOverrides, Switching, NoPatch
<1>2. CASE patch' = NoPatch /\ UNCHANGED db
  BY <1>1, <1>2, PatchEnds DEF SwitchOverrides
<1>3. CASE /\ db' = [db EXCEPT !["sqlite"].url = "pg", !["sqlite"].rows = TRUE]
           /\ patch' = [patch EXCEPT !.at = "swap"]
  <2> PICK row : row = [s EXCEPT !.url = "pg", !.rows = TRUE]
    OBVIOUS
  <2>1. row \in DbRow /\ row.url = "pg" /\ row.items = s.items /\ row.opt = s.opt
    BY <1>1 DEF DbRow, Urls
  <2>2. db' = [db EXCEPT !["sqlite"] = row]
    <3>1. db \in [Databases -> DbRow] /\ "sqlite" \in Databases
      BY DEF DatabaseInv, DatabaseTyped, Databases
    <3>2. ASSUME NEW e \in Databases PROVE db'[e] = IF e = "sqlite" THEN row ELSE db[e]
      BY <1>3, <3>1
    <3>3. db' = [e \in Databases |-> IF e = "sqlite" THEN row ELSE db[e]]
      BY <1>3, <3>1, <3>2
    <3> QED BY <3>1, <3>3
  <2>3. /\ db' \in [Databases -> DbRow] /\ db'["sqlite"] = row /\ db'["pg"] = p
    BY <2>1, <2>2, RowWritten DEF DatabaseInv, Databases
  <2>4. /\ patch' \in Switching /\ patch'.at = "swap" /\ patch'.home = q.home
        /\ patch'.snapshot = q.snapshot /\ patch' # NoPatch
    BY <1>1, <1>3 DEF Switching, NoPatch
  <2>5. UNCHANGED <<app, writer, snapshotKept, items, late, dropped, foreign, cleared>>
    BY DEF SwitchOverrides
  <2>6. DatabaseTyped'
    BY <2>3, <2>4, <2>5 DEF DatabaseInv, DatabaseTyped
  <2>7. Override' = "pg"
    BY <2>1, <2>3 DEF Override, Overlay
  <2>8. ~foreign => app.up /\ app.db = "sqlite" /\ Override = "sqlite" /\ q.home = "sqlite"
    BY <1>1 DEF DatabaseInv, UrlsFit
  <2>9. UrlsFit'
    BY <1>1, <2>3, <2>4, <2>5, <2>7 DEF DatabaseInv, UrlsFit
  <2>10. OptsFit'
    <3>1. ~foreign => ResolvedOpt = Overlay("env", s.opt)
      BY <2>8 DEF ResolvedOpt
    <3> QED BY <1>1, <2>1, <2>3, <2>4, <2>5, <3>1 DEF DatabaseInv, OptsFit
  <2>11. SnapshotFits'
    BY <1>1, <2>1, <2>3, <2>4, <2>5 DEF DatabaseInv, SnapshotFits
  <2>12. NothingLostUnexplained'
    <3> SUFFICES ASSUME ~foreign, NEW i \in (s.items \cup p.items) \ (dropped \cup late)
                 PROVE  i \in p.items \/ (i.kind = "queue" /\ i \in s.items)
      BY <2>1, <2>3, <2>5, <2>7 DEF NothingLostUnexplained
    <3>1. q.snapshot.items \subseteq p.items
          /\ \A x \in s.items : x.kind = "config" => x \in q.snapshot.items \cup late \cup dropped
      BY <1>1 DEF DatabaseInv, SnapshotFits
    <3>2. \A x \in s.items : x.kind \in {"config", "queue"}
      BY <1>1 DEF DbRow, Item
    <3> QED BY <3>1, <3>2
  <2> QED BY <2>6, <2>9, <2>10, <2>11, <2>12 DEF DatabaseInv
<1> QED BY <1>2, <1>3 DEF SwitchOverrides

LEMMA SwitchSwapsStep ==
  ASSUME DatabaseInv, SwitchSwaps PROVE DatabaseInv'
<1> PICK a : a = app
  OBVIOUS
<1> PICK s : s = db["sqlite"]
  OBVIOUS
<1> PICK p : p = db["pg"]
  OBVIOUS
<1>1. /\ patch.at = "swap" /\ patch # NoPatch /\ s \in DbRow /\ p \in DbRow /\ a \in Running
      /\ patch' = NoPatch /\ patch'.at = "idle"
      /\ UNCHANGED <<db, writer, snapshotKept, items, late, dropped, foreign, cleared>>
  BY DatabaseParts DEF DatabaseInv, DatabaseTyped, SwitchSwaps, NoPatch
<1>2. /\ app' \in Running /\ app'.up = a.up /\ app'.db = "pg"
      /\ app'.url = Overlay(a.url, p.url) /\ app'.opt = Overlay(a.opt, p.opt)
  <2>a. PICK o : o = Overlay(a.opt, p.opt)
    OBVIOUS
  <2>b. PICK u : u = Overlay(a.url, p.url)
    OBVIOUS
  <2>c. PICK b : b = [a EXCEPT !.opt = o, !.url = u]
    OBVIOUS
  <2>1. app' = [b EXCEPT !.db = "pg"]
    BY <2>a, <2>b, <2>c DEF SwitchSwaps, Swapped, AppAfter
  <2>2. o \in {"env", "a"} /\ u \in Databases
    BY <1>1, <2>a, <2>b DEF Overlay, Running, DbRow, Urls, Opts, Databases
  <2>3. b \in Running /\ b.up = a.up /\ b.opt = o /\ b.url = u
    BY <1>1, <2>2, <2>c DEF Running
  <2>4. app' \in Running /\ app'.up = b.up /\ app'.db = "pg" /\ app'.url = b.url /\ app'.opt = b.opt
    BY <2>1, <2>3 DEF Running, Databases
  <2> QED BY <2>3, <2>4, <2>a, <2>b
<1>3. DatabaseTyped'
  BY <1>1, <1>2 DEF DatabaseInv, DatabaseTyped
<1>4. Override' = Override /\ ResolvedOpt' = ResolvedOpt
  BY <1>1 DEF Override, ResolvedOpt
<1>5. ~foreign => Override = "pg" /\ a.up
  BY <1>1 DEF DatabaseInv, UrlsFit
<1>6. ~foreign => p.url = "pg" /\ app'.url = "pg"
  <2>1. ~foreign => p.url = "pg"
    BY <1>1 DEF DatabaseInv, UrlsFit
  <2> QED BY <1>2, <2>1 DEF Overlay
<1>7. UrlsFit'
  BY <1>1, <1>2, <1>4, <1>5, <1>6 DEF UrlsFit
<1>8. OptsFit'
  <2> SUFFICES ASSUME ~foreign, ~cleared PROVE app'.opt = ResolvedOpt
    BY <1>1, <1>4 DEF OptsFit
  <2>1. a.opt = Overlay("env", s.opt)
    BY <1>1, <1>5 DEF DatabaseInv, OptsFit
  <2>2. ResolvedOpt = Overlay(Overlay("env", s.opt), p.opt)
    BY <1>5 DEF ResolvedOpt
  <2> QED BY <1>2, <2>1, <2>2
<1>9. SnapshotFits'
  BY <1>1 DEF SnapshotFits
<1>10. NothingLostUnexplained'
  BY <1>1, <1>4 DEF DatabaseInv, NothingLostUnexplained
<1> QED BY <1>3, <1>7, <1>8, <1>9, <1>10 DEF DatabaseInv

-----------------------------------------------------------------------------
\* Snapshots, writers and the process.

LEMMA TakeSnapshotStep ==
  ASSUME DatabaseInv, NEW secrets \in BOOLEAN, TakeSnapshot(secrets) PROVE DatabaseInv'
<1> PICK row : row = db[app.db]
  OBVIOUS
<1> PICK u : u = IF secrets THEN row.url ELSE "none"
  OBVIOUS
<1> PICK its : its = {i \in row.items : i.kind = "config"}
  OBVIOUS
<1>1. row \in DbRow
  BY DEF DatabaseInv, DatabaseTyped, Running
<1>2. [opt |-> row.opt, url |-> u, items |-> its] \in Kept
  BY <1>1 DEF DbRow, Kept, Urls
<1>3. snapshotKept' = {[opt |-> row.opt, url |-> u, items |-> its]}
      /\ UNCHANGED <<db, app, patch, writer, items, late, dropped, foreign, cleared>>
  BY DEF TakeSnapshot
<1>4. DatabaseTyped'
  BY <1>2, <1>3 DEF DatabaseInv, DatabaseTyped
<1>5. Override' = Override /\ ResolvedOpt' = ResolvedOpt
  BY <1>3 DEF Override, ResolvedOpt
<1>6. UrlsFit' /\ OptsFit'
  BY <1>3, <1>5 DEF DatabaseInv, UrlsFit, OptsFit
<1>7. SnapshotFits' /\ NothingLostUnexplained'
  BY <1>3, <1>5 DEF DatabaseInv, SnapshotFits, NothingLostUnexplained
<1> QED BY <1>4, <1>6, <1>7 DEF DatabaseInv

LEMMA WriterOpensStep ==
  ASSUME DatabaseInv, NEW w \in Writers, NEW d \in Databases, WriterOpens(w, d) PROVE DatabaseInv'
<1>1. UNCHANGED <<db, app, patch, snapshotKept, items, late, dropped, foreign, cleared>>
      /\ writer' = [writer EXCEPT ![w] = [in |-> d]]
  BY DEF WriterOpens
<1>2. DatabaseTyped'
  BY <1>1 DEF DatabaseInv, DatabaseTyped
<1>3. Override' = Override /\ ResolvedOpt' = ResolvedOpt
  BY <1>1 DEF Override, ResolvedOpt
<1>4. UrlsFit' /\ OptsFit'
  BY <1>1, <1>3 DEF DatabaseInv, UrlsFit, OptsFit
<1>5. SnapshotFits' /\ NothingLostUnexplained'
  BY <1>1, <1>3 DEF DatabaseInv, SnapshotFits, NothingLostUnexplained
<1> QED BY <1>2, <1>4, <1>5 DEF DatabaseInv

LEMMA WriterCommitsStep ==
  ASSUME DatabaseInv, NEW w \in Writers, NEW kind \in {"config", "queue"}, NEW unit \in BOOLEAN,
         WriterCommits(w, kind, unit)
  PROVE  DatabaseInv'
<1> PICK d : d = writer[w].in
  OBVIOUS
<1> PICK s : s = db["sqlite"]
  OBVIOUS
<1> PICK p : p = db["pg"]
  OBVIOUS
<1> PICK item : item = [kind |-> kind, id |-> items + 1]
  OBVIOUS
<1>1. /\ d \in Databases /\ item \in Item /\ item.kind = kind /\ s \in DbRow /\ p \in DbRow /\ items \in Nat
  <2>1. d \in Databases /\ items \in Nat
    BY DEF DatabaseInv, DatabaseTyped, WriterCommits
  <2>2. item \in Item
    BY <2>1 DEF Item
  <2> QED BY <2>1, <2>2, DatabaseParts DEF DatabaseInv
<1> PICK its : its = db[d].items \cup {item}
  OBVIOUS
<1> PICK row : row = [db[d] EXCEPT !.items = its]
  OBVIOUS
<1>2. /\ db' = [db EXCEPT ![d] = row] /\ items' = items + 1
      /\ late' = IF patch # NoPatch \/ d # Override THEN late \cup {item} ELSE late
      /\ writer' = [writer EXCEPT ![w] = NoWriter]
      /\ UNCHANGED <<app, patch, snapshotKept, dropped, foreign, cleared>>
  BY DEF WriterCommits
<1>3. row \in DbRow /\ row.items = its /\ row.url = db[d].url /\ row.opt = db[d].opt
  BY <1>1 DEF DbRow, Databases
<1>4. /\ db' \in [Databases -> DbRow]
      /\ db'["sqlite"] = IF d = "sqlite" THEN row ELSE s
      /\ db'["pg"] = IF d = "pg" THEN row ELSE p
  BY <1>1, <1>2, <1>3, RowWritten DEF DatabaseInv, Databases
<1>5. /\ db'["sqlite"].url = s.url /\ db'["pg"].url = p.url
      /\ db'["sqlite"].opt = s.opt /\ db'["pg"].opt = p.opt
      /\ db'["sqlite"].items = IF d = "sqlite" THEN s.items \cup {item} ELSE s.items
      /\ db'["pg"].items = IF d = "pg" THEN p.items \cup {item} ELSE p.items
  BY <1>1, <1>3, <1>4 DEF Databases
<1>6. DatabaseTyped'
  <2>1. writer' \in [Writers -> [in : Databases \cup {"none"}]] /\ items' \in Nat
    BY <1>1, <1>2 DEF DatabaseInv, DatabaseTyped, NoWriter
  <2> QED BY <1>2, <1>4, <2>1 DEF DatabaseInv, DatabaseTyped
<1>7. Override' = Override /\ ResolvedOpt' = ResolvedOpt
  BY <1>5 DEF Override, ResolvedOpt
<1>8. UrlsFit' /\ OptsFit'
  BY <1>2, <1>5, <1>7 DEF DatabaseInv, UrlsFit, OptsFit
<1>9. late \subseteq late'
  BY <1>2
<1>10. SnapshotFits'
  <2>1. patch # NoPatch => item \in late'
    BY <1>2
  <2> QED BY <1>2, <1>5, <1>9, <2>1, SMTT(20) DEF DatabaseInv, SnapshotFits
<1>11. NothingLostUnexplained'
  <2> SUFFICES ASSUME ~foreign,
                      NEW i \in (db'["sqlite"].items \cup db'["pg"].items) \ (dropped \cup late')
               PROVE  i \in db'[Override].items \/ (i.kind = "queue" /\ i \in db'["sqlite"].items)
    BY <1>2, <1>7 DEF NothingLostUnexplained
  <2>1. Override \in Databases
    BY DatabaseParts DEF DatabaseInv
  <2>2. db[Override].items \subseteq db'[Override].items
    BY <1>5, <2>1 DEF Databases
  <2>3. CASE i \in s.items \cup p.items
    BY <1>5, <1>9, <2>2, <2>3 DEF DatabaseInv, NothingLostUnexplained
  <2>4. CASE i \notin s.items \cup p.items
    <3>1. i = item /\ i \notin late'
      BY <1>5, <2>4
    <3>2. d = Override
      BY <1>2, <3>1
    <3> QED BY <1>1, <1>5, <3>1, <3>2 DEF Databases
  <2> QED BY <2>3, <2>4
<1> QED BY <1>6, <1>8, <1>10, <1>11 DEF DatabaseInv

LEMMA ApiEndsStep == DatabaseInv /\ ApiEnds => DatabaseInv'
<1> SUFFICES ASSUME DatabaseInv, ApiEnds PROVE DatabaseInv'
  OBVIOUS
<1>1. /\ app' = [app EXCEPT !.up = FALSE] /\ patch' = NoPatch /\ patch'.at = "idle"
      /\ writer' = [w \in Writers |-> NoWriter]
      /\ UNCHANGED <<db, snapshotKept, items, late, dropped, foreign, cleared>>
  BY DEF ApiEnds, NoPatch
<1>2. app' \in Running /\ ~app'.up
  BY <1>1 DEF DatabaseInv, DatabaseTyped, Running
<1>3. DatabaseTyped'
  <2>1. writer' \in [Writers -> [in : Databases \cup {"none"}]]
    BY <1>1 DEF NoWriter
  <2> QED BY <1>1, <1>2, <2>1 DEF DatabaseInv, DatabaseTyped
<1>4. Override' = Override
  BY <1>1 DEF Override
<1>5. UrlsFit' /\ OptsFit'
  BY <1>1, <1>2 DEF DatabaseInv, UrlsFit, OptsFit
<1>6. SnapshotFits' /\ NothingLostUnexplained'
  BY <1>1, <1>4 DEF DatabaseInv, SnapshotFits, NothingLostUnexplained
<1> QED BY <1>3, <1>5, <1>6 DEF DatabaseInv

LEMMA ApiBeginsStep == DatabaseInv /\ ApiBegins => DatabaseInv'
<1> SUFFICES ASSUME DatabaseInv, ApiBegins PROVE DatabaseInv'
  OBVIOUS
<1>1. /\ ~app.up /\ app' = [up |-> TRUE, db |-> Override, url |-> Override, opt |-> ResolvedOpt]
      /\ UNCHANGED <<db, patch, writer, snapshotKept, items, late, dropped, foreign>>
  BY DEF ApiBegins
<1>2. Override \in Databases /\ db["sqlite"] \in DbRow /\ db["pg"] \in DbRow
  BY DatabaseParts DEF DatabaseInv
<1>3. ResolvedOpt \in {"env", "a"}
  BY <1>2 DEF ResolvedOpt, Overlay, DbRow, Opts
<1>4. app' \in Running
  BY <1>1, <1>2, <1>3 DEF Running
<1>5. DatabaseTyped'
  BY <1>1, <1>4 DEF DatabaseInv, DatabaseTyped
<1>6. Override' = Override /\ ResolvedOpt' = ResolvedOpt
  BY <1>1 DEF Override, ResolvedOpt
<1>7. ~foreign => patch = NoPatch /\ patch.at # "swap"
  BY <1>1, DatabaseParts DEF DatabaseInv, UrlsFit
<1>8. UrlsFit' /\ OptsFit'
  BY <1>1, <1>6, <1>7 DEF DatabaseInv, UrlsFit, OptsFit
<1>9. SnapshotFits' /\ NothingLostUnexplained'
  BY <1>1, <1>6 DEF DatabaseInv, SnapshotFits, NothingLostUnexplained
<1> QED BY <1>5, <1>8, <1>9 DEF DatabaseInv

\* Rows, settings and switches are sound in every reachable state.
THEOREM DatabaseInvariant == DatabaseSpec => []DatabaseInv
<1>1. ASSUME DatabaseInv, UNCHANGED databaseVars PROVE DatabaseInv'
  <2>1. DatabaseTyped' /\ UrlsFit' /\ OptsFit'
    BY <1>1 DEF databaseVars, DatabaseInv, DatabaseTyped, UrlsFit, OptsFit, Override, ResolvedOpt
  <2>2. SnapshotFits' /\ NothingLostUnexplained'
    BY <1>1 DEF databaseVars, DatabaseInv, SnapshotFits, NothingLostUnexplained, Override
  <2> QED BY <2>1, <2>2 DEF DatabaseInv
<1>2. ASSUME DatabaseInv, DatabaseNext PROVE DatabaseInv'
  BY <1>2, PatchSettingsStep, RestoreSnapshotStep, SwitchBeginsStep, SwitchImportsStep,
    SwitchOverridesStep, SwitchSwapsStep, TakeSnapshotStep, WriterOpensStep, WriterCommitsStep,
    ApiEndsStep, ApiBeginsStep DEF DatabaseNext, Databases
<1> QED BY <1>1, <1>2, DatabaseInitHolds, PTL DEF DatabaseSpec

\* For any number of writers, items, switches and starts, a committed row is in the database
\* the next start takes or has one of the reasons named (apply_runtime_settings,
\* initialize_runtime_database_settings).
THEOREM NothingIsLost == DatabaseSpec => []NothingLostUnexplained
<1>1. DatabaseInv => NothingLostUnexplained
  BY DEF DatabaseInv
<1> QED BY <1>1, DatabaseInvariant, PTL

\* The API and the worker's tasks resolve one database and the same settings, but for the
\* exceptions named, over any sequence of patches, switches, restores and starts.
THEOREM ProcessesDoAgree == DatabaseSpec => []ProcessesAgree
<1>1. DatabaseInv => OneDatabase
  <2> SUFFICES ASSUME DatabaseInv, app.up, patch.at # "swap", ~foreign
               PROVE  Resolves /\ app.db = Override
    BY DEF OneDatabase
  <2>1. Override \in Databases /\ db["pg"].url \in {"none", "pg"} /\ app.db = Override
    BY DatabaseParts DEF DatabaseInv, UrlsFit
  <2> QED BY <2>1 DEF Resolves, Overlay, Databases
<1>2. DatabaseInv => SettingsAgree
  BY DEF DatabaseInv, OptsFit, SettingsAgree
<1> QED BY <1>1, <1>2, DatabaseInvariant, PTL DEF ProcessesAgree
\* Rows are numbered as they are committed, and snapshots hold rows there were.
Filings == Filed("config") \cup Filed("queue")
ItemsFiled ==
  /\ \A d \in Databases : db[d].items \subseteq Filings
  /\ patch # NoPatch => patch.snapshot.items \subseteq Filings
  /\ \A s \in snapshotKept : s.items \subseteq Filings

\* A write leaves the rows a database had, or those of a snapshot, and one new row at most.
LEMMA ItemsWritten ==
  ASSUME DatabaseTyped, ItemsFiled, NEW d \in Databases, NEW row,
         db' = [db EXCEPT ![d] = row], row.items \subseteq Filings,
         patch' # NoPatch => patch # NoPatch /\ patch'.snapshot = patch.snapshot,
         snapshotKept' = snapshotKept
  PROVE  ItemsFiled'
<1>1. \A e \in Databases : db'[e] = IF e = d THEN row ELSE db[e]
  BY DEF DatabaseTyped
<1> QED BY <1>1 DEF ItemsFiled, Filings, Filed

LEMMA ItemsRestored ==
  ASSUME DatabaseInv, ItemsFiled, NEW k \in snapshotKept, RestoreSnapshot(k) PROVE ItemsFiled'
<1> PICK a : a = app
  OBVIOUS
<1> PICK old : old = db[a.db]
  OBVIOUS
<1> PICK its : its = k.items \cup {i \in old.items : i.kind # "config"}
  OBVIOUS
<1> PICK row : row = [old EXCEPT !.opt = k.opt, !.url = k.url, !.items = its]
  OBVIOUS
<1>1. DatabaseTyped /\ app.db \in Databases /\ old \in DbRow /\ k.items \subseteq Filings
      /\ old.items \subseteq Filings
  BY DatabaseParts DEF DatabaseInv, DatabaseTyped, Running, ItemsFiled
<1>2. row = [db[app.db] EXCEPT !.opt = k.opt, !.url = k.url,
                               !.items = k.items \cup {i \in @ : i.kind # "config"}]
  OBVIOUS
<1>3. row.items = its /\ its \subseteq Filings
  BY <1>1 DEF DbRow
<1>4. db' = [db EXCEPT ![app.db] = row] /\ UNCHANGED <<patch, snapshotKept>>
  BY <1>2 DEF RestoreSnapshot
<1> QED BY <1>1, <1>3, <1>4, ItemsWritten

LEMMA ItemsFiledStep ==
  ASSUME DatabaseInv, ItemsFiled, [DatabaseNext]_databaseVars PROVE ItemsFiled'
<1>1. /\ DatabaseTyped /\ db["sqlite"] \in DbRow /\ db["pg"] \in DbRow /\ app.db \in Databases
      /\ \A d \in Databases : db[d] \in DbRow /\ db[d].items \subseteq Filings
      /\ patch # NoPatch => patch \in Switching /\ patch.snapshot.items \subseteq Filings
      /\ patch = NoPatch <=> patch.at = "idle"
      /\ items \in Nat
  BY DatabaseParts DEF DatabaseInv, DatabaseTyped, Running, Databases, ItemsFiled
<1>2. ASSUME UNCHANGED <<db, snapshotKept>>, patch' = NoPatch \/ patch' = patch PROVE ItemsFiled'
  BY <1>2 DEF ItemsFiled, Filings, Filed
<1>3. ASSUME NEW opt \in {"same", "none", "a"}, NEW url \in Urls, PatchSettings(opt, url)
      PROVE  ItemsFiled'
  <2>1. SettingsRow(app.db, opt, url).items = db[app.db].items
    BY <1>1 DEF SettingsRow, DbRow
  <2> QED BY <1>1, <1>3, <2>1, ItemsWritten DEF PatchSettings
<1>4. ASSUME NEW opt \in {"same", "none", "a"}, SwitchBegins(opt) PROVE ItemsFiled'
  <2>1. SettingsRow(app.db, opt, "none").items = db[app.db].items
    BY <1>1 DEF SettingsRow, DbRow
  <2>2. patch'.snapshot.items \subseteq Filings
    BY <1>1, <1>4, <2>1 DEF SwitchBegins
  <2> QED BY <1>4, <2>2 DEF SwitchBegins, ItemsFiled, Filings, Filed
<1>5. CASE SwitchImports
  <2> PICK row : row = [rows |-> TRUE, url |-> "pg", opt |-> patch.snapshot.opt,
                        items |-> Imported(db["pg"], patch.snapshot)]
    OBVIOUS
  <2>1. row.items \subseteq Filings
    BY <1>1, <1>5 DEF Imported, SwitchImports, Databases
  <2>2. CASE db' = [db EXCEPT !["pg"] = row] /\ patch' = [patch EXCEPT !.at = "override"]
    <3>1. patch # NoPatch /\ patch'.snapshot = patch.snapshot
      BY <1>1, <1>5, <2>2 DEF SwitchImports, Switching
    <3>2. snapshotKept' = snapshotKept /\ "pg" \in Databases
      BY <1>5 DEF SwitchImports, Databases
    <3> QED BY <1>1, <2>1, <2>2, <3>1, <3>2, ItemsWritten
  <2>3. CASE patch' = NoPatch /\ db' = db
    BY <1>2, <1>5, <2>3 DEF SwitchImports
  <2> QED BY <1>5, <2>2, <2>3 DEF SwitchImports
<1>6. CASE SwitchOverrides
  <2> PICK row : row = [db["sqlite"] EXCEPT !.url = "pg", !.rows = TRUE]
    OBVIOUS
  <2>1. row.items = db["sqlite"].items /\ row.items \subseteq Filings
    BY <1>1 DEF DbRow, Databases
  <2>2. CASE patch' = NoPatch /\ db' = db
    BY <1>2, <1>6, <2>2 DEF SwitchOverrides
  <2>3. CASE db' = [db EXCEPT !["sqlite"].url = "pg", !["sqlite"].rows = TRUE]
             /\ patch' = [patch EXCEPT !.at = "swap"]
    <3>1. patch # NoPatch /\ patch'.snapshot = patch.snapshot
      BY <1>1, <1>6, <2>3 DEF SwitchOverrides, Switching
    <3>2. db' = [db EXCEPT !["sqlite"] = row]
      BY <1>1, <2>3 DEF DatabaseTyped, Databases, DbRow
    <3>3. snapshotKept' = snapshotKept /\ "sqlite" \in Databases
      BY <1>6 DEF SwitchOverrides, Databases
    <3> QED BY <1>1, <2>1, <3>1, <3>2, <3>3, ItemsWritten
  <2> QED BY <1>6, <2>2, <2>3 DEF SwitchOverrides
<1>7. CASE SwitchSwaps
  BY <1>2, <1>7 DEF SwitchSwaps
<1>8. ASSUME NEW secrets \in BOOLEAN, TakeSnapshot(secrets) PROVE ItemsFiled'
  BY <1>1, <1>8 DEF TakeSnapshot, ItemsFiled, Filings, Filed
<1>9. ASSUME NEW k \in snapshotKept, RestoreSnapshot(k) PROVE ItemsFiled'
  BY <1>9, ItemsRestored
<1>10. ASSUME NEW w \in Writers, NEW d, WriterOpens(w, d) PROVE ItemsFiled'
  BY <1>2, <1>10 DEF WriterOpens
<1>11. ASSUME NEW w \in Writers, NEW k \in {"config", "queue"}, NEW unit \in BOOLEAN,
              WriterCommits(w, k, unit)
       PROVE  ItemsFiled'
  <2> PICK d : d = writer[w].in
    OBVIOUS
  <2> PICK item : item = [kind |-> k, id |-> items + 1]
    OBVIOUS
  <2> PICK row : row = [db[d] EXCEPT !.items = @ \cup {item}]
    OBVIOUS
  <2>1. d \in Databases /\ items < MaxItems
    BY <1>1, <1>11 DEF WriterCommits, DatabaseTyped
  <2>2. item \in Filings
    <3>1. items + 1 \in 1..MaxItems
      BY <1>1, <2>1, DatabaseAssumption
    <3> QED BY <3>1 DEF Filings, Filed
  <2>3. row.items = db[d].items \cup {item}
    BY <1>1, <2>1 DEF DbRow
  <2>4. row.items \subseteq Filings
    BY <1>1, <2>1, <2>2, <2>3
  <2>5. db' = [db EXCEPT ![d] = row] /\ UNCHANGED <<patch, snapshotKept>>
    BY <1>11 DEF WriterCommits
  <2> QED BY <1>1, <2>1, <2>4, <2>5, ItemsWritten
<1>12. CASE ApiEnds \/ ApiBegins
  BY <1>2, <1>12 DEF ApiEnds, ApiBegins
<1>13. CASE UNCHANGED databaseVars
  BY <1>2, <1>13 DEF databaseVars
<1> QED
  BY <1>3, <1>4, <1>5, <1>6, <1>7, <1>8, <1>9, <1>10, <1>11, <1>12, <1>13 DEF DatabaseNext

\* Rows, settings and switches are of the kinds the code writes, for any number of writers,
\* whatever snapshots, imports and restores copy between the databases.
THEOREM DatabaseTypeCorrect == DatabaseSpec => []DatabaseTypeOK
<1>1. DatabaseInit => ItemsFiled
  BY DEF DatabaseInit, ItemsFiled, Databases
<1>2. DatabaseInv /\ ItemsFiled => DatabaseTypeOK
  <2> SUFFICES ASSUME DatabaseInv, ItemsFiled PROVE DatabaseTypeOK
    OBVIOUS
  <2>1. /\ DOMAIN db = Databases /\ \A d \in Databases : db[d] \in DbRow
        /\ app \in Running
    BY DEF DatabaseInv, DatabaseTyped
  <2>2. patch.at \in {"idle", "import", "override", "swap"}
    BY DEF DatabaseInv, DatabaseTyped, NoPatch, Switching
  <2> QED BY <2>1, <2>2 DEF DatabaseTypeOK, ItemsFiled, Filings, DbRow, Opts, Running, Databases
<1> QED BY <1>1, <1>2, DatabaseInvariant, ItemsFiledStep, PTL DEF DatabaseSpec
-----------------------------------------------------------------------------
(* The services side by side.                                               *)

(***************************************************************************)
(* Explored side by side, each service behaves as its own specification    *)
(* says: what is proved of a service holds of it among the others.         *)
(***************************************************************************)
THEOREM AdministrationKeepsTheirSpecs ==
  AdministrationSpec => /\ OpsSpec /\ RestoreSpec /\ BackupsSpec /\ AdminSpec /\ AccessSpec
                        /\ AnalyticsSpec /\ EgressSpec /\ DatabaseSpec /\ McpSpec
<1>1. AdministrationInit => /\ OpsInit /\ RestoreInit /\ BackupsInit /\ AdminInit /\ AccessInit
                            /\ AnalyticsInit /\ EgressInit /\ DatabaseInit /\ McpInit
  BY DEF AdministrationInit
<1>2. ASSUME [AdministrationNext]_administrationVars
      PROVE  /\ [OpsNext]_opsVars /\ [RestoreNext]_restoreVars /\ [BackupsNext]_backupsVars
             /\ [AdminNext]_adminVars /\ [AccessNext]_accessVars /\ [AnalyticsNext]_analyticsVars
             /\ [EgressNext]_egressVars /\ [DatabaseNext]_databaseVars /\ [McpNext]_mcpVars
  <2>1. CASE AdministrationNext
    BY <2>1 DEF AdministrationNext
  <2>2. CASE UNCHANGED administrationVars
    BY <2>2 DEF administrationVars
  <2> QED BY <1>2, <2>1, <2>2
<1> QED
  BY <1>1, <1>2, PTL
  DEF AdministrationSpec, OpsSpec, RestoreSpec, BackupsSpec, AdminSpec, AccessSpec, AnalyticsSpec,
      EgressSpec, DatabaseSpec, McpSpec

\* The tables, rows, sessions and runs of these services keep their types, whichever of them runs.
THEOREM AdministrationTypeCorrect == AdministrationSpec => []AdministrationTypeOK
<1>1. /\ OpsTypeOK /\ CatalogTypeOK /\ BackupsTypeOK /\ AdminTypeOK /\ AccessTypeOK /\ AnalyticsTypeOK
      /\ EgressTypeOK /\ DatabaseTypeOK /\ McpTypeOK
      => AdministrationTypeOK
  BY DEF AdministrationTypeOK
<1> QED
  BY <1>1, AdministrationKeepsTheirSpecs, OpsTypeCorrect, CatalogTypeCorrect, BackupsTypeCorrect,
     AdminTypeCorrect, AccessTypeCorrect, AnalyticsTypeCorrect, EgressTypeCorrect,
     DatabaseTypeCorrect, McpTypeCorrect, PTL

=============================================================================
