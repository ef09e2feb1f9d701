----------------------------- MODULE AccessProofs -----------------------------
(***************************************************************************)
(* What those who get in may count on, for any number of browsers,         *)
(* requests, tokens and calls: how sessions and passkeys of the            *)
(* administrator end, what the middlewares let a token do, and what the    *)
(* tools of the MCP server change.                                         *)
(***************************************************************************)
EXTENDS AdminAuth, ApiAccess, McpTools, SequenceTheorems, FiniteSetTheorems, TLAPS

-----------------------------------------------------------------------------
(* Sign-in of the administrator.                                            *)

PasskeyRow == [id : Passkeys, host : RpHosts, count : Nat]
AdminRecord == [user : AdminNames, password : Passwords, version : Nat, secret : Nat,
                passkeys : SUBSET PasskeyRow, rotation : Nat]
AdminCookie == [user : AdminNames, version : Nat, secret : Nat, until : Nat, rotation : Nat]
Answer == [id : 1..MaxCeremonies, kind : {"register", "authenticate"}, host : RpHosts,
           key : Passkeys, count : Nat]

\* A secret is as old as the record it came with; under one secret a later change of
\* credentials has a higher version.
SessionsSound ==
  /\ adminFile \in {NoRecord} \cup AdminRecord
  /\ adminCookie \in [Browsers -> {NoCookie} \cup AdminCookie]
  /\ hour \in Nat /\ rotations \in Nat
  /\ Configured => adminFile.secret <= rotations
  /\ \A b \in Browsers : adminCookie[b] # NoCookie =>
       /\ adminCookie[b].secret <= rotations
       /\ Configured /\ adminCookie[b].secret = adminFile.secret =>
            /\ adminCookie[b].version <= adminFile.version
            /\ adminCookie[b].version = adminFile.version
                 => adminCookie[b].rotation = adminFile.rotation

\* A challenge that let somebody through is gone from the store, and no later one has its id.
ChallengesSound ==
  /\ IsFiniteSet(ceremonies) /\ Cardinality(ceremonies) <= MaxCeremonies
  /\ \A c \in ceremonies : c.id \in 1..Cardinality(ceremonies) /\ c.host \in RpHosts
                             /\ c.kind \in {"register", "authenticate"}
  /\ \A c \in challenges : c.id \in 1..Cardinality(ceremonies)
  /\ answers \subseteq Answer
  /\ \A a \in answers : a.id <= Cardinality(ceremonies)
  /\ served \in [1..MaxCeremonies -> 0..1]
  /\ \A i \in 1..MaxCeremonies : served[i] = 1 =>
       i <= Cardinality(ceremonies) /\ \A c \in challenges : c.id # i

\* The registration that brought a passkey has been used.
Registered(k) == \E a \in answers : a.kind = "register" /\ a.key = k /\ served[a.id] = 1

\* An authenticator signs one registration for a passkey, and answers a challenge once.
AnswersSound ==
  /\ signs \in [Passkeys -> [host : RpHosts \cup {"none"}, count : Nat]]
  /\ \A a \in answers : signs[a.key].host = a.host
  /\ \A a, b \in answers : a.id = b.id => a = b
  /\ \A a, b \in answers :
       a.kind = "register" /\ b.kind = "register" /\ a.key = b.key => a = b

\* A passkey on file came by its one registration, as did those that were deleted.
PasskeysSound ==
  /\ \A k \in removed : Registered(k)
  /\ Configured =>
       /\ \A p \in adminFile.passkeys :
            Registered(p.id) /\ p.host = signs[p.id].host /\ p.id \notin removed
       /\ \A p, q \in adminFile.passkeys : p.id = q.id => p = q

AdminInv == SessionsSound /\ ChallengesSound /\ AnswersSound /\ PasskeysSound

LEMMA AdminMarkers == /\ NoRecord \notin AdminRecord /\ NoCookie \notin AdminCookie
<1>1. NoRecord \notin AdminRecord
  BY DEF NoRecord, AdminRecord
<1>2. NoCookie \notin AdminCookie
  BY DEF NoCookie, AdminCookie
<1> QED BY <1>1, <1>2

LEMMA AdminInvInit == AdminInit => AdminInv
<1> SUFFICES ASSUME AdminInit PROVE AdminInv
  OBVIOUS
<1>1. SessionsSound
  BY DEF AdminInit, SessionsSound, Configured
<1>2. ChallengesSound
  <2>1. IsFiniteSet(ceremonies) /\ Cardinality(ceremonies) = 0
    BY FS_EmptySet DEF AdminInit
  <2>2. \A i \in 1..MaxCeremonies : served[i] = 0
    BY DEF AdminInit
  <2> QED BY <2>1, <2>2, AdminAssumption DEF AdminInit, ChallengesSound
<1>3. AnswersSound
  BY DEF AdminInit, AnswersSound
<1>4. PasskeysSound
  BY DEF AdminInit, PasskeysSound, Configured
<1> QED BY <1>1, <1>2, <1>3, <1>4 DEF AdminInv

-----------------------------------------------------------------------------
\* Sessions.

\* A cookie handed out under the record of now is that record's.
LEMMA HandedCookieIsSound ==
  ASSUME SessionsSound, NEW b \in Browsers, NEW r \in AdminRecord,
         adminFile' = r, HandsCookie(b, r), hour' = hour,
         rotations' \in Nat, rotations <= rotations', r.secret <= rotations',
         \/ r.secret > rotations
         \/ Configured /\ r = adminFile
         \/ Configured /\ r.secret = adminFile.secret /\ r.version = adminFile.version + 1
  PROVE  SessionsSound'
<1> USE DEF Configured
<1>1. SessionToken(r) \in AdminCookie /\ SessionToken(r).secret = r.secret
      /\ SessionToken(r).version = r.version /\ SessionToken(r).rotation = r.rotation
  BY AdminAssumption DEF SessionToken, AdminCookie, AdminRecord, SessionsSound
<1>2. adminCookie' \in [Browsers -> {NoCookie} \cup AdminCookie]
      /\ \A x \in Browsers : adminCookie'[x] = IF x = b THEN SessionToken(r) ELSE adminCookie[x]
  BY <1>1 DEF HandsCookie, SessionsSound
<1>3. ASSUME NEW x \in Browsers, adminCookie'[x] # NoCookie
      PROVE  /\ adminCookie'[x].secret <= rotations'
             /\ adminCookie'[x].secret = r.secret =>
                  /\ adminCookie'[x].version <= r.version
                  /\ adminCookie'[x].version = r.version => adminCookie'[x].rotation = r.rotation
  <2>0. r.version \in Nat /\ r.secret \in Nat
    BY DEF AdminRecord
  <2>1. CASE x = b
    BY <1>1, <1>2, <2>0, <2>1
  <2>2. CASE x # b
    <3>1. adminCookie'[x] = adminCookie[x] /\ adminCookie[x] \in AdminCookie
      BY <1>2, <1>3, <2>2 DEF SessionsSound
    <3>2. adminCookie[x].secret \in Nat /\ adminCookie[x].version \in Nat
      BY <3>1 DEF AdminCookie
    <3>3. /\ adminCookie[x].secret <= rotations
          /\ Configured /\ adminCookie[x].secret = adminFile.secret =>
            /\ adminCookie[x].version <= adminFile.version
            /\ adminCookie[x].version = adminFile.version
                 => adminCookie[x].rotation = adminFile.rotation
      BY <1>3, <3>1 DEF SessionsSound
    <3>4. rotations \in Nat /\ (Configured => adminFile.version \in Nat /\ adminFile.secret \in Nat)
      BY DEF SessionsSound, AdminRecord
    <3> QED BY <2>0, <3>1, <3>2, <3>3, <3>4
  <2> QED BY <2>1, <2>2
<1> QED BY <1>2, <1>3 DEF SessionsSound

\* The file keeps its sessions when only its passkeys change.
LEMMA SessionsKept ==
  ASSUME SessionsSound, Configured, NEW ps \in SUBSET PasskeyRow,
         adminFile' = [adminFile EXCEPT !.passkeys = ps],
         UNCHANGED <<adminCookie, hour, rotations>>
  PROVE  SessionsSound'
<1> PICK f : f = adminFile
  OBVIOUS
<1>1. f \in AdminRecord
  BY DEF SessionsSound, Configured
<1>2. adminFile' \in AdminRecord /\ adminFile'.secret = f.secret /\ adminFile'.version = f.version
      /\ adminFile'.rotation = f.rotation
  BY <1>1 DEF AdminRecord
<1> QED BY <1>1, <1>2 DEF SessionsSound, Configured

LEMMA SessionsStep == AdminInv /\ AdminNext => SessionsSound'
<1> SUFFICES ASSUME AdminInv, AdminNext PROVE SessionsSound'
  OBVIOUS
<1>0. SessionsSound
  BY DEF AdminInv
<1>1. ASSUME NEW b \in Browsers, NEW name \in AdminNames, NEW password \in Passwords,
             Login(b, name, password)
      PROVE  SessionsSound'
  <2>1. Configured /\ adminFile \in AdminRecord /\ adminFile.secret <= rotations /\ rotations \in Nat
    BY <1>0, <1>1 DEF SessionsSound, Configured, Login, LoginGranted
  <2> PICK f : f = adminFile
    OBVIOUS
  <2> QED BY <1>0, <1>1, <2>1, HandedCookieIsSound DEF Login
<1>2. ASSUME NEW b \in Browsers, NEW name \in AdminNames, NEW password \in Passwords,
             BootstrapRotate(b, name, password)
      PROVE  SessionsSound'
  <2> PICK r : r = NewRecord(name, password)
    OBVIOUS
  <2>1. r \in AdminRecord /\ r.secret = rotations + 1 /\ rotations \in Nat
    BY <1>0 DEF NewRecord, AdminRecord, SessionsSound
  <2>2. adminFile' = r /\ HandsCookie(b, r) /\ rotations' = rotations + 1 /\ hour' = hour
    BY <1>2 DEF BootstrapRotate, WriteRecord
  <2>3. rotations' \in Nat /\ rotations <= rotations' /\ r.secret <= rotations' /\ r.secret > rotations
    BY <2>1, <2>2
  <2> QED BY <1>0, <2>1, <2>2, <2>3, HandedCookieIsSound
<1>3. ASSUME NEW b \in Browsers, NEW name \in AdminNames, NEW password \in Passwords,
             NEW current \in Passwords, ChangeCredentials(b, current, name, password)
      PROVE  SessionsSound'
  <2> PICK r : r = Renewed(name, password)
    OBVIOUS
  <2>0. Configured
    BY <1>3 DEF ChangeCredentials, Live
  <2> PICK f : f = adminFile
    OBVIOUS
  <2>1. f \in AdminRecord /\ f.secret <= rotations /\ rotations \in Nat
    BY <1>0, <2>0 DEF SessionsSound, Configured
  <2>4. r \in AdminRecord /\ r.secret = f.secret /\ r.version = f.version + 1
    <3>1. r = [f EXCEPT !.user = name, !.password = password, !.version = f.version + 1,
                        !.rotation = rotations + 1]
      BY DEF Renewed
    <3>2. f.version + 1 \in Nat /\ rotations + 1 \in Nat
      BY <2>1 DEF AdminRecord
    <3> PICK v \in Nat, n \in Nat : v = f.version + 1 /\ n = rotations + 1
      BY <3>2
    <3>3. r = [f EXCEPT !.user = name, !.password = password, !.version = v, !.rotation = n]
      BY <3>1
    <3>4. /\ r.version = v /\ r.secret = f.secret /\ r \in AdminRecord
      BY <2>1, <3>3 DEF AdminRecord
    <3> QED BY <3>4
  <2>2. adminFile' = r /\ HandsCookie(b, r) /\ rotations' = rotations + 1 /\ hour' = hour
    BY <1>3 DEF ChangeCredentials, WriteRecord
  <2>5. f.secret \in Nat
    BY <2>1 DEF AdminRecord
  <2>3. rotations' \in Nat /\ rotations <= rotations' /\ r.secret <= rotations'
    BY <2>1, <2>2, <2>4, <2>5
  <2> QED BY <1>0, <2>0, <2>1, <2>2, <2>3, <2>4, HandedCookieIsSound
<1>4. ASSUME NEW b \in Browsers, Logout(b) PROVE SessionsSound'
  <2>1. \A x \in Browsers : adminCookie'[x] \in {NoCookie, adminCookie[x]}
        /\ adminCookie' \in [Browsers -> {NoCookie} \cup AdminCookie]
    BY <1>0, <1>4 DEF Logout, SessionsSound
  <2>2. UNCHANGED <<adminFile, hour, rotations>>
    BY <1>4 DEF Logout
  <2> QED BY <1>0, <2>1, <2>2 DEF SessionsSound, Configured
<1>5. ASSUME UNCHANGED <<adminFile, adminCookie, hour, rotations>> PROVE SessionsSound'
  BY <1>0, <1>5 DEF SessionsSound, Configured
<1>6. ASSUME NEW b \in Browsers, NEW host \in RpHosts, RegisterOptions(b, host) PROVE SessionsSound'
  BY <1>5, <1>6 DEF RegisterOptions
<1>7. ASSUME NEW b \in Browsers, NEW a \in answers, RegisterVerify(b, a) PROVE SessionsSound'
  <2>1. UNCHANGED <<adminCookie, hour, rotations>> /\ Configured
    BY <1>7 DEF RegisterVerify, Live
  <2>2. CASE UNCHANGED adminFile
    BY <1>5, <2>1, <2>2
  <2>3. CASE AddPasskey(a)
    <3> DEFINE ps == Other(a) \cup {[id |-> a.key, host |-> a.host, count |-> a.count]}
    <3>1. ps \in SUBSET PasskeyRow
      <4>1. adminFile \in AdminRecord
        BY <1>0, <2>1 DEF SessionsSound, Configured
      <4>2. Other(a) \subseteq PasskeyRow
        BY <4>1 DEF Other, AdminRecord
      <4>3. a \in Answer
        BY <1>7 DEF AdminInv, ChallengesSound
      <4> QED BY <4>2, <4>3 DEF Answer, PasskeyRow
    <3>2. adminFile' = [adminFile EXCEPT !.passkeys = ps]
      BY <2>3 DEF AddPasskey, WriteRecord
    <3> HIDE DEF ps
    <3> QED BY <1>0, <2>1, <3>1, <3>2, SessionsKept
  <2> QED BY <1>7, <2>2, <2>3 DEF RegisterVerify
<1>8. ASSUME NEW b \in Browsers, NEW a \in answers, AuthVerify(b, a) PROVE SessionsSound'
  <2>1. UNCHANGED <<hour, rotations>> /\ Configured
    BY <1>8 DEF AuthVerify
  <2>2. CASE UNCHANGED <<adminFile, adminCookie>>
    BY <1>5, <2>1, <2>2
  <2>3. CASE UpdateSignCount(a) /\ HandsCookie(b, adminFile)
    <3> DEFINE ps == Other(a) \cup {[id |-> a.key, host |-> a.host, count |-> a.count]}
    <3>4. adminFile \in AdminRecord /\ adminFile.secret <= rotations /\ rotations \in Nat /\ hour \in Nat
      BY <1>0, <2>1 DEF SessionsSound, Configured
    <3>1. ps \in SUBSET PasskeyRow
      <4>2. Other(a) \subseteq PasskeyRow
        BY <3>4 DEF Other, AdminRecord
      <4>3. a \in Answer
        BY <1>8 DEF AdminInv, ChallengesSound
      <4> QED BY <4>2, <4>3 DEF Answer, PasskeyRow
    <3>2. adminFile' = [adminFile EXCEPT !.passkeys = ps]
      BY <2>3 DEF UpdateSignCount, WriteRecord
    <3> HIDE DEF ps
    <3> PICK f : f = adminFile
      OBVIOUS
    <3>5. adminFile' \in AdminRecord /\ adminFile'.secret = f.secret
          /\ adminFile'.version = f.version /\ adminFile'.rotation = f.rotation
      BY <3>1, <3>2, <3>4 DEF AdminRecord
    <3>7. SessionToken(f) \in AdminCookie /\ SessionToken(f).secret = f.secret
          /\ SessionToken(f).version = f.version /\ SessionToken(f).rotation = f.rotation
      BY <3>4, AdminAssumption DEF SessionToken, AdminCookie, AdminRecord
    <3>8. adminCookie' \in [Browsers -> {NoCookie} \cup AdminCookie]
          /\ \A x \in Browsers : adminCookie'[x] = IF x = b THEN SessionToken(f) ELSE adminCookie[x]
      BY <1>0, <2>3, <3>7 DEF HandsCookie, SessionsSound
    <3>10. f.version \in Nat /\ f.secret \in Nat
      BY <3>4 DEF AdminRecord
    <3>9. ASSUME NEW x \in Browsers, adminCookie'[x] # NoCookie
          PROVE  /\ adminCookie'[x].secret <= rotations'
                 /\ adminCookie'[x].secret = adminFile'.secret =>
                     /\ adminCookie'[x].version <= adminFile'.version
                     /\ adminCookie'[x].version = adminFile'.version
                          => adminCookie'[x].rotation = adminFile'.rotation
      <4>1. CASE x = b
        BY <2>1, <3>4, <3>5, <3>7, <3>8, <3>10, <4>1
      <4>2. CASE x # b
        <5>1. adminCookie'[x] = adminCookie[x]
          BY <3>8, <4>2
        <5>2. /\ adminCookie[x].secret <= rotations
              /\ adminCookie[x].secret = f.secret =>
                     /\ adminCookie[x].version <= f.version
                     /\ adminCookie[x].version = f.version => adminCookie[x].rotation = f.rotation
          BY <1>0, <2>1, <3>9, <5>1 DEF SessionsSound
        <5> QED BY <2>1, <3>5, <5>1, <5>2
      <4> QED BY <4>1, <4>2
    <3>11. Configured' => adminFile'.secret <= rotations'
      BY <2>1, <3>4, <3>5
    <3> QED BY <2>1, <3>4, <3>5, <3>8, <3>9, <3>11 DEF SessionsSound
  <2> QED BY <1>8, <2>2, <2>3 DEF AuthVerify
<1>9. ASSUME NEW b \in Browsers, NEW host \in RpHosts, NEW p \in PasskeysFor(host), DeletePasskey(b, p)
      PROVE  SessionsSound'
  <2>1. UNCHANGED <<adminCookie, hour, rotations>> /\ Configured
    BY <1>9 DEF DeletePasskey, Live
  <2>2. adminFile \in AdminRecord
    BY <1>0, <2>1 DEF SessionsSound, Configured
  <2> DEFINE ps == adminFile.passkeys \ {p}
  <2>3. ps \in SUBSET PasskeyRow /\ adminFile' = [adminFile EXCEPT !.passkeys = ps]
    BY <1>9, <2>2 DEF DeletePasskey, DropPasskey, WriteRecord, AdminRecord
  <2> HIDE DEF ps
  <2> QED BY <1>0, <2>1, <2>3, SessionsKept
<1>10. ASSUME NEW host \in RpHosts, AuthOptions(host) PROVE SessionsSound'
  BY <1>5, <1>10 DEF AuthOptions
<1>11. ASSUME NEW c \in ceremonies, NEW k \in Passkeys, AuthenticatorAnswers(c, k) PROVE SessionsSound'
  BY <1>5, <1>11 DEF AuthenticatorAnswers
<1>12. CASE HourPasses
  BY <1>0, <1>12 DEF HourPasses, SessionsSound, Configured
<1>13. CASE ApiRestarts
  BY <1>5, <1>13 DEF ApiRestarts
<1>14. CASE FileIsLost
  BY <1>0, <1>14 DEF FileIsLost, SessionsSound, Configured
<1> QED BY <1>1, <1>2, <1>3, <1>4, <1>6, <1>7, <1>8, <1>9, <1>10, <1>11, <1>12, <1>13, <1>14
        DEF AdminNext

-----------------------------------------------------------------------------
\* Challenges.

\* Each of the facts below says what one step does to the store and to what was served.
LEMMA ChallengesKept ==
  ASSUME ChallengesSound, challenges' \subseteq challenges,
         UNCHANGED <<ceremonies, answers, served>>
  PROVE  ChallengesSound'
BY DEF ChallengesSound

LEMMA ChallengeIssued ==
  ASSUME ChallengesSound, NEW kind \in {"register", "authenticate"}, NEW host \in RpHosts, NEW allowed,
         IssueChallenge(kind, host, allowed), UNCHANGED <<answers, served>>
  PROVE  ChallengesSound'
<1> PICK n : n = Cardinality(ceremonies)
  OBVIOUS
<1>1. n \in Nat /\ n < MaxCeremonies /\ IsFiniteSet(ceremonies) /\ MaxCeremonies \in Nat
  BY FS_CardinalityType, AdminAssumption DEF ChallengesSound, IssueChallenge
<1> PICK c : c = [id |-> n + 1, kind |-> kind, host |-> host, until |-> hour + ChallengeLife]
  OBVIOUS
<1> PICK d : d = [id |-> n + 1, kind |-> kind, host |-> host, allowed |-> allowed]
  OBVIOUS
<1>2. c.id = n + 1 /\ d.id = n + 1 /\ d.kind = kind /\ d.host = host
  OBVIOUS
<1>3. challenges' = Fresh(challenges) \cup {c} /\ ceremonies' = ceremonies \cup {d}
  BY <1>2 DEF IssueChallenge
<1>4. \A x \in ceremonies : x.id \in 1..n
  BY DEF ChallengesSound
<1>5. d \notin ceremonies
  <2>1. n + 1 \notin 1..n
    BY <1>1
  <2> QED BY <1>2, <1>4, <2>1, Zenon
<1>6. IsFiniteSet(ceremonies') /\ Cardinality(ceremonies') = n + 1
  BY <1>1, <1>3, <1>5, FS_AddElement
<1>7. \A x \in challenges : x.id \in 1..n
  BY DEF ChallengesSound
<1>8. \A x \in challenges' : x = c \/ x \in challenges
  BY <1>3 DEF Fresh
<1>9. ASSUME NEW x \in ceremonies' PROVE x.id \in 1..(n+1) /\ x.host \in RpHosts
                                         /\ x.kind \in {"register", "authenticate"}
  <2>1. CASE x = d
    BY <1>1, <1>2, <2>1
  <2>2. CASE x \in ceremonies
    BY <1>1, <1>4, <2>2 DEF ChallengesSound
  <2> QED BY <1>3, <2>1, <2>2
<1>10. ASSUME NEW x \in challenges' PROVE x.id \in 1..(n+1)
  BY <1>1, <1>2, <1>7, <1>8
<1>11. ASSUME NEW a \in answers PROVE a.id <= n + 1
  <2>1. a.id \in Nat /\ a.id <= n
    BY DEF ChallengesSound, Answer
  <2> QED BY <1>1, <2>1
<1>12. ASSUME NEW i \in 1..MaxCeremonies, served[i] = 1
       PROVE  i <= n + 1 /\ \A x \in challenges' : x.id # i
  <2>1. i <= n /\ \A x \in challenges : x.id # i
    BY <1>12 DEF ChallengesSound
  <2>2. i # n + 1
    BY <1>1, <2>1
  <2> QED BY <1>1, <1>2, <1>8, <2>1, <2>2
<1>13. n + 1 <= MaxCeremonies
  BY <1>1
<1>14. answers' = answers /\ served' = served /\ answers \subseteq Answer
       /\ served \in [1..MaxCeremonies -> 0..1]
  BY DEF ChallengesSound
<1> QED BY <1>6, <1>9, <1>10, <1>11, <1>12, <1>13, <1>14 DEF ChallengesSound

\* A challenge still in the store has let nobody through.
LEMMA ConsumableIsUnserved ==
  ASSUME ChallengesSound, NEW a \in answers, NEW kind, Consumable(a.id, kind)
  PROVE  served[a.id] = 0 /\ a.id \in 1..MaxCeremonies
<1>1. a.id \in 1..MaxCeremonies
  BY DEF ChallengesSound, Answer
<1>2. \E c \in challenges : c.id = a.id
  BY DEF Consumable, Fresh
<1> QED BY <1>1, <1>2 DEF ChallengesSound

LEMMA ChallengeServed ==
  ASSUME ChallengesSound, NEW a \in answers, NEW kind, Consumable(a.id, kind),
         ConsumeChallenge(a.id), Serves(a), UNCHANGED <<ceremonies, answers>>
  PROVE  ChallengesSound'
<1>1. served[a.id] = 0 /\ a.id \in 1..MaxCeremonies
  BY ConsumableIsUnserved
<1>2. a.id <= Cardinality(ceremonies)
  BY DEF ChallengesSound
<1>3. /\ served' \in [1..MaxCeremonies -> 0..1]
      /\ \A i \in 1..MaxCeremonies : served'[i] = IF i = a.id THEN 1 ELSE served[i]
  BY <1>1 DEF Serves, ChallengesSound
<1>4. challenges' \subseteq challenges /\ \A c \in challenges' : c.id # a.id
  BY DEF ConsumeChallenge, Fresh
<1> QED BY <1>2, <1>3, <1>4 DEF ChallengesSound

LEMMA ChallengesStep == AdminInv /\ AdminNext => ChallengesSound'
<1> SUFFICES ASSUME AdminInv, AdminNext PROVE ChallengesSound'
  OBVIOUS
<1>0. ChallengesSound
  BY DEF AdminInv
<1>5. ASSUME UNCHANGED <<challenges, ceremonies, answers, served>> PROVE ChallengesSound'
  BY <1>0, <1>5, ChallengesKept
<1>1. ASSUME NEW b \in Browsers, NEW name \in AdminNames, NEW password \in Passwords,
             \/ Login(b, name, password)
             \/ BootstrapRotate(b, name, password)
             \/ \E current \in Passwords : ChangeCredentials(b, current, name, password)
      PROVE  ChallengesSound'
  BY <1>1, <1>5 DEF Login, BootstrapRotate, ChangeCredentials
<1>2. ASSUME NEW b \in Browsers, Logout(b) PROVE ChallengesSound'
  BY <1>2, <1>5 DEF Logout
<1>3. ASSUME NEW b \in Browsers, NEW host \in RpHosts, RegisterOptions(b, host) PROVE ChallengesSound'
  BY <1>0, <1>3, ChallengeIssued DEF RegisterOptions
<1>4. ASSUME NEW host \in RpHosts, AuthOptions(host) PROVE ChallengesSound'
  BY <1>0, <1>4, ChallengeIssued DEF AuthOptions
<1>6. ASSUME NEW a \in answers, ConsumeChallenge(a.id), UNCHANGED <<ceremonies, answers, served>>
      PROVE  ChallengesSound'
  BY <1>0, <1>6, ChallengesKept DEF ConsumeChallenge, Fresh
<1>7. ASSUME NEW b \in Browsers, NEW a \in answers, RegisterVerify(b, a) PROVE ChallengesSound'
  BY <1>0, <1>6, <1>7, ChallengeServed DEF RegisterVerify
<1>8. ASSUME NEW b \in Browsers, NEW a \in answers, AuthVerify(b, a) PROVE ChallengesSound'
  BY <1>0, <1>6, <1>8, ChallengeServed DEF AuthVerify
<1>9. ASSUME NEW b \in Browsers, NEW host \in RpHosts, NEW p \in PasskeysFor(host), DeletePasskey(b, p)
      PROVE  ChallengesSound'
  BY <1>5, <1>9 DEF DeletePasskey
<1>10. ASSUME NEW c \in ceremonies, NEW k \in Passkeys, AuthenticatorAnswers(c, k) PROVE ChallengesSound'
  <2> PICK n : n = signs[k].count + (IF k \in Counting THEN 1 ELSE 0)
    OBVIOUS
  <2> PICK a : a = [id |-> c.id, kind |-> c.kind, host |-> c.host, key |-> k, count |-> n]
    OBVIOUS
  <2>1. answers' = answers \cup {a} /\ UNCHANGED <<challenges, ceremonies, served>>
    BY <1>10 DEF AuthenticatorAnswers
  <2>2. n \in Nat
    BY DEF AdminInv, AnswersSound
  <2>3. Cardinality(ceremonies) \in Nat /\ Cardinality(ceremonies) <= MaxCeremonies
        /\ MaxCeremonies \in Nat
    BY <1>0, FS_CardinalityType, AdminAssumption DEF ChallengesSound
  <2>4. c.id \in 1..Cardinality(ceremonies) /\ c.host \in RpHosts /\ c.kind \in {"register", "authenticate"}
    BY <1>0 DEF ChallengesSound
  <2>5. c.id \in 1..MaxCeremonies /\ c.id <= Cardinality(ceremonies)
    BY <2>3, <2>4
  <2>6. a \in Answer /\ a.id <= Cardinality(ceremonies)
    BY <2>2, <2>4, <2>5 DEF Answer
  <2> QED BY <1>0, <2>1, <2>6 DEF ChallengesSound
<1>11. CASE HourPasses
  BY <1>5, <1>11 DEF HourPasses
<1>12. CASE ApiRestarts
  BY <1>0, <1>12, ChallengesKept DEF ApiRestarts
<1>13. CASE FileIsLost
  BY <1>5, <1>13 DEF FileIsLost
<1> QED BY <1>1, <1>2, <1>3, <1>4, <1>7, <1>8, <1>9, <1>10, <1>11, <1>12, <1>13 DEF AdminNext

-----------------------------------------------------------------------------
\* Passkeys.

LEMMA AnswersStep == AdminInv /\ AdminNext => AnswersSound'
<1> SUFFICES ASSUME AdminInv, AdminNext PROVE AnswersSound'
  OBVIOUS
<1>0. AnswersSound /\ answers \subseteq Answer
  BY DEF AdminInv, ChallengesSound
<1>1. ASSUME UNCHANGED <<answers, signs>> PROVE AnswersSound'
  BY <1>0, <1>1 DEF AnswersSound
<1>2. ASSUME NEW c \in ceremonies, NEW k \in Passkeys, AuthenticatorAnswers(c, k) PROVE AnswersSound'
  <2> PICK n : n = signs[k].count + (IF k \in Counting THEN 1 ELSE 0)
    OBVIOUS
  <2> PICK a : a = [id |-> c.id, kind |-> c.kind, host |-> c.host, key |-> k, count |-> n]
    OBVIOUS
  <2>1. answers' = answers \cup {a} /\ signs' = [signs EXCEPT ![k] = [host |-> c.host, count |-> n]]
        /\ \A x \in answers : x.id # a.id
    BY <1>2 DEF AuthenticatorAnswers
  <2>2. n \in Nat
    BY <1>0 DEF AnswersSound
  <2>3. c.host \in RpHosts /\ a.host = c.host /\ a.key = k /\ a.kind = c.kind
    BY DEF AdminInv, ChallengesSound
  <2>4. IF a.kind = "register" THEN signs[k].host = "none" ELSE signs[k].host = a.host
    BY <1>2, <2>3 DEF AuthenticatorAnswers
  <2>5. signs' \in [Passkeys -> [host : RpHosts \cup {"none"}, count : Nat]]
        /\ \A j \in Passkeys : signs'[j].host = IF j = k THEN a.host ELSE signs[j].host
    BY <1>0, <2>1, <2>2, <2>3 DEF AnswersSound
  <2>6. \A x \in answers : x.key \in Passkeys /\ x.host \in RpHosts /\ signs[x.key].host = x.host
    BY <1>0 DEF AnswersSound, Answer
  <2>7. \A x \in answers : x.key = k => signs[k].host \in RpHosts
    BY <2>6
  <2>8. \A x \in answers : signs'[x.key].host = x.host
    <3> SUFFICES ASSUME NEW x \in answers PROVE signs'[x.key].host = x.host
      OBVIOUS
    <3>1. CASE x.key = k
      BY <2>4, <2>5, <2>6, <3>1, AdminAssumption
    <3>2. CASE x.key # k
      BY <2>5, <2>6, <3>2
    <3> QED BY <3>1, <3>2
  <2>9. signs'[a.key].host = a.host
    BY <2>3, <2>5
  <2>10. \A x \in answers : x.kind = "register" /\ a.kind = "register" => x.key # a.key
    BY <2>3, <2>4, <2>7, AdminAssumption
  <2> QED BY <1>0, <2>1, <2>5, <2>8, <2>9, <2>10 DEF AnswersSound
<1>3. AnswersSound' \/ \E c \in ceremonies, k \in Passkeys : AuthenticatorAnswers(c, k)
  BY <1>1 DEF AdminNext, Login, BootstrapRotate, ChangeCredentials, Logout, RegisterOptions,
    RegisterVerify, AuthVerify, DeletePasskey, AuthOptions, HourPasses, ApiRestarts, FileIsLost
<1> QED BY <1>2, <1>3

\* What was registered stays so: answers and their success are kept.
LEMMA RegisteredStays ==
  ASSUME AdminInv, AdminNext, NEW k, Registered(k) PROVE Registered(k)'
<1> PICK a \in answers : a.kind = "register" /\ a.key = k /\ served[a.id] = 1
  BY DEF Registered
<1>1. a \in answers'
  BY DEF AdminNext, Login, BootstrapRotate, ChangeCredentials, Logout, RegisterOptions, AuthenticatorAnswers,
    RegisterVerify, AuthVerify, DeletePasskey, AuthOptions, HourPasses, ApiRestarts, FileIsLost
<1>2. served'[a.id] = 1
  <2>1. CASE UNCHANGED served
    BY <2>1
  <2>2. ASSUME NEW x \in answers, NEW kind, Consumable(x.id, kind), Serves(x) PROVE served'[a.id] = 1
    <3>1. x.id # a.id
      BY <2>2, ConsumableIsUnserved DEF AdminInv
    <3>2. a.id \in 1..MaxCeremonies /\ served \in [1..MaxCeremonies -> 0..1]
      BY DEF AdminInv, ChallengesSound, Answer
    <3> QED BY <2>2, <3>1, <3>2 DEF Serves
  <2> QED BY <2>1, <2>2 DEF AdminNext, Login, BootstrapRotate, ChangeCredentials, Logout, RegisterOptions,
    AuthenticatorAnswers, RegisterVerify, AuthVerify, DeletePasskey, AuthOptions, HourPasses, ApiRestarts,
    FileIsLost
<1> QED BY <1>1, <1>2 DEF Registered

\* A key's host does not change once it has one.
LEMMA HostStays ==
  ASSUME AdminInv, AdminNext, NEW p \in PasskeyRow, p.host = signs[p.id].host
  PROVE  p.host = signs'[p.id].host
<1>1. CASE UNCHANGED signs
  BY <1>1
<1>2. ASSUME NEW c \in ceremonies, NEW k \in Passkeys, AuthenticatorAnswers(c, k)
      PROVE  p.host = signs'[p.id].host
  <2>1. p.host \in RpHosts /\ p.id \in Passkeys
    BY DEF PasskeyRow
  <2>2. /\ c.kind = "register" => signs[k].host = "none"
        /\ c.kind # "register" => signs[k].host = c.host
        /\ signs' = [signs EXCEPT ![k] = [host |-> c.host,
             count |-> signs[k].count + (IF k \in Counting THEN 1 ELSE 0)]]
        /\ signs \in [Passkeys -> [host : RpHosts \cup {"none"}, count : Nat]]
    BY <1>2 DEF AuthenticatorAnswers, AdminInv, AnswersSound
  <2>3. CASE p.id = k
    BY <2>1, <2>2, <2>3, AdminAssumption
  <2>4. CASE p.id # k
    BY <2>1, <2>2, <2>4
  <2> QED BY <2>3, <2>4
<1> QED
  BY <1>1, <1>2 DEF AdminNext, Login, BootstrapRotate, ChangeCredentials, Logout, RegisterOptions,
    RegisterVerify, AuthVerify, DeletePasskey, AuthOptions, HourPasses, ApiRestarts, FileIsLost

\* A passkey that is on file, or that a fresh registration brings, may be on file.
LEMMA PasskeyWritten ==
  ASSUME AdminInv, AdminNext, Configured, NEW a \in answers,
         Registered(a.key)', a.key \notin removed,
         adminFile' = [adminFile EXCEPT
           !.passkeys = Other(a) \cup {[id |-> a.key, host |-> a.host, count |-> a.count]}],
         removed' = removed
  PROVE  PasskeysSound'
<1> PICK new : new = [id |-> a.key, host |-> a.host, count |-> a.count]
  OBVIOUS
<1> PICK f : f = adminFile
  OBVIOUS
<1>1. f \in AdminRecord
  BY DEF AdminInv, SessionsSound, Configured
<1>2. adminFile'.passkeys = Other(a) \cup {new}
  BY <1>1 DEF AdminRecord
<1>3. new \in PasskeyRow /\ new.id = a.key /\ new.host = a.host
  BY DEF AdminInv, ChallengesSound, Answer, PasskeyRow
<1>4. new.host = signs[new.id].host
  BY <1>3 DEF AdminInv, AnswersSound
<1>5. f.passkeys \subseteq PasskeyRow
  BY <1>1 DEF AdminRecord
<1>6. /\ \A p \in f.passkeys : Registered(p.id) /\ p.host = signs[p.id].host /\ p.id \notin removed
      /\ \A p, q \in f.passkeys : p.id = q.id => p = q
  BY DEF AdminInv, PasskeysSound
<1>7. Other(a) \subseteq f.passkeys /\ \A p \in Other(a) : p.id # a.key
  BY <1>3, <1>4, <1>6 DEF Other
<1>8. ASSUME NEW p \in adminFile'.passkeys
      PROVE  Registered(p.id)' /\ p.host = signs'[p.id].host /\ p.id \notin removed
  <2>1. CASE p = new
    BY <1>3, <1>4, <2>1, HostStays
  <2>2. CASE p \in f.passkeys
    <3>1. p \in PasskeyRow /\ Registered(p.id) /\ p.host = signs[p.id].host /\ p.id \notin removed
      BY <1>5, <1>6, <2>2
    <3> QED BY <3>1, HostStays, RegisteredStays
  <2> QED BY <1>2, <1>7, <2>1, <2>2
<1>9. \A p, q \in adminFile'.passkeys : p.id = q.id => p = q
  BY <1>2, <1>3, <1>6, <1>7
<1>10. \A k \in removed : Registered(k)'
  BY RegisteredStays DEF AdminInv, PasskeysSound
<1> QED BY <1>8, <1>9, <1>10 DEF PasskeysSound

LEMMA PasskeysStep == AdminInv /\ AdminNext => PasskeysSound'
<1> SUFFICES ASSUME AdminInv, AdminNext PROVE PasskeysSound'
  OBVIOUS
<1>1. /\ \A k : Registered(k) => Registered(k)'
      /\ \A p \in PasskeyRow : p.host = signs[p.id].host => p.host = signs'[p.id].host
  BY RegisteredStays, HostStays
<1>2. /\ \A k \in removed : Registered(k)
      /\ Configured =>
           /\ adminFile \in AdminRecord
           /\ adminFile.passkeys \subseteq PasskeyRow
           /\ \A p \in adminFile.passkeys :
                Registered(p.id) /\ p.host = signs[p.id].host /\ p.id \notin removed
           /\ \A p, q \in adminFile.passkeys : p.id = q.id => p = q
  <2>1. Configured => adminFile \in AdminRecord
    BY DEF AdminInv, SessionsSound, Configured
  <2>2. Configured => adminFile.passkeys \subseteq PasskeyRow
    BY <2>1 DEF AdminRecord
  <2> QED BY <2>1, <2>2 DEF AdminInv, PasskeysSound
<1>3. ASSUME UNCHANGED <<adminFile, removed>> PROVE PasskeysSound'
  BY <1>1, <1>2, <1>3 DEF PasskeysSound, Configured
<1>4. ASSUME NEW b \in Browsers, NEW name \in AdminNames, NEW password \in Passwords,
             BootstrapRotate(b, name, password)
      PROVE  PasskeysSound'
  <2>1. adminFile'.passkeys = {}
    BY <1>4 DEF BootstrapRotate, WriteRecord, NewRecord
  <2>2. \A k \in removed' : Registered(k)
    BY <1>2, <1>4 DEF BootstrapRotate
  <2> QED BY <1>1, <2>1, <2>2 DEF PasskeysSound
<1>5. ASSUME NEW b \in Browsers, NEW name \in AdminNames, NEW password \in Passwords,
             NEW current \in Passwords, ChangeCredentials(b, current, name, password)
      PROVE  PasskeysSound'
  <2>1. Configured
    BY <1>5 DEF ChangeCredentials, Live
  <2>2. adminFile' = Renewed(name, password) /\ removed' = removed
    BY <1>5 DEF ChangeCredentials, WriteRecord
  <2>3. adminFile'.passkeys = adminFile.passkeys
    <3> PICK f : f = adminFile
      OBVIOUS
    <3>1. f \in AdminRecord
      BY <1>2, <2>1
    <3> QED BY <2>2, <3>1 DEF Renewed, AdminRecord
  <2> QED BY <1>1, <1>2, <2>1, <2>2, <2>3 DEF PasskeysSound
<1>6. ASSUME NEW b \in Browsers, NEW a \in answers, RegisterVerify(b, a) PROVE PasskeysSound'
  <2>1. CASE UNCHANGED adminFile
    BY <1>3, <1>6, <2>1 DEF RegisterVerify
  <2>2. CASE AddPasskey(a) /\ Serves(a) /\ Consumable(a.id, "register")
    <3>1. Configured /\ a.kind = "register" /\ removed' = removed /\ answers' = answers
      BY <1>6 DEF RegisterVerify, Live
    <3>2. served[a.id] = 0 /\ a.id \in 1..MaxCeremonies
      BY <2>2, ConsumableIsUnserved DEF AdminInv
    <3>3. ~Registered(a.key)
      BY <3>1, <3>2 DEF Registered, AdminInv, AnswersSound
    <3>4. a.key \notin removed
      BY <1>2, <3>3
    <3>5. served'[a.id] = 1
      BY <2>2, <3>2 DEF Serves, AdminInv, ChallengesSound
    <3>6. Registered(a.key)'
      BY <3>1, <3>5 DEF Registered
    <3> QED BY <2>2, <3>1, <3>4, <3>6, PasskeyWritten DEF AddPasskey, WriteRecord
  <2> QED BY <1>6, <2>1, <2>2 DEF RegisterVerify
<1>7. ASSUME NEW b \in Browsers, NEW a \in answers, AuthVerify(b, a) PROVE PasskeysSound'
  <2>1. CASE UNCHANGED adminFile
    BY <1>3, <1>7, <2>1 DEF AuthVerify
  <2>2. CASE UpdateSignCount(a) /\ \E p \in PasskeysFor(a.host) : Presented(p, a)
    <3>1. Configured /\ removed' = removed
      BY <1>7 DEF AuthVerify
    <3>2. Registered(a.key) /\ a.key \notin removed
      BY <1>2, <2>2, <3>1 DEF PasskeysFor, Presented
    <3> QED BY <1>1, <2>2, <3>1, <3>2, PasskeyWritten DEF UpdateSignCount, WriteRecord
  <2> QED BY <1>7, <2>1, <2>2 DEF AuthVerify
<1>8. ASSUME NEW b \in Browsers, NEW host \in RpHosts, NEW p \in PasskeysFor(host), DeletePasskey(b, p)
      PROVE  PasskeysSound'
  <2>1. Configured /\ p \in adminFile.passkeys /\ removed' = removed \cup {p.id}
    BY <1>8 DEF DeletePasskey, DropPasskey, Live
  <2>2. adminFile'.passkeys = adminFile.passkeys \ {p}
    <3> PICK f : f = adminFile
      OBVIOUS
    <3>1. f \in AdminRecord
      BY <1>2, <2>1
    <3> QED BY <1>8, <3>1 DEF DeletePasskey, DropPasskey, WriteRecord, AdminRecord
  <2> QED BY <1>1, <1>2, <2>1, <2>2 DEF PasskeysSound
<1>9. CASE FileIsLost
  BY <1>1, <1>2, <1>9 DEF FileIsLost, PasskeysSound, Configured
<1> QED
  BY <1>3, <1>4, <1>5, <1>6, <1>7, <1>8, <1>9 DEF AdminNext, Login, Logout, RegisterOptions,
    AuthenticatorAnswers, AuthOptions, HourPasses, ApiRestarts

\* Sessions, challenges, signed answers and passkeys are sound in every reachable state.
THEOREM AdminInvariant == AdminSpec => []AdminInv
<1>1. AdminInit => AdminInv
  BY AdminInvInit
<1>2. AdminInv /\ [AdminNext]_adminVars => AdminInv'
  <2>1. AdminInv /\ AdminNext => AdminInv'
    BY SessionsStep, ChallengesStep, AnswersStep, PasskeysStep DEF AdminInv
  <2>2. ASSUME AdminInv, UNCHANGED adminVars PROVE AdminInv'
    <3>1. SessionsSound'
      BY <2>2 DEF adminVars, AdminInv, SessionsSound, Configured
    <3>2. ChallengesSound'
      BY <2>2 DEF adminVars, AdminInv, ChallengesSound
    <3>3. AnswersSound'
      BY <2>2 DEF adminVars, AdminInv, AnswersSound
    <3>4. PasskeysSound'
      BY <2>2 DEF adminVars, AdminInv, PasskeysSound, Registered, Configured
    <3> QED BY <3>1, <3>2, <3>3, <3>4 DEF AdminInv
  <2> QED BY <2>1, <2>2
<1> QED BY <1>1, <1>2, PTL DEF AdminSpec

\* No cookie of before a change of password, a new start or a loss of the file is
\* accepted, for any number of browsers and changes: a record's secret is its own, and its
\* version rises with each change (AdminAuthService.state_from_session_token).
THEOREM SessionsEnd == AdminSpec => []SessionsEndWithTheirCredentials
<1>1. AdminInv => SessionsEndWithTheirCredentials
  BY DEF AdminInv, SessionsSound, SessionsEndWithTheirCredentials, Live
<1> QED BY <1>1, AdminInvariant, PTL

\* A challenge lets somebody through once, and a deleted passkey stays deleted, for any
\* passkeys and however often browsers post an answer again (_consume_challenge, passkeys).
THEOREM AnswersServeOnce == AdminSpec => []PasskeyAnswersServeOnce
<1>1. AdminInv => ChallengesServeOnce
  <2> SUFFICES ASSUME ChallengesSound, NEW i \in 1..MaxCeremonies PROVE served[i] <= 1
    BY DEF AdminInv, ChallengesServeOnce
  <2>1. served[i] \in 0..1
    BY DEF ChallengesSound
  <2> QED BY <2>1
<1>2. AdminInv => RemovedPasskeysStayAway
  BY DEF AdminInv, PasskeysSound, RemovedPasskeysStayAway
<1> QED BY <1>1, <1>2, AdminInvariant, PTL DEF PasskeyAnswersServeOnce

\* A record counts the changes of its credentials from one, and a cookie carries the count
\* of some record.
VersionsCount ==
  /\ rotations <= MaxRotations
  /\ Configured => /\ 1 <= adminFile.secret
                   /\ 1 <= adminFile.version /\ adminFile.version <= rotations
  /\ \A b \in Browsers : adminCookie[b] # NoCookie =>
       1 <= adminCookie[b].version /\ adminCookie[b].version <= rotations

ChallengesDiffer == \A c, d \in challenges : c.id = d.id => c = d

LEMMA VersionsStep == AdminInv /\ VersionsCount /\ AdminNext => VersionsCount'
<1> SUFFICES ASSUME AdminInv, VersionsCount, AdminNext PROVE VersionsCount'
  OBVIOUS
<1>1. /\ adminFile \in {NoRecord} \cup AdminRecord /\ rotations \in Nat /\ MaxRotations \in Nat
      /\ adminCookie \in [Browsers -> {NoCookie} \cup AdminCookie]
  BY AdminAssumption DEF AdminInv, SessionsSound
<1>2. Configured => adminFile \in AdminRecord /\ adminFile.version \in Nat /\ adminFile.secret \in Nat
  BY <1>1 DEF Configured, AdminRecord
<1>3. ASSUME NEW b \in Browsers, NEW r, HandsCookie(b, r), adminFile' = r, r # NoRecord,
             rotations' \in Nat, rotations <= rotations', rotations' <= MaxRotations,
             1 <= r.secret, r.version \in Nat, 1 <= r.version, r.version <= rotations'
      PROVE  VersionsCount'
  <2>1. \A x \in Browsers : adminCookie'[x] = IF x = b THEN SessionToken(r) ELSE adminCookie[x]
    BY <1>1, <1>3 DEF HandsCookie
  <2>2. SessionToken(r).version = r.version
    BY DEF SessionToken
  <2>3. ASSUME NEW x \in Browsers, adminCookie'[x] # NoCookie
        PROVE  1 <= adminCookie'[x].version /\ adminCookie'[x].version <= rotations'
    <3>1. CASE x = b
      BY <1>3, <2>1, <2>2, <3>1
    <3>2. CASE x # b
      <4>1. adminCookie'[x] = adminCookie[x] /\ adminCookie[x] \in AdminCookie
        BY <1>1, <2>1, <2>3, <3>2
      <4>2. /\ adminCookie[x].version \in Nat
            /\ 1 <= adminCookie[x].version /\ adminCookie[x].version <= rotations
        BY <2>3, <4>1 DEF VersionsCount, AdminCookie
      <4> QED BY <1>1, <1>3, <4>1, <4>2
    <3> QED BY <3>1, <3>2
  <2> QED BY <1>3, <2>3 DEF VersionsCount, Configured
\* Passkeys come and go under the record they are in.
<1>4. ASSUME Configured, NEW ps, adminFile' = [adminFile EXCEPT !.passkeys = ps]
      PROVE  /\ adminFile'.version = adminFile.version /\ adminFile'.secret = adminFile.secret
             /\ adminFile' # NoRecord
  <2> PICK f : f = adminFile
    OBVIOUS
  <2>1. f \in AdminRecord
    BY <1>2, <1>4
  <2>2. adminFile' = [f EXCEPT !.passkeys = ps]
    BY <1>4
  <2>3. adminFile'.version = f.version /\ adminFile'.secret = f.secret
    BY <2>1, <2>2 DEF AdminRecord
  <2>4. DOMAIN adminFile' = DOMAIN f /\ "version" \in DOMAIN f
    BY <2>1, <2>2 DEF AdminRecord
  <2>5. "version" \notin DOMAIN NoRecord
    BY DEF NoRecord
  <2> QED BY <2>3, <2>4, <2>5
<1>5. ASSUME UNCHANGED <<adminCookie, rotations>>,
             \/ UNCHANGED adminFile \/ adminFile' = NoRecord
             \/ Configured /\ \E ps : adminFile' = [adminFile EXCEPT !.passkeys = ps]
      PROVE  VersionsCount'
  <2>1. CASE UNCHANGED adminFile \/ adminFile' = NoRecord
    BY <1>5, <2>1 DEF VersionsCount, Configured
  <2>2. CASE Configured /\ \E ps : adminFile' = [adminFile EXCEPT !.passkeys = ps]
    <3>1. /\ adminFile'.version = adminFile.version /\ adminFile'.secret = adminFile.secret
          /\ adminFile' # NoRecord
      BY <1>4, <2>2
    <3> QED BY <1>5, <2>2, <3>1 DEF VersionsCount, Configured
  <2> QED BY <1>5, <2>1, <2>2
<1>6. ASSUME NEW b \in Browsers, NEW name \in AdminNames, NEW password \in Passwords,
             Login(b, name, password)
      PROVE  VersionsCount'
  <2>1. Configured /\ adminFile' = adminFile /\ HandsCookie(b, adminFile) /\ rotations' = rotations
    BY <1>6 DEF Login, LoginGranted
  <2> QED BY <1>1, <1>2, <1>3, <2>1 DEF VersionsCount, Configured
<1>7. ASSUME NEW b \in Browsers, NEW name \in AdminNames, NEW password \in Passwords,
             BootstrapRotate(b, name, password)
      PROVE  VersionsCount'
  <2> PICK r : r = NewRecord(name, password)
    OBVIOUS
  <2>1. r.version = 1 /\ r.secret = rotations + 1 /\ r # NoRecord
    <3>1. "version" \in DOMAIN r /\ "version" \notin DOMAIN NoRecord
      BY DEF NewRecord, NoRecord
    <3> QED BY <3>1 DEF NewRecord
  <2>2. adminFile' = r /\ HandsCookie(b, r) /\ rotations' = rotations + 1 /\ rotations < MaxRotations
    BY <1>7 DEF BootstrapRotate, WriteRecord
  <2> QED BY <1>1, <1>3, <2>1, <2>2
<1>8. ASSUME NEW b \in Browsers, NEW name \in AdminNames, NEW password \in Passwords,
             NEW current \in Passwords, ChangeCredentials(b, current, name, password)
      PROVE  VersionsCount'
  <2> PICK r : r = Renewed(name, password)
    OBVIOUS
  <2>1. Configured
    BY <1>8 DEF ChangeCredentials, Live
  <2> PICK f : f = adminFile
    OBVIOUS
  <2>2. f \in AdminRecord
    BY <1>2, <2>1
  <2>3. r = [f EXCEPT !.user = name, !.password = password, !.version = f.version + 1,
                      !.rotation = rotations + 1]
    BY DEF Renewed
  <2>4. r.version = f.version + 1 /\ r.secret = f.secret /\ DOMAIN r = DOMAIN f
    BY <2>2, <2>3 DEF AdminRecord
  <2>5. r # NoRecord
    <3>1. "version" \in DOMAIN f /\ "version" \notin DOMAIN NoRecord
      BY <2>2 DEF AdminRecord, NoRecord
    <3> QED BY <2>4, <3>1
  <2>6. adminFile' = r /\ HandsCookie(b, r) /\ rotations' = rotations + 1 /\ rotations < MaxRotations
    BY <1>8 DEF ChangeCredentials, WriteRecord
  <2>7. f.version \in Nat /\ f.secret \in Nat /\ 1 <= f.secret /\ 1 <= f.version /\ f.version <= rotations
    BY <1>2, <2>1 DEF VersionsCount
  <2>8. r.version \in Nat /\ 1 <= r.version /\ r.version <= rotations' /\ 1 <= r.secret
    BY <1>1, <2>4, <2>6, <2>7
  <2> QED BY <1>1, <1>3, <2>5, <2>6, <2>8
<1>9. ASSUME NEW b \in Browsers, Logout(b) PROVE VersionsCount'
  <2>1. \A x \in Browsers : adminCookie'[x] \in {NoCookie, adminCookie[x]}
    BY <1>1, <1>9 DEF Logout
  <2>2. UNCHANGED <<adminFile, rotations>>
    BY <1>9 DEF Logout
  <2> QED BY <2>1, <2>2 DEF VersionsCount, Configured
<1>10. ASSUME NEW b \in Browsers, NEW a \in answers, RegisterVerify(b, a) PROVE VersionsCount'
  <2>1. UNCHANGED <<adminCookie, rotations>> /\ Configured
    BY <1>10 DEF RegisterVerify, Live
  <2> QED BY <1>5, <1>10, <2>1 DEF RegisterVerify, AddPasskey, WriteRecord
<1>11. ASSUME NEW b \in Browsers, NEW a \in answers, AuthVerify(b, a) PROVE VersionsCount'
  <2>1. UNCHANGED rotations /\ Configured
    BY <1>11 DEF AuthVerify
  <2>2. CASE UNCHANGED <<adminFile, adminCookie>>
    BY <1>5, <2>1, <2>2
  <2>3. CASE UpdateSignCount(a) /\ HandsCookie(b, adminFile)
    <3>1. /\ adminFile'.version = adminFile.version /\ adminFile'.secret = adminFile.secret
          /\ adminFile' # NoRecord
      BY <1>4, <2>1, <2>3 DEF UpdateSignCount, WriteRecord
    <3>2. HandsCookie(b, adminFile')
      <4>1. adminFile'.user = adminFile.user /\ adminFile'.rotation = adminFile.rotation
        <5> PICK f : f = adminFile
          OBVIOUS
        <5> PICK ps : adminFile' = [f EXCEPT !.passkeys = ps]
          BY <2>3 DEF UpdateSignCount, WriteRecord
        <5>1. f \in AdminRecord
          BY <1>2, <2>1
        <5> QED BY <5>1 DEF AdminRecord
      <4> QED BY <2>3, <3>1, <4>1 DEF HandsCookie, SessionToken
    <3> QED BY <1>1, <1>2, <1>3, <2>1, <3>1, <3>2 DEF VersionsCount
  <2> QED BY <1>11, <2>2, <2>3 DEF AuthVerify
<1>12. ASSUME NEW b \in Browsers, NEW host \in RpHosts, NEW p \in PasskeysFor(host), DeletePasskey(b, p)
       PROVE  VersionsCount'
  <2>1. Configured /\ adminFile' = [adminFile EXCEPT !.passkeys = adminFile.passkeys \ {p}]
    BY <1>12 DEF DeletePasskey, DropPasskey, Live, WriteRecord
  <2> QED BY <1>5, <1>12, <2>1 DEF DeletePasskey
<1>13. ASSUME UNCHANGED <<adminFile, adminCookie, rotations>> PROVE VersionsCount'
  BY <1>5, <1>13
<1>14. CASE FileIsLost
  BY <1>5, <1>14 DEF FileIsLost
<1> QED BY <1>6, <1>7, <1>8, <1>9, <1>10, <1>11, <1>12, <1>13, <1>14 DEF AdminNext, RegisterOptions,
    AuthenticatorAnswers, AuthOptions, HourPasses, ApiRestarts

LEMMA ChallengesDifferStep == AdminInv /\ ChallengesDiffer /\ AdminNext => ChallengesDiffer'
<1> SUFFICES ASSUME AdminInv, ChallengesDiffer, AdminNext PROVE ChallengesDiffer'
  OBVIOUS
<1>1. Cardinality(ceremonies) \in Nat /\ \A c \in challenges : c.id \in 1..Cardinality(ceremonies)
  BY FS_CardinalityType DEF AdminInv, ChallengesSound
<1>2. ASSUME challenges' \subseteq challenges PROVE ChallengesDiffer'
  BY <1>2 DEF ChallengesDiffer
<1>3. ASSUME NEW kind, NEW host, NEW allowed, IssueChallenge(kind, host, allowed)
      PROVE  ChallengesDiffer'
  <2> PICK c : /\ c.id = Cardinality(ceremonies) + 1
               /\ challenges' = Fresh(challenges) \cup {c}
    BY <1>3 DEF IssueChallenge
  <2>1. \A d \in Fresh(challenges) : d \in challenges /\ d.id # c.id
    BY <1>1 DEF Fresh
  <2> QED BY <2>1 DEF ChallengesDiffer
<1>4. ASSUME NEW id, ConsumeChallenge(id) PROVE challenges' \subseteq challenges
  BY <1>4 DEF ConsumeChallenge, Fresh
<1>5. ASSUME UNCHANGED challenges PROVE ChallengesDiffer'
  BY <1>2, <1>5
<1> QED BY <1>2, <1>3, <1>4, <1>5 DEF AdminNext, Login, BootstrapRotate, ChangeCredentials, Logout,
    RegisterOptions, AuthOptions, RegisterVerify, AuthVerify, DeletePasskey, AuthenticatorAnswers,
    HourPasses, ApiRestarts, FileIsLost

(***************************************************************************)
(* For any browsers, hosts and passkeys: the file holds one credential for *)
(* each passkey, it and the cookies count the changes of its record within *)
(* their bound, and no two open challenges bear one id.                    *)
(***************************************************************************)
THEOREM AdminTypeCorrect == AdminSpec => []AdminTypeOK
<1>1. AdminInit => VersionsCount /\ ChallengesDiffer
  BY AdminAssumption DEF AdminInit, VersionsCount, ChallengesDiffer, Configured
<1>2. AdminInv /\ VersionsCount /\ ChallengesDiffer => AdminTypeOK
  <2> SUFFICES ASSUME AdminInv, VersionsCount, ChallengesDiffer PROVE AdminTypeOK
    OBVIOUS
  <2>1. rotations \in Nat /\ rotations <= MaxRotations /\ MaxRotations \in Nat
    BY AdminAssumption DEF AdminInv, SessionsSound, VersionsCount
  <2>2. ASSUME Configured
        PROVE  /\ adminFile.user \in AdminNames /\ adminFile.password \in Passwords
               /\ adminFile.version \in 1..MaxRotations /\ adminFile.secret \in 1..MaxRotations
               /\ \A p, q \in adminFile.passkeys : p.id = q.id => p = q
    <3>1. adminFile \in AdminRecord /\ adminFile.secret <= rotations
      BY <2>2 DEF AdminInv, SessionsSound, Configured
    <3>2. /\ 1 <= adminFile.secret /\ 1 <= adminFile.version /\ adminFile.version <= rotations
      BY <2>2 DEF VersionsCount
    <3>3. \A p, q \in adminFile.passkeys : p.id = q.id => p = q
      BY <2>2 DEF AdminInv, PasskeysSound
    <3> QED BY <2>1, <3>1, <3>2, <3>3 DEF AdminRecord
  <2>3. ASSUME NEW b \in Browsers, adminCookie[b] # NoCookie
        PROVE  adminCookie[b].version \in 1..MaxRotations
    <3>1. adminCookie[b] \in AdminCookie
      BY <2>3 DEF AdminInv, SessionsSound
    <3> QED BY <2>1, <2>3, <3>1 DEF VersionsCount, AdminCookie
  <2>4. \A c \in challenges : c.id \in 1..Cardinality(ceremonies)
    BY DEF AdminInv, ChallengesSound
  <2> QED BY <2>2, <2>3, <2>4 DEF AdminTypeOK, ChallengesDiffer, Configured
<1>3. AdminInv /\ VersionsCount /\ ChallengesDiffer /\ [AdminNext]_adminVars =>
        (VersionsCount /\ ChallengesDiffer)'
  <2>1. UNCHANGED adminVars /\ VersionsCount /\ ChallengesDiffer => (VersionsCount /\ ChallengesDiffer)'
    BY DEF adminVars, VersionsCount, ChallengesDiffer, Configured
  <2> QED BY <2>1, VersionsStep, ChallengesDifferStep
<1> QED BY <1>1, <1>2, <1>3, AdminInvariant, PTL DEF AdminSpec


-----------------------------------------------------------------------------
(* The two middlewares: revocation is final and counts for every later      *)
(* request, and a token that reads never writes.                            *)

Token == [scopes : SUBSET AllScopes, active : BOOLEAN, used : BOOLEAN]
Carried == [at : {"token", "mark", "session", "handler", "done", "refused"}, area : Areas,
            write : BOOLEAN, guarded : BOOLEAN, token : Nat, dead : SUBSET Nat]

AccessTyped == tokens \in Seq(Token) /\ reqs \in [Requests -> {Idle} \cup Carried]

\* What a request carries is of the table; what was revoked when it came still is.
CarriesTokens ==
  /\ jar \in 0..Len(tokens)
  /\ \A q \in Requests : reqs[q] # Idle =>
       /\ reqs[q].token \in 0..Len(tokens)
       /\ \A t \in reqs[q].dead : t \in DOMAIN tokens /\ ~tokens[t].active

\* Whoever is past the first middleware on a route with a scope holds a token that was
\* active when it came and has that scope: the token was read in between.
PassedGate ==
  \A q \in Requests :
    reqs[q].at \in {"mark", "session", "handler", "done"} /\ RequiredScope(reqs[q]) # "none"
      => /\ reqs[q].token # NoToken /\ reqs[q].token \notin reqs[q].dead
         /\ RequiredScope(reqs[q]) \in ScopesOf(reqs[q].token)
MarksToken == \A q \in Requests : reqs[q].at = "mark" => reqs[q].token # NoToken

AccessInv == AccessTyped /\ CarriesTokens /\ PassedGate /\ MarksToken

-----------------------------------------------------------------------------

\* A change of the table keeps the tokens it had, what they were granted and their revocation.
TableKept ==
  /\ tokens' \in Seq(Token) /\ Len(tokens) <= Len(tokens')
  /\ \A t \in DOMAIN tokens :
       tokens'[t].scopes = tokens[t].scopes /\ (~tokens[t].active => ~tokens'[t].active)

LEMMA MarkKeeps ==
  ASSUME AccessTyped, NEW t \in DOMAIN tokens, tokens' = MarkUsed(t) PROVE TableKept
<1>1. tokens' = [tokens EXCEPT ![t] = [tokens[t] EXCEPT !.used = TRUE]]
  BY DEF MarkUsed, AccessTyped
<1>2. tokens[t] \in Token
  BY DEF AccessTyped
<1>5. [tokens[t] EXCEPT !.used = TRUE] \in Token
  BY <1>2 DEF Token
<1>3. tokens' \in Seq(Token) /\ Len(tokens') = Len(tokens)
  BY <1>1, <1>5, ExceptSeq DEF AccessTyped
<1>4. ASSUME NEW i \in DOMAIN tokens
      PROVE  tokens'[i].scopes = tokens[i].scopes /\ (~tokens[i].active => ~tokens'[i].active)
  <2>1. tokens[i] \in Token
    BY DEF AccessTyped
  <2>2. tokens'[i] = IF i = t THEN [tokens[t] EXCEPT !.used = TRUE] ELSE tokens[i]
    BY <1>1 DEF AccessTyped
  <2> QED
    BY <2>1, <2>2 DEF Token
<1> QED
  BY <1>3, <1>4 DEF TableKept, AccessTyped

LEMMA RevokeKeeps ==
  ASSUME AccessTyped, NEW t \in DOMAIN tokens, tokens' = Revoked(t) PROVE TableKept
<1>1. tokens' = [tokens EXCEPT ![t] = [tokens[t] EXCEPT !.active = FALSE]]
  BY DEF Revoked, AccessTyped
<1>2. tokens[t] \in Token
  BY DEF AccessTyped
<1>5. [tokens[t] EXCEPT !.active = FALSE] \in Token
  BY <1>2 DEF Token
<1>3. tokens' \in Seq(Token) /\ Len(tokens') = Len(tokens)
  BY <1>1, <1>5, ExceptSeq DEF AccessTyped
<1>4. ASSUME NEW i \in DOMAIN tokens
      PROVE  tokens'[i].scopes = tokens[i].scopes /\ (~tokens[i].active => ~tokens'[i].active)
  <2>1. tokens[i] \in Token
    BY DEF AccessTyped
  <2>2. tokens'[i] = IF i = t THEN [tokens[t] EXCEPT !.active = FALSE] ELSE tokens[i]
    BY <1>1 DEF AccessTyped
  <2> QED
    BY <2>1, <2>2 DEF Token
<1> QED
  BY <1>3, <1>4 DEF TableKept, AccessTyped

LEMMA CreateTokenKeeps ==
  ASSUME AccessTyped, NEW wanted,
         tokens' = Append(tokens, [scopes |-> NormalizedScopes(wanted), active |-> TRUE,
                                   used |-> FALSE])
  PROVE  TableKept
<1>1. [scopes |-> NormalizedScopes(wanted), active |-> TRUE, used |-> FALSE] \in Token
  BY DEF NormalizedScopes, Token
<1> QED
  BY <1>1 DEF TableKept, AccessTyped

\* No step brings a revoked token back or changes what a token was granted.
LEMMA TableStep == AccessInv /\ [AccessNext]_accessVars => TableKept
<1> SUFFICES ASSUME AccessInv, [AccessNext]_accessVars PROVE TableKept
  OBVIOUS
<1> USE DEF AccessInv
<1>1. CASE UNCHANGED tokens
  BY <1>1 DEF TableKept, AccessTyped
<1>2. ASSUME NEW q \in Requests, TokenIsMarked(q) PROVE TableKept
  <2>1. reqs[q].token \in DOMAIN tokens
    BY <1>2 DEF TokenIsMarked, AccessTyped, CarriesTokens, MarksToken, Idle, NoToken
  <2> QED
    BY <1>2, <2>1, MarkKeeps DEF TokenIsMarked
<1>3. ASSUME NEW q \in Requests, NEW wanted \in Grants, CreateToken(q, wanted) \/ McpCreateToken(q, wanted)
      PROVE  TableKept
  BY <1>3, CreateTokenKeeps DEF CreateToken, McpCreateToken
<1>4. ASSUME NEW q \in Requests, NEW t \in DOMAIN tokens,
             RevokeToken(q, t) \/ McpRevokeToken(q, t) \/ CreateTokenSession(q, t)
      PROVE  TableKept
  BY <1>4, <1>1, RevokeKeeps, MarkKeeps DEF RevokeToken, McpRevokeToken, CreateTokenSession
<1>5. CASE AdminComesOrGoes \/ UNCHANGED accessVars
  BY <1>1, <1>5 DEF AdminComesOrGoes, accessVars
<1>6. ASSUME NEW q \in Requests, TokenIsRead(q) \/ SessionIsChecked(q) \/ Leaves(q)
      PROVE  TableKept
  BY <1>1, <1>6 DEF TokenIsRead, SessionIsChecked, Leaves
<1>7. ASSUME NEW q \in Requests, NEW area \in AskedAreas, NEW write \in BOOLEAN,
             NEW host \in {"protected", "other"}, NEW origin \in {"protected", "other"},
             NEW header \in {NoToken} \cup DOMAIN tokens,
             Arrives(q, area, write, host, origin, header)
      PROVE  TableKept
  BY <1>1, <1>7 DEF Arrives
<1> QED
  BY <1>2, <1>3, <1>4, <1>5, <1>6, <1>7 DEF AccessNext

\* Where a step takes a request that is under way.
GoesTo(q, place) == At(q, place) /\ reqs[q] \in Carried
                     /\ place \in {"mark", "session", "handler", "done", "refused"}

\* A request that moves carries what it carried.
LEMMA MoveStep ==
  ASSUME AccessInv, TableKept, NEW q \in Requests, NEW place, GoesTo(q, place),
         jar' \in 0..Len(tokens'),
         place = "mark" => reqs[q].token # NoToken,
         place \in {"mark", "session", "handler", "done"} /\ RequiredScope(reqs[q]) # "none" =>
           /\ reqs[q].token # NoToken /\ reqs[q].token \notin reqs[q].dead
           /\ RequiredScope(reqs[q]) \in ScopesOf(reqs[q].token)
  PROVE  AccessInv'
<1>1. reqs' = [reqs EXCEPT ![q] = [reqs[q] EXCEPT !.at = place]]
  BY DEF GoesTo, At, AccessInv, AccessTyped
<1>2. [reqs[q] EXCEPT !.at = place] \in Carried
  BY DEF GoesTo, Carried
<1>3. AccessTyped'
  BY <1>1, <1>2 DEF AccessInv, AccessTyped, TableKept
<1>4. \A t \in DOMAIN tokens : t \in DOMAIN tokens' /\ ScopesOf(t)' = ScopesOf(t)
  BY DEF TableKept, ScopesOf, AccessInv, AccessTyped
<1>5. reqs[q] # Idle /\ RequiredScope(reqs'[q]) = RequiredScope(reqs[q])
  BY <1>1, <1>2 DEF GoesTo, Carried, Idle, RequiredScope, ScopeForPath, AccessInv, AccessTyped
<1>6. \A p \in Requests : /\ (reqs'[p] # Idle) <=> (reqs[p] # Idle)
                          /\ p # q => reqs'[p] = reqs[p]
                          /\ p = q => /\ reqs'[p].at = place /\ reqs'[p].token = reqs[p].token
                                     /\ reqs'[p].dead = reqs[p].dead
  BY <1>1, <1>2, <1>5 DEF AccessInv, AccessTyped, Carried, Idle, GoesTo
<1>7. CarriesTokens'
  BY <1>4, <1>6 DEF AccessInv, AccessTyped, CarriesTokens, TableKept
<1>8. PassedGate'
  <2> SUFFICES ASSUME NEW p \in Requests,
                      (/\ reqs[p].at \in {"mark", "session", "handler", "done"}
                       /\ RequiredScope(reqs[p]) # "none")'
               PROVE  (/\ reqs[p].token # NoToken /\ reqs[p].token \notin reqs[p].dead
                       /\ RequiredScope(reqs[p]) \in ScopesOf(reqs[p].token))'
    BY DEF PassedGate
  <2>1. RequiredScope(reqs'[p]) = RequiredScope(reqs[p])
    BY <1>5, <1>6
  <2>2. reqs[p] # Idle /\ RequiredScope(reqs[p]) # "none"
    BY <1>5, <1>6, <2>1 DEF Idle
  <2>3. /\ reqs[p].token # NoToken /\ reqs[p].token \notin reqs[p].dead
        /\ RequiredScope(reqs[p]) \in ScopesOf(reqs[p].token)
    BY <1>6, <2>2 DEF AccessInv, PassedGate
  <2>4. reqs[p].token \in DOMAIN tokens
    BY <2>2, <2>3 DEF AccessInv, AccessTyped, CarriesTokens, NoToken
  <2>5. reqs'[p].token = reqs[p].token /\ reqs'[p].dead = reqs[p].dead
    BY <1>6
  <2>6. ScopesOf(reqs[p].token)' = ScopesOf(reqs[p].token)
    BY <1>4, <2>4, <2>5
  <2> QED
    BY <2>1, <2>3, <2>5, <2>6
<1>9. MarksToken'
  BY <1>6 DEF AccessInv, MarksToken
<1> QED
  BY <1>3, <1>7, <1>8, <1>9 DEF AccessInv
-----------------------------------------------------------------------------
\* A step that moves no request leaves the invariant to the table and the cookie.
LEMMA StillStep ==
  ASSUME AccessInv, TableKept, UNCHANGED reqs, jar' \in 0..Len(tokens')
  PROVE  AccessInv'
<1>1. \A t \in DOMAIN tokens : t \in DOMAIN tokens' /\ ScopesOf(t)' = ScopesOf(t)
  BY DEF TableKept, ScopesOf, AccessInv, AccessTyped
<1>2. AccessTyped' /\ CarriesTokens' /\ MarksToken'
  BY <1>1 DEF AccessInv, AccessTyped, CarriesTokens, MarksToken, TableKept
<1>3. PassedGate'
  <2> SUFFICES ASSUME NEW q \in Requests,
                      reqs[q].at \in {"mark", "session", "handler", "done"},
                      RequiredScope(reqs[q]) # "none"
               PROVE  /\ reqs[q].token # NoToken /\ reqs[q].token \notin reqs[q].dead
                      /\ RequiredScope(reqs[q]) \in ScopesOf(reqs[q].token)'
    BY DEF PassedGate
  <2>1. /\ reqs[q].token # NoToken /\ reqs[q].token \notin reqs[q].dead
        /\ RequiredScope(reqs[q]) \in ScopesOf(reqs[q].token)
    BY DEF AccessInv, PassedGate
  <2>2. reqs[q].token \in DOMAIN tokens
    BY <2>1 DEF AccessInv, AccessTyped, CarriesTokens, NoToken, Idle
  <2> QED
    BY <1>1, <2>1, <2>2
<1> QED
  BY <1>2, <1>3 DEF AccessInv

LEMMA AccessInitHolds == AccessInit => AccessInv
  BY DEF AccessInit, AccessInv, AccessTyped, CarriesTokens, PassedGate, MarksToken, Idle, NoToken

LEMMA AccessStep == AccessInv /\ [AccessNext]_accessVars => AccessInv'
<1> SUFFICES ASSUME AccessInv, [AccessNext]_accessVars PROVE AccessInv'
  OBVIOUS
<1>0. TableKept
  BY TableStep
<1>a. \A n \in 0..Len(tokens) : n \in 0..Len(tokens')
  BY <1>0 DEF TableKept, AccessInv, AccessTyped
<1>b. jar \in 0..Len(tokens') /\ NoToken \in 0..Len(tokens')
  BY <1>a, <1>0 DEF AccessInv, CarriesTokens, AccessTyped, TableKept, NoToken
<1>c. ASSUME NEW q \in Requests, reqs[q].at # "idle" PROVE reqs[q] \in Carried
  BY <1>c DEF AccessInv, AccessTyped, Idle
<1>1. CASE AdminComesOrGoes \/ UNCHANGED accessVars
  BY <1>0, <1>1, <1>b, StillStep DEF AdminComesOrGoes, accessVars
<1>2. ASSUME NEW q \in Requests, NEW area \in AskedAreas, NEW write \in BOOLEAN,
             NEW host \in {"protected", "other"}, NEW origin \in {"protected", "other"},
             NEW header \in {NoToken} \cup DOMAIN tokens,
             Arrives(q, area, write, host, origin, header)
      PROVE  AccessInv'
  <2> DEFINE r == [at |-> "token", area |-> area, write |-> write,
                   guarded |-> IsProtectedHost(host, origin), token |-> ExtractToken(header),
                   dead |-> {t \in DOMAIN tokens : ~tokens[t].active}]
  <2>1. reqs' = [reqs EXCEPT ![q] = r] /\ UNCHANGED <<tokens, jar>>
    BY <1>2 DEF Arrives
  <2>2. r.token \in 0..Len(tokens)
    BY DEF ExtractToken, AccessInv, AccessTyped, CarriesTokens, NoToken
  <2>3. r \in Carried
    BY <2>2, AskedAreasAssumption DEF Carried, AccessInv, AccessTyped, IsProtectedHost
  <2>4. AccessTyped'
    BY <2>1, <2>3 DEF AccessInv, AccessTyped
  <2>5. \A p \in Requests : reqs'[p] = IF p = q THEN r ELSE reqs[p]
    BY <2>1 DEF AccessInv, AccessTyped
  <2>6. CarriesTokens'
    BY <2>1, <2>2, <2>5 DEF AccessInv, CarriesTokens
  <2>7. ASSUME NEW t PROVE ScopesOf(t)' = ScopesOf(t)
    BY <2>1 DEF ScopesOf
  <2>8. PassedGate' /\ MarksToken'
    <3>1. r.at = "token"
      OBVIOUS
    <3> HIDE DEF r
    <3>2. ASSUME NEW p \in Requests, reqs'[p].at # "token" PROVE reqs'[p] = reqs[p]
      BY <2>5, <3>1, <3>2
    <3>3. MarksToken'
      BY <3>2 DEF AccessInv, MarksToken
    <3>4. PassedGate'
      BY <2>7, <3>2 DEF AccessInv, PassedGate
    <3> QED
      BY <3>3, <3>4
  <2> QED
    BY <2>4, <2>6, <2>8 DEF AccessInv
<1>3. ASSUME NEW q \in Requests, TokenIsRead(q) PROVE AccessInv'
  <2>1. reqs[q] \in Carried /\ UNCHANGED <<tokens, jar>>
    BY <1>3, <1>c DEF TokenIsRead
  <2>2. CASE RequiredScope(reqs[q]) = "none"
    BY <1>0, <1>3, <1>b, <2>1, <2>2, MoveStep DEF TokenIsRead, GoesTo
  <2>3. CASE /\ RequiredScope(reqs[q]) # "none" /\ reqs[q].token # NoToken
             /\ TokenAdmits(reqs[q].token, RequiredScope(reqs[q]))
    <3>1. reqs[q].token \notin reqs[q].dead
      BY <2>1, <2>3 DEF TokenAdmits, AccessInv, CarriesTokens, Carried, Idle
    <3> QED
      BY <1>0, <1>3, <1>b, <2>1, <2>3, <3>1, MoveStep DEF TokenIsRead, GoesTo, TokenAdmits
  <2>4. CASE At(q, "refused")
    BY <1>0, <1>b, <2>1, <2>4, MoveStep DEF GoesTo
  <2> QED
    BY <1>3, <2>2, <2>3, <2>4 DEF TokenIsRead
<1>4. ASSUME NEW q \in Requests, TokenIsMarked(q) PROVE AccessInv'
  BY <1>0, <1>4, <1>b, <1>c, MoveStep DEF TokenIsMarked, GoesTo, AccessInv, PassedGate
<1>5. ASSUME NEW q \in Requests, SessionIsChecked(q) PROVE AccessInv'
  <2>1. CASE At(q, "refused")
    BY <1>0, <1>5, <1>b, <1>c, <2>1, MoveStep DEF SessionIsChecked, GoesTo
  <2>2. CASE At(q, "handler")
    BY <1>0, <1>5, <1>b, <1>c, <2>2, MoveStep DEF SessionIsChecked, GoesTo, AccessInv, PassedGate
  <2> QED
    BY <1>5, <2>1, <2>2 DEF SessionIsChecked
<1>6. ASSUME NEW q \in Requests, At(q, "done"), reqs[q].at = "handler", jar' \in 0..Len(tokens')
      PROVE  AccessInv'
  BY <1>0, <1>6, <1>c, MoveStep DEF GoesTo, AccessInv, PassedGate
<1>7. ASSUME NEW q \in Requests, NEW wanted \in Grants, CreateToken(q, wanted) \/ McpCreateToken(q, wanted)
      PROVE  AccessInv'
  BY <1>6, <1>7, <1>b DEF CreateToken, McpCreateToken, InHandler
<1>8. ASSUME NEW q \in Requests, NEW t \in DOMAIN tokens,
             RevokeToken(q, t) \/ McpRevokeToken(q, t) \/ CreateTokenSession(q, t)
      PROVE  AccessInv'
  <2>1. t \in 0..Len(tokens')
    BY <1>a DEF AccessInv, AccessTyped
  <2> QED
    BY <1>6, <1>8, <1>b, <2>1 DEF RevokeToken, McpRevokeToken, CreateTokenSession, InHandler
<1>9. ASSUME NEW q \in Requests, Leaves(q) PROVE AccessInv'
  <2>1. \A p \in Requests : reqs'[p] = IF p = q THEN Idle ELSE reqs[p]
    BY <1>9 DEF Leaves, AccessInv, AccessTyped
  <2>2. AccessTyped' /\ CarriesTokens'
    BY <1>9, <2>1 DEF Leaves, AccessInv, AccessTyped, CarriesTokens
  <2>3. PassedGate' /\ MarksToken'
    BY <1>9, <2>1 DEF Leaves, AccessInv, PassedGate, MarksToken, ScopesOf, Idle
  <2> QED
    BY <2>2, <2>3 DEF AccessInv
<1> QED
  BY <1>1, <1>2, <1>3, <1>4, <1>5, <1>7, <1>8, <1>9 DEF AccessNext

-----------------------------------------------------------------------------

\* The invariant holds in every behaviour.
THEOREM AccessInvariant == AccessSpec => []AccessInv
<1> QED
  BY AccessInitHolds, AccessStep, PTL DEF AccessSpec

\* The table and the requests under way stay well formed.
THEOREM AccessTypeCorrect == AccessSpec => []AccessTypeOK
<1>1. AccessInv => AccessTypeOK
  <2> SUFFICES ASSUME AccessInv PROVE AccessTypeOK
    OBVIOUS
  <2>1. ASSUME NEW t \in DOMAIN tokens
        PROVE  tokens[t].scopes \subseteq AllScopes /\ {tokens[t].active, tokens[t].used} \subseteq BOOLEAN
    <3>1. tokens[t] \in Token
      BY DEF AccessInv, AccessTyped
    <3> QED
      BY <3>1 DEF Token
  <2> QED
    BY <2>1 DEF AccessInv, CarriesTokens, AccessTypeOK
<1> QED
  BY <1>1, AccessInvariant, PTL

\* After a revocation has been committed no request that comes with the token reaches a
\* handler that asks for a scope (ProtectedHostAuthMiddleware.dispatch).
THEOREM RevocationCounts == AccessSpec => []RevokedTokensOpenNothing
<1>1. AccessInv => RevokedTokensOpenNothing
  BY DEF AccessInv, PassedGate, RevokedTokensOpenNothing
<1> QED
  BY <1>1, AccessInvariant, PTL

\* No write of a request that read a token earlier makes it active again
\* (ApiTokenRepository.mark_used).
THEOREM RevocationIsFinal == AccessSpec => RevokedForGood
<1>1. AccessInv /\ [AccessNext]_accessVars
        => [\A t \in DOMAIN tokens : ~tokens[t].active => ~tokens'[t].active]_accessVars
  BY TableStep DEF TableKept
<1> QED
  BY <1>1, AccessInvariant, PTL DEF AccessSpec, RevokedForGood

\* The scope of a route that writes on a protected host is never that of reading
\* (scope_for_path): a token for reading reaches none.
THEOREM ReadingIsReading == AccessSpec => []ReadersDoNotWrite
<1>1. AccessInv => ReadersDoNotWrite
  <2> SUFFICES ASSUME AccessInv, NEW q \in Requests,
                      reqs[q].at \in {"handler", "done"}, reqs[q].guarded, reqs[q].write,
                      reqs[q].area \notin {"index", "session"}
               PROVE  reqs[q].token # NoToken /\ tokens[reqs[q].token].scopes # {"read"}
    BY DEF ReadersDoNotWrite
  <2>1. RequiredScope(reqs[q]) \in {"tg_compat", "mcp_admin", "send", "ops_admin"}
    BY DEF RequiredScope, ScopeForPath
  <2> QED
    BY <2>1 DEF AccessInv, PassedGate, ScopesOf
<1> QED
  BY <1>1, AccessInvariant, PTL

\* Both promises of the middleware hold for any number of tokens and requests under way.
THEOREM GatesAreHeld == AccessSpec => []GatesHold
<1> QED
  BY RevocationCounts, ReadingIsReading, PTL DEF GatesHold

-----------------------------------------------------------------------------
(* The tools, however operators, endpoints and workers come between their   *)
(* steps.                                                                   *)

BulkTools == {"bulk_retry_sends", "bulk_cancel_sends"}
Lone == ToolNames \ BulkTools
Ids == Seq(HistoryRows)
SomeIds == {s \in Ids : s # <<>>}
Place == [kind : {"none", "forum_topic", "group"}, active : BOOLEAN]
Status == {"failed", "queued", "sending", "success", "cancelled"}

\* A call at each of its steps.
LoneCall == [at : Lone, given : Places] \cup [at : {"asked"}, given : Places, loaded : Place]
BulkCall == [at : BulkTools, given : Ids] \cup [at : BulkTools, tool : BulkTools, given : Ids]
LoadedCall == [at : {"loaded"}, tool : BulkTools, given : SomeIds, loaded : Status]
EnqueueCall == [at : {"enqueue"}, tool : BulkTools, given : SomeIds]
Call == {NoTool} \cup LoneCall \cup BulkCall \cup LoadedCall \cup EnqueueCall

McpTyped ==
  /\ mcpRow \in [on : BOOLEAN, tools : SUBSET ToolNames, stored : BOOLEAN]
  /\ places \in [Places -> Place]
  /\ history \in [HistoryRows -> Status]
  /\ mcpCall \in [McpCalls -> Call]
  /\ requeued \in [HistoryRows -> Nat] /\ failures \in [HistoryRows -> Nat]

\* Without a row nobody has opened anything.
UnopenedIsUnstored == (mcpRow.stored \/ mcpRow = NoSettings) /\ (~opened => ~mcpRow.stored)

\* A loaded row had a status the tool may change.
LoadedFits ==
  \A c \in McpCalls : mcpCall[c].at = "loaded" /\ mcpCall[c].tool = "bulk_retry_sends"
    => mcpCall[c].loaded = "failed"

\* Each failure is spent by the retry that follows it.
FailuresSpent ==
  \A h \in HistoryRows :
    h \in overrun \/ requeued[h] + (IF history[h] = "failed" THEN 1 ELSE 0) <= failures[h]

McpInv ==
  /\ McpTyped /\ UnopenedIsUnstored /\ OnlyReadsBeforeSettings
  /\ SwitchedOffStaysOff /\ TopicsStayTopics /\ LoadedFits /\ FailuresSpent

-----------------------------------------------------------------------------

LEMMA McpInitHolds == McpInit => McpInv
  BY DEF McpInit, McpInv, McpTyped, UnopenedIsUnstored, OnlyReadsBeforeSettings,
    SwitchedOffStaysOff, TopicsStayTopics, LoadedFits, FailuresSpent, NoSettings, Place, Status,
    Call, NoTool

\* Where a call stands says what it carries.
LEMMA CallShapes ==
  ASSUME McpTyped, NEW c \in McpCalls
  PROVE  /\ mcpCall[c].at \in Lone => mcpCall[c] \in [at : Lone, given : Places]
         /\ mcpCall[c].at = "asked" =>
              mcpCall[c] \in [at : {"asked"}, given : Places, loaded : Place]
         /\ mcpCall[c].at \in BulkTools => mcpCall[c] \in BulkCall
         /\ mcpCall[c].at = "loaded" => mcpCall[c] \in LoadedCall
         /\ mcpCall[c].at = "enqueue" => mcpCall[c] \in EnqueueCall
  BY DEF McpTyped, Call, NoTool, LoneCall, BulkCall, LoadedCall, EnqueueCall, Lone, BulkTools,
    ToolNames

\* The steps that change neither rows nor destinations, but a call.
LEMMA CallStep ==
  ASSUME McpInv, NEW c \in McpCalls, NEW call \in Call, McpGoes(c, call),
         UNCHANGED <<mcpRow, places, history, opened, down, retyped, requeued, failures, overrun>>,
         opened \/ acted' \subseteq BootstrapTools,
         call.at = "loaded" /\ call.tool = "bulk_retry_sends" => call.loaded = "failed"
  PROVE  McpInv'
<1>1. \A d \in McpCalls : mcpCall'[d] = IF d = c THEN call ELSE mcpCall[d]
  BY DEF McpGoes, McpInv, McpTyped
<1>2. McpTyped' /\ LoadedFits'
  BY <1>1 DEF McpInv, McpTyped, LoadedFits, McpGoes
<1>3. UnopenedIsUnstored' /\ OnlyReadsBeforeSettings' /\ SwitchedOffStaysOff' /\ TopicsStayTopics'
        /\ FailuresSpent'
  BY DEF McpInv, UnopenedIsUnstored, OnlyReadsBeforeSettings, SwitchedOffStaysOff,
    TopicsStayTopics, FailuresSpent
<1> QED
  BY <1>2, <1>3 DEF McpInv

\* The settings are looked at or patched.
LEMMA SettingsStep ==
  ASSUME McpInv,
         SettingsShown \/ \E on \in BOOLEAN, tools \in {{"same"}, ToolNames} : SettingsPatched(on, tools)
  PROVE  McpInv'
<1>1. /\ \E on \in BOOLEAN, tools \in SUBSET ToolNames :
              mcpRow' = [on |-> on, tools |-> tools, stored |-> TRUE]
      /\ opened' = TRUE
      /\ UNCHANGED <<places, history, mcpCall, acted, down, retyped, requeued, failures, overrun>>
  <2>1. CASE SettingsShown
    BY <2>1 DEF SettingsShown, Created, DefaultTools
  <2>2. CASE \E on \in BOOLEAN, tools \in {{"same"}, ToolNames} : SettingsPatched(on, tools)
    <3>1. PICK on \in BOOLEAN, tools \in {{"same"}, ToolNames} : SettingsPatched(on, tools)
      BY <2>2
    <3>2. mcpRow.tools \in SUBSET ToolNames /\ DefaultTools \in SUBSET ToolNames
      BY DEF McpInv, McpTyped, DefaultTools
    <3>3. CASE tools = {"same"}
      BY <3>1, <3>2, <3>3 DEF SettingsPatched, Created
    <3>4. CASE tools # {"same"}
      BY <3>1, <3>4 DEF SettingsPatched, Created
    <3> QED
      BY <3>3, <3>4
  <2> QED
    BY <2>1, <2>2
<1> QED
  BY <1>1 DEF McpInv, McpTyped, UnopenedIsUnstored, OnlyReadsBeforeSettings, SwitchedOffStaysOff,
    TopicsStayTopics, LoadedFits, FailuresSpent

\* A destination is checked, made, switched or deleted; a call may end with it.
LEMMA PlaceStep ==
  ASSUME McpInv, NEW d \in Places, NEW place \in Place, places' = [places EXCEPT ![d] = place],
         mcpCall' = mcpCall \/ \E c \in McpCalls : McpEnds(c),
         UNCHANGED <<mcpRow, history, acted, opened, requeued, failures, overrun>>,
         down' \subseteq down \cup {d}, d \in down' => ~place.active,
         retyped \ {d} \subseteq retyped',
         place = Missing \/ d \in retyped' \/ place.kind = "forum_topic"
  PROVE  McpInv'
<1>1. \A e \in Places : places'[e] = IF e = d THEN place ELSE places[e]
  BY DEF McpInv, McpTyped
<1>2. McpTyped'
  BY DEF McpInv, McpTyped, McpEnds, Call
<1>3. LoadedFits'
  BY DEF McpInv, McpTyped, LoadedFits, McpEnds, NoTool
<1>4. SwitchedOffStaysOff' /\ TopicsStayTopics'
  BY <1>1 DEF McpInv, SwitchedOffStaysOff, TopicsStayTopics
<1>5. UnopenedIsUnstored' /\ OnlyReadsBeforeSettings' /\ FailuresSpent'
  BY DEF McpInv, UnopenedIsUnstored, OnlyReadsBeforeSettings, FailuresSpent
<1> QED
  BY <1>2, <1>3, <1>4, <1>5 DEF McpInv
-----------------------------------------------------------------------------

LEMMA CallToolStep ==
  ASSUME McpInv, NEW c \in McpCalls, NEW tool, NEW given, CallTool(c, tool, given),
         \/ tool \in BulkTools /\ given \in Ids
         \/ tool \in Lone /\ given \in Places
  PROVE  McpInv'
<1>1. opened \/ acted' \subseteq BootstrapTools
  BY DEF CallTool, McpInv, UnopenedIsUnstored, OnlyReadsBeforeSettings, EnabledTools
<1>2. CASE UNCHANGED mcpCall
  <2>1. McpGoes(c, mcpCall[c]) /\ mcpCall[c] \in Call
    BY <1>2 DEF McpGoes, McpInv, McpTyped
  <2> QED
    BY <1>1, <2>1, CallStep DEF CallTool, McpInv, LoadedFits
<1>3. CASE McpGoes(c, [at |-> tool, given |-> given])
  <2>1. [at |-> tool, given |-> given] \in Call /\ tool # "loaded"
    BY DEF Call, LoneCall, BulkCall, BulkTools, Lone, ToolNames
  <2> QED
    BY <1>1, <1>3, <2>1, CallStep DEF CallTool
<1> QED
  BY <1>2, <1>3 DEF CallTool

\* A call that ends, or goes on with no row of its own changed.
LEMMA PlainCallStep ==
  ASSUME McpInv, NEW c \in McpCalls, NEW call \in Call, McpGoes(c, call),
         UNCHANGED <<mcpRow, places, history, acted, opened, down, retyped, requeued, failures, overrun>>,
         call.at = "loaded" /\ call.tool = "bulk_retry_sends" => call.loaded = "failed"
  PROVE  McpInv'
  BY CallStep DEF McpInv, OnlyReadsBeforeSettings

LEMMA EndStep ==
  ASSUME McpInv, NEW c \in McpCalls, McpEnds(c),
         UNCHANGED <<mcpRow, places, history, acted, opened, down, retyped, requeued, failures, overrun>>
  PROVE  McpInv'
<1>1. McpGoes(c, NoTool) /\ NoTool \in Call /\ NoTool.at = "free"
  BY DEF McpEnds, McpGoes, Call, NoTool
<1> QED
  BY <1>1, PlainCallStep

LEMMA CheckBeginsStep ==
  ASSUME McpInv, NEW c \in McpCalls, CheckBegins(c) PROVE McpInv'
<1> DEFINE d == mcpCall[c].given
<1>1. mcpCall[c] \in [at : Lone, given : Places]
  BY CallShapes DEF CheckBegins, McpInv, Lone, ToolNames, BulkTools
<1>2. CASE McpEnds(c)
  BY <1>2, EndStep DEF CheckBegins
<1>3. CASE McpGoes(c, [at |-> "asked", given |-> d, loaded |-> places[d]])
  <2>1. [at |-> "asked", given |-> d, loaded |-> places[d]] \in Call
    BY <1>1 DEF Call, LoneCall, McpInv, McpTyped
  <2> QED
    BY <1>3, <2>1, PlainCallStep DEF CheckBegins
<1> QED
  BY <1>2, <1>3 DEF CheckBegins

\* What was off stays off, unless the check had seen it off.
LEMMA CheckWritesStep ==
  ASSUME McpInv, NEW c \in McpCalls, CheckWrites(c) PROVE McpInv'
<1> DEFINE call == mcpCall[c]
           d == call.given
           place == Written(places[d], call.loaded)
<1>1. call \in [at : {"asked"}, given : Places, loaded : Place]
  BY CallShapes DEF CheckWrites, McpInv
<1>2. CASE UNCHANGED <<places, down, retyped>>
  BY <1>2, EndStep DEF CheckWrites
<1>3. CASE /\ places' = [places EXCEPT ![d] = place]
           /\ down' = IF call.loaded.active THEN down ELSE down \ {d}
           /\ retyped' = retyped \cup {d}
  <2>1. d \in Places /\ places[d] \in Place /\ call.loaded \in Place
    BY <1>1 DEF McpInv, McpTyped
  <2>2. place \in Place
    BY <2>1 DEF Written, Place
  <2>3. d \in down' => ~place.active
    BY <1>3, <2>1 DEF Written, McpInv, SwitchedOffStaysOff
  <2> HIDE DEF d, place
  <2> QED
    BY <1>3, <2>1, <2>2, <2>3, PlaceStep DEF CheckWrites
<1> QED
  BY <1>2, <1>3 DEF CheckWrites

LEMMA FromUpdateStep ==
  ASSUME McpInv, NEW c \in McpCalls, FromUpdate(c) PROVE McpInv'
<1>1. mcpCall[c] \in [at : Lone, given : Places]
  BY CallShapes DEF FromUpdate, McpInv, Lone, ToolNames, BulkTools
<1>2. [kind |-> "forum_topic", active |-> TRUE] \in Place
  BY DEF Place
<1> QED
  BY <1>1, <1>2, PlaceStep DEF FromUpdate

LEMMA BulkLoadsStep ==
  ASSUME McpInv, NEW c \in McpCalls,
         BulkLoads(c, BulkRetryable) \/ BulkLoads(c, BulkCancellable)
  PROVE  McpInv'
<1> DEFINE call == mcpCall[c]
           h == Head(call.given)
<1>1. call \in BulkCall
  BY CallShapes DEF BulkLoads, McpInv, BulkTools
<1>2. call.at \in BulkTools /\ call.given \in Ids
  BY <1>1 DEF BulkCall
<1>3. CASE McpEnds(c)
  BY <1>3, EndStep DEF BulkLoads
<1>4. CASE call.given # <<>>
  <2>1. h \in HistoryRows /\ Tail(call.given) \in Ids /\ call.given \in SomeIds
    BY <1>2, <1>4 DEF Ids, SomeIds
  <2>2. CASE McpGoes(c, [call EXCEPT !.given = Tail(@)])
    <3>1. [call EXCEPT !.given = Tail(@)] \in BulkCall
      BY <1>1, <2>1 DEF BulkCall
    <3>2. [call EXCEPT !.given = Tail(@)] \in Call /\ [call EXCEPT !.given = Tail(@)].at # "loaded"
      BY <3>1 DEF Call, BulkCall, BulkTools
    <3> QED
      BY <2>2, <3>2, PlainCallStep DEF BulkLoads
  <2>3. CASE /\ McpGoes(c, [at |-> "loaded", tool |-> call.at, given |-> call.given,
                            loaded |-> history[h]])
             /\ call.at = "bulk_retry_sends" => history[h] \in BulkRetryable
    <3>1. history[h] \in Status
      BY <2>1 DEF McpInv, McpTyped
    <3>2. call.at = "bulk_retry_sends" => history[h] = "failed"
      BY <2>3, <3>1 DEF Status, BulkRetryable
    <3>3. [at |-> "loaded", tool |-> call.at, given |-> call.given, loaded |-> history[h]] \in Call
      BY <1>2, <2>1, <3>1 DEF Call, LoadedCall
    <3> QED
      BY <2>3, <3>2, <3>3, PlainCallStep DEF BulkLoads
  <2> QED
    BY <1>4, <2>2, <2>3 DEF BulkLoads, BulkRetryable, BulkCancellable
<1> QED
  BY <1>3, <1>4 DEF BulkLoads
-----------------------------------------------------------------------------
\* A retry of a row as it was loaded spends the failure the row stood for.
LEMMA BulkCommitsStep ==
  ASSUME McpInv, NEW c \in McpCalls, BulkCommits(c) PROVE McpInv'
<1> DEFINE call == mcpCall[c]
           h == Head(call.given)
           retry == call.tool = "bulk_retry_sends"
           next == [at |-> IF retry THEN "enqueue" ELSE call.tool, tool |-> call.tool,
                    given |-> IF retry THEN call.given ELSE Tail(call.given)]
<1>1. call \in LoadedCall
  BY CallShapes DEF BulkCommits, McpInv
<1>2. call.tool \in BulkTools /\ call.given \in SomeIds /\ h \in HistoryRows /\ Tail(call.given) \in Ids
  BY <1>1 DEF LoadedCall, SomeIds, Ids
<1>3. next \in Call /\ next.at # "loaded"
  BY <1>2 DEF Call, BulkCall, EnqueueCall, BulkTools
<1>4. /\ history' = [history EXCEPT ![h] = IF retry THEN "queued" ELSE "cancelled"]
      /\ requeued' = IF retry THEN [requeued EXCEPT ![h] = @ + 1] ELSE requeued
      /\ overrun' = IF history[h] # call.loaded THEN overrun \cup {h} ELSE overrun
      /\ mcpCall' = [mcpCall EXCEPT ![c] = next]
      /\ UNCHANGED <<mcpRow, places, acted, opened, down, retyped, failures>>
  BY DEF BulkCommits, McpGoes
<1> HIDE DEF next
<1>5. McpTyped'
  BY <1>2, <1>3, <1>4 DEF McpInv, McpTyped, Status
<1>6. LoadedFits'
  BY <1>3, <1>4 DEF McpInv, McpTyped, LoadedFits
<1>7. FailuresSpent'
  <2>1. retry /\ h \notin overrun' => history[h] = "failed"
    BY <1>4, <1>1 DEF McpInv, LoadedFits, BulkCommits
  <2>2. ASSUME NEW g \in HistoryRows, g \notin overrun'
        PROVE  requeued'[g] + (IF history'[g] = "failed" THEN 1 ELSE 0) <= failures'[g]
    <3>1. /\ requeued[g] \in Nat /\ failures[g] \in Nat
          /\ requeued[g] + (IF history[g] = "failed" THEN 1 ELSE 0) <= failures[g]
      BY <1>4, <2>2 DEF McpInv, McpTyped, FailuresSpent
    <3>2. CASE g # h
      BY <1>4, <3>1, <3>2 DEF McpInv, McpTyped
    <3>3. CASE g = h
      <4>1. history'[g] # "failed"
        BY <1>2, <1>4, <3>3 DEF McpInv, McpTyped
      <4>2. requeued'[g] = IF retry THEN requeued[g] + 1 ELSE requeued[g]
        BY <1>2, <1>4, <3>3 DEF McpInv, McpTyped
      <4> QED
        BY <1>4, <2>1, <2>2, <3>1, <3>3, <4>1, <4>2
    <3> QED
      BY <3>2, <3>3
  <2> QED
    BY <2>2 DEF FailuresSpent
<1>8. UnopenedIsUnstored' /\ OnlyReadsBeforeSettings' /\ SwitchedOffStaysOff' /\ TopicsStayTopics'
  BY <1>4 DEF McpInv, UnopenedIsUnstored, OnlyReadsBeforeSettings, SwitchedOffStaysOff,
    TopicsStayTopics
<1> QED
  BY <1>5, <1>6, <1>7, <1>8 DEF McpInv

LEMMA BulkEnqueuesStep ==
  ASSUME McpInv, NEW c \in McpCalls, BulkEnqueues(c) PROVE McpInv'
<1>1. mcpCall[c] \in EnqueueCall
  BY CallShapes DEF BulkEnqueues, McpInv
<1>2. \A after \in AfterEnqueue(mcpCall[c]) : after \in Call /\ after.at # "loaded"
  <2>1. Tail(mcpCall[c].given) \in Ids /\ mcpCall[c].tool \in BulkTools
    BY <1>1 DEF EnqueueCall, SomeIds, Ids
  <2>2. [at |-> mcpCall[c].tool, given |-> Tail(mcpCall[c].given)] \in BulkCall
    BY <2>1 DEF BulkCall
  <2>3. NoTool \in Call /\ NoTool.at # "loaded"
    BY DEF Call, NoTool
  <2>4. [at |-> mcpCall[c].tool, given |-> Tail(mcpCall[c].given)] \in Call
    BY <2>2 DEF Call
  <2>5. mcpCall[c].tool # "loaded"
    BY <2>1 DEF BulkTools
  <2>6. ASSUME NEW after \in AfterEnqueue(mcpCall[c])
        PROVE  after \in {NoTool, [at |-> mcpCall[c].tool, given |-> Tail(mcpCall[c].given)]}
    BY DEF AfterEnqueue
  <2>7. [at |-> mcpCall[c].tool, given |-> Tail(mcpCall[c].given)].at # "loaded"
    BY <2>5
  <2> QED
    BY <2>3, <2>4, <2>6, <2>7
<1> QED
  BY <1>2, PlainCallStep DEF BulkEnqueues

\* Endpoints write destinations while tools wait.
LEMMA EndpointStep ==
  ASSUME McpInv, NEW d \in Places,
         PlaceDeleted(d) \/ EndpointChecks(d) \/ \E active \in BOOLEAN : PlaceSwitched(d, active)
  PROVE  McpInv'
<1>1. places[d] \in Place
  BY DEF McpInv, McpTyped
<1>2. CASE PlaceDeleted(d)
  <2>1. Missing \in Place
    BY DEF Missing, Place
  <2> QED
    BY <1>2, <2>1, PlaceStep DEF PlaceDeleted
<1>3. CASE EndpointChecks(d)
  <2>1. CheckedKind(d) \in Place /\ CheckedKind(d).kind = "forum_topic"
    BY DEF CheckedKind, Place
  <2> QED
    BY <1>3, <2>1, PlaceStep DEF EndpointChecks
<1>4. ASSUME NEW active \in BOOLEAN, PlaceSwitched(d, active) PROVE McpInv'
  <2> DEFINE place == [places[d] EXCEPT !.active = active]
  <2>1. places' = [places EXCEPT ![d] = place] /\ place \in Place
    BY <1>1, <1>4 DEF PlaceSwitched, Place, McpInv, McpTyped
  <2>2. place.active = active /\ place.kind = places[d].kind
    BY <1>1 DEF Place
  <2>3. place = Missing \/ d \in retyped \/ place.kind = "forum_topic"
    BY <1>4, <2>2 DEF McpInv, TopicsStayTopics, PlaceSwitched
  <2> HIDE DEF place
  <2> QED
    BY <1>4, <2>1, <2>2, <2>3, PlaceStep DEF PlaceSwitched
<1> QED
  BY <1>2, <1>3, <1>4

\* The worker takes rows and settles them; a failure is counted as it happens.
LEMMA WorkerStep ==
  ASSUME McpInv, NEW h \in HistoryRows,
         WorkerTakes(h) \/ \E s \in {"failed", "success"} : WorkerSettles(h, s)
  PROVE  McpInv'
<1>1. /\ \E s \in {"sending", "failed", "success"} :
           /\ history' = [history EXCEPT ![h] = s]
           /\ failures' = IF s = "failed" THEN [failures EXCEPT ![h] = @ + 1] ELSE failures
      /\ history[h] # "failed"
      /\ UNCHANGED <<mcpRow, places, mcpCall, acted, opened, down, retyped, requeued, overrun>>
  BY DEF WorkerTakes, WorkerSettles
<1>2. McpTyped'
  BY <1>1 DEF McpInv, McpTyped, Status
<1>3. FailuresSpent'
  <2> SUFFICES ASSUME NEW g \in HistoryRows, g \notin overrun
               PROVE  requeued[g] + (IF history'[g] = "failed" THEN 1 ELSE 0) <= failures'[g]
    BY <1>1 DEF FailuresSpent
  <2>1. /\ requeued[g] \in Nat /\ failures[g] \in Nat
        /\ requeued[g] + (IF history[g] = "failed" THEN 1 ELSE 0) <= failures[g]
    BY DEF McpInv, McpTyped, FailuresSpent
  <2> QED
    BY <1>1, <2>1 DEF McpInv, McpTyped
<1>4. /\ UnopenedIsUnstored' /\ OnlyReadsBeforeSettings' /\ SwitchedOffStaysOff' /\ TopicsStayTopics'
      /\ LoadedFits'
  BY <1>1 DEF McpInv, UnopenedIsUnstored, OnlyReadsBeforeSettings, SwitchedOffStaysOff,
    TopicsStayTopics, LoadedFits
<1> QED
  BY <1>2, <1>3, <1>4 DEF McpInv

LEMMA McpStep == McpInv /\ [McpNext]_mcpVars => McpInv'
<1> SUFFICES ASSUME McpInv, [McpNext]_mcpVars PROVE McpInv'
  OBVIOUS
<1>1. CASE UNCHANGED mcpVars
  BY <1>1 DEF mcpVars, McpInv, McpTyped, UnopenedIsUnstored, OnlyReadsBeforeSettings,
    SwitchedOffStaysOff, TopicsStayTopics, LoadedFits, FailuresSpent
<1>2. ASSUME NEW c \in McpCalls, NEW t \in BulkTools, NEW ids \in Bulks, CallTool(c, t, ids)
      PROVE  McpInv'
  <2>1. ids \in Ids
    BY SMTT(20) DEF Bulks, Ids
  <2> QED
    BY <1>2, <2>1, CallToolStep
<1>3. ASSUME NEW c \in McpCalls, NEW t \in Lone, NEW d \in Places, CallTool(c, t, d)
      PROVE  McpInv'
  BY <1>3, CallToolStep
<1> QED
  BY <1>1, <1>2, <1>3, SettingsStep, CheckBeginsStep, CheckWritesStep, FromUpdateStep, BulkLoadsStep,
    BulkCommitsStep, BulkEnqueuesStep, EndpointStep, WorkerStep
  DEF McpNext, Lone, BulkTools

-----------------------------------------------------------------------------

\* The invariant holds in every behaviour.
THEOREM McpInvariant == McpSpec => []McpInv
<1> QED
  BY McpInitHolds, McpStep, PTL DEF McpSpec

\* Before anybody has looked at the settings only reading tools have passed
\* ensure_mcp_tool_enabled.
THEOREM OnlyReadersBefore == McpSpec => []OnlyReadsBeforeSettings
<1>1. McpInv => OnlyReadsBeforeSettings
  BY DEF McpInv
<1> QED
  BY <1>1, McpInvariant, PTL

\* A check under way (check_destination) does not undo an operator's switch.
THEOREM SwitchesLast == McpSpec => []SwitchedOffStaysOff
<1>1. McpInv => SwitchedOffStaysOff
  BY DEF McpInv
<1> QED
  BY <1>1, McpInvariant, PTL

\* Only the tool's check takes the kind of a topic away.
THEOREM TopicsLast == McpSpec => []TopicsStayTopics
<1>1. McpInv => TopicsStayTopics
  BY DEF McpInv
<1> QED
  BY <1>1, McpInvariant, PTL

\* Bulk calls that fail half way and are sent again (bulk_retry_sends) put a row back once
\* for each failure.
THEOREM RetriesAreSpent == McpSpec => []RequeuedOncePerFailure
<1>1. McpInv => RequeuedOncePerFailure
  BY DEF McpInv, McpTyped, FailuresSpent, RequeuedOncePerFailure
<1> QED
  BY <1>1, McpInvariant, PTL

\* What the writing tools may do is kept for any number of calls, destinations and rows.
THEOREM ToolsAreHeld == McpSpec => []ToolsExplained
<1> QED
  BY OnlyReadersBefore, SwitchesLast, TopicsLast, RetriesAreSpent, PTL DEF ToolsExplained

\* A destination is absent, or a topic or a group.
KindsAreReal == \A d \in Places : places[d] = Missing \/ places[d].kind \in {"forum_topic", "group"}

LEMMA KindsStep == McpInv /\ KindsAreReal /\ [McpNext]_mcpVars => KindsAreReal'
<1> SUFFICES ASSUME McpInv, KindsAreReal, [McpNext]_mcpVars PROVE KindsAreReal'
  OBVIOUS
<1>1. places \in [Places -> Place]
  BY DEF McpInv, McpTyped
<1>2. CASE UNCHANGED places
  BY <1>2 DEF KindsAreReal
<1>3. ASSUME NEW d, NEW row, places' = [places EXCEPT ![d] = row],
             row = Missing \/ row.kind \in {"forum_topic", "group"}
      PROVE  KindsAreReal'
  <2>1. \A e \in Places : places'[e] = IF e = d THEN row ELSE places[e]
    BY <1>1, <1>3
  <2> QED BY <1>3, <2>1 DEF KindsAreReal
<1>4. ASSUME NEW c \in McpCalls, CheckWrites(c), ~UNCHANGED places
      PROVE  KindsAreReal'
  <2> PICK d, loaded : /\ places[d] # Missing
                       /\ places' = [places EXCEPT ![d] = Written(places[d], loaded)]
    BY <1>4 DEF CheckWrites
  <2>1. CASE d \in Places
    <3>1. Written(places[d], loaded).kind \in {"forum_topic", "group"}
      BY <2>1 DEF Written, KindsAreReal
    <3> QED BY <1>3, <3>1
  <2>2. CASE d \notin Places
    BY <1>1, <1>2, <2>2
  <2> QED BY <2>1, <2>2
<1>5. ASSUME NEW d \in Places, NEW a \in BOOLEAN, PlaceSwitched(d, a)
      PROVE  KindsAreReal'
  <2>1. places[d] # Missing /\ places' = [places EXCEPT ![d] = [places[d] EXCEPT !.active = a]]
    BY <1>1, <1>5 DEF PlaceSwitched
  <2>2. [places[d] EXCEPT !.active = a].kind = places[d].kind
    BY <1>1 DEF Place
  <2> QED BY <1>3, <2>1, <2>2 DEF KindsAreReal
<1>6. ASSUME NEW c \in McpCalls, FromUpdate(c) PROVE KindsAreReal'
  BY <1>3, <1>6 DEF FromUpdate
<1>7. ASSUME NEW d \in Places, PlaceDeleted(d) \/ EndpointChecks(d) PROVE KindsAreReal'
  BY <1>3, <1>7 DEF PlaceDeleted, EndpointChecks, CheckedKind
<1> QED BY <1>2, <1>4, <1>5, <1>6, <1>7 DEF McpNext, mcpVars, SettingsShown, SettingsPatched, CallTool,
    CheckBegins, BulkLoads, BulkCommits, BulkEnqueues, WorkerTakes, WorkerSettles

\* The settings name tools that exist, and destinations and history rows are of their kinds,
\* whatever calls, endpoints and workers do at once.
THEOREM McpTypeCorrect == McpSpec => []McpTypeOK
<1>1. McpInv /\ KindsAreReal => McpTypeOK
  <2> SUFFICES ASSUME McpInv, KindsAreReal PROVE McpTypeOK
    OBVIOUS
  <2>1. McpTyped /\ UnopenedIsUnstored
    BY DEF McpInv
  <2>2. ASSUME NEW d \in Places
        PROVE  places[d] = Missing \/ places[d] \in [kind : {"forum_topic", "group"}, active : BOOLEAN]
    BY <2>1 DEF McpTyped, Place, KindsAreReal
  <2> QED BY <2>1, <2>2 DEF McpTyped, UnopenedIsUnstored, Status, McpTypeOK
<1>2. McpInit => KindsAreReal
  BY DEF McpInit, KindsAreReal
<1> QED BY <1>1, <1>2, KindsStep, McpInvariant, PTL DEF McpSpec

=============================================================================
