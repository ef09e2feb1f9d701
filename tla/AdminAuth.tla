----------------------------- MODULE AdminAuth -----------------------------
(* Sign-in of the administrator.  The API keeps one record in a file: name, *)
(* password, the secret and version its sessions are signed with, passkeys. *)
(* A session is a signed cookie; the server keeps no list of them.          *)
(* Passkey challenges are kept in the memory of the API process.  No        *)
(* handler awaits between its checks and its write: each is one step.       *)
EXTENDS Naturals, FiniteSets

CONSTANTS Browsers, RpHosts, Passkeys, Counting, AdminNames, Passwords,
          SessionLife, ChallengeLife,
          MaxRotations, MaxCeremonies, MaxHour, MaxFileLosses

ASSUME CountingAssumption == Counting \subseteq Passkeys
ASSUME AdminAssumption ==
  "none" \notin RpHosts /\ {SessionLife, MaxCeremonies} \subseteq Nat /\ MaxRotations \in Nat

VARIABLES
  adminFile,    \* what the file holds
  adminCookie,  \* what each browser carries
  challenges,   \* of the API process
  ceremonies,   \* every challenge issued, as the browsers know it
  answers,      \* signed by authenticators; a browser may post one again
  signs,        \* the counter of each authenticator's passkey
  hour,
  rotations, fileLosses,
  served,       \* how often each challenge let somebody through
  removed       \* passkeys deleted, or cleared by a new start

adminVars == <<adminFile, adminCookie, challenges, ceremonies, answers, signs, hour,
               rotations, fileLosses, served, removed>>

NoRecord == [user |-> "none"]
NoCookie == [user |-> "none"]
Configured == adminFile # NoRecord

AdminInit ==
  /\ adminFile = NoRecord
  /\ adminCookie = [b \in Browsers |-> NoCookie]
  /\ challenges = {} /\ ceremonies = {} /\ answers = {}
  /\ signs = [k \in Passkeys |-> [host |-> "none", count |-> 0]]
  /\ hour = 0 /\ rotations = 0 /\ fileLosses = 0
  /\ served = [i \in 1..MaxCeremonies |-> 0]
  /\ removed = {}

-----------------------------------------------------------------------------
\* Sessions.

SessionToken(r) ==
  [user |-> r.user, version |-> r.version, secret |-> r.secret,
   until |-> hour + SessionLife, rotation |-> r.rotation]

\* The signature, the expiry, then name and version against the file of now.
Live(token) ==
  /\ token # NoCookie /\ Configured
  /\ token.secret = adminFile.secret
  /\ token.until >= hour
  /\ token.user = adminFile.user /\ token.version = adminFile.version

\* One file is written beside the other and takes its place.
WriteRecord(r) == adminFile' = r

HandsCookie(b, r) == adminCookie' = [adminCookie EXCEPT ![b] = SessionToken(r)]

LoginGranted(name, password) ==
  Configured /\ name = adminFile.user /\ password = adminFile.password

Login(b, name, password) ==
  /\ LoginGranted(name, password)
  /\ HandsCookie(b, adminFile)
  /\ UNCHANGED <<adminFile, challenges, ceremonies, answers, signs, hour, rotations,
                 fileLosses, served, removed>>

NewRecord(name, password) ==
  [user |-> name, password |-> password, version |-> 1,
   secret |-> rotations + 1, passkeys |-> {}, rotation |-> rotations + 1]

\* With the credentials of a new installation, whatever the file holds.
BootstrapRotate(b, name, password) ==
  /\ rotations < MaxRotations
  /\ LET r == NewRecord(name, password) IN  WriteRecord(r) /\ HandsCookie(b, r)
  /\ rotations' = rotations + 1
  /\ removed' = removed \cup (IF Configured THEN {p.id : p \in adminFile.passkeys} ELSE {})
  /\ UNCHANGED <<challenges, ceremonies, answers, signs, hour, fileLosses, served>>

\* Mutant: the version is not raised.
RenewedSameVersion(name, password) ==
  [adminFile EXCEPT !.user = name, !.password = password, !.rotation = rotations + 1]

\* The sessions of before end with the version they carry.
Renewed(name, password) ==
  [adminFile EXCEPT !.user = name, !.password = password,
                    !.version = @ + 1, !.rotation = rotations + 1]

ChangeCredentials(b, current, name, password) ==
  /\ rotations < MaxRotations
  /\ Live(adminCookie[b]) /\ current = adminFile.password
  /\ LET r == Renewed(name, password) IN WriteRecord(r) /\ HandsCookie(b, r)
  /\ rotations' = rotations + 1
  /\ UNCHANGED <<challenges, ceremonies, answers, signs, hour, fileLosses, served, removed>>

Logout(b) ==
  /\ adminCookie[b] # NoCookie
  /\ adminCookie' = [adminCookie EXCEPT ![b] = NoCookie]
  /\ UNCHANGED <<adminFile, challenges, ceremonies, answers, signs, hour, rotations,
                 fileLosses, served, removed>>

-----------------------------------------------------------------------------
\* Challenges.

Fresh(cs) == {c \in cs : c.until > hour}

IssueChallenge(kind, host, allowed) ==
  /\ Cardinality(ceremonies) < MaxCeremonies
  /\ LET c == [id |-> Cardinality(ceremonies) + 1, kind |-> kind, host |-> host,
               until |-> hour + ChallengeLife]
     IN  /\ challenges' = Fresh(challenges) \cup {c}
         /\ ceremonies' = ceremonies \cup {[id |-> c.id, kind |-> kind, host |-> host,
                                            allowed |-> allowed]}

\* Mutant: the challenge is read and left.
LeaveChallenge(id) == challenges' = Fresh(challenges)

\* Taken out whatever comes of it.
ConsumeChallenge(id) == challenges' = {c \in Fresh(challenges) : c.id # id}

Consumable(id, kind) == \E c \in Fresh(challenges) : c.id = id /\ c.kind = kind

PasskeysFor(host) ==
  IF Configured THEN {p \in adminFile.passkeys : p.host = host} ELSE {}

RegisterOptions(b, host) ==
  /\ Live(adminCookie[b])
  /\ IssueChallenge("register", host, {p.id : p \in PasskeysFor(host)})
  /\ UNCHANGED <<adminFile, adminCookie, answers, signs, hour, rotations, fileLosses,
                 served, removed>>

AuthOptions(host) ==
  /\ Configured /\ PasskeysFor(host) # {}
  /\ IssueChallenge("authenticate", host, {p.id : p \in PasskeysFor(host)})
  /\ UNCHANGED <<adminFile, adminCookie, answers, signs, hour, rotations, fileLosses,
                 served, removed>>

\* An authenticator makes a passkey once, and counts its signatures or never does.
AuthenticatorAnswers(c, k) ==
  /\ \A a \in answers : a.id # c.id
  /\ IF c.kind = "register" THEN signs[k].host = "none"
                            ELSE k \in c.allowed /\ signs[k].host = c.host
  /\ LET n == signs[k].count + (IF k \in Counting THEN 1 ELSE 0) IN
     /\ signs' = [signs EXCEPT ![k] = [host |-> c.host, count |-> n]]
     /\ answers' = answers \cup {[id |-> c.id, kind |-> c.kind, host |-> c.host,
                                  key |-> k, count |-> n]}
  /\ UNCHANGED <<adminFile, adminCookie, challenges, ceremonies, hour, rotations,
                 fileLosses, served, removed>>

-----------------------------------------------------------------------------
\* Passkeys.

Other(a) == {p \in adminFile.passkeys : ~(p.id = a.key /\ p.host = a.host)}

AddPasskey(a) ==
  WriteRecord([adminFile EXCEPT
    !.passkeys = Other(a) \cup {[id |-> a.key, host |-> a.host, count |-> a.count]}])

UpdateSignCount(a) ==
  WriteRecord([adminFile EXCEPT
    !.passkeys = Other(a) \cup {[id |-> a.key, host |-> a.host, count |-> a.count]}])

Serves(a) == served' = [served EXCEPT ![a.id] = @ + 1]

RegisterVerify(b, a) ==
  /\ a.kind = "register" /\ Live(adminCookie[b])
  /\ ConsumeChallenge(a.id)
  /\ IF Consumable(a.id, "register") THEN AddPasskey(a) /\ Serves(a)
                                     ELSE UNCHANGED <<adminFile, served>>
  /\ UNCHANGED <<adminCookie, ceremonies, answers, signs, hour, rotations, fileLosses, removed>>

\* Zero on both sides is an authenticator that does not count.
CountRises(p, a) == a.count > p.count \/ (a.count = 0 /\ p.count = 0)

Presented(p, a) == p.id = a.key

AuthVerify(b, a) ==
  /\ a.kind = "authenticate" /\ Configured
  /\ ConsumeChallenge(a.id)
  /\ IF /\ Consumable(a.id, "authenticate")
        /\ \E p \in PasskeysFor(a.host) : Presented(p, a) /\ CountRises(p, a)
     THEN UpdateSignCount(a) /\ HandsCookie(b, adminFile) /\ Serves(a)
     ELSE UNCHANGED <<adminFile, adminCookie, served>>
  /\ UNCHANGED <<ceremonies, answers, signs, hour, rotations, fileLosses, removed>>

DropPasskey(p) ==
  p \in adminFile.passkeys /\ WriteRecord([adminFile EXCEPT !.passkeys = @ \ {p}])

DeletePasskey(b, p) ==
  /\ Live(adminCookie[b]) /\ DropPasskey(p)
  /\ removed' = removed \cup {p.id}
  /\ UNCHANGED <<adminCookie, challenges, ceremonies, answers, signs, hour, rotations,
                 fileLosses, served>>

-----------------------------------------------------------------------------
\* Around it: time, a restart of the API, a file lost or unreadable.

HourPasses ==
  /\ hour < MaxHour /\ hour' = hour + 1
  /\ UNCHANGED <<adminFile, adminCookie, challenges, ceremonies, answers, signs, rotations,
                 fileLosses, served, removed>>

ApiRestarts ==
  /\ challenges # {} /\ challenges' = {}
  /\ UNCHANGED <<adminFile, adminCookie, ceremonies, answers, signs, hour, rotations,
                 fileLosses, served, removed>>

FileIsLost ==
  /\ fileLosses < MaxFileLosses /\ Configured
  /\ fileLosses' = fileLosses + 1
  /\ removed' = removed \cup {p.id : p \in adminFile.passkeys}
  /\ adminFile' = NoRecord
  /\ UNCHANGED <<adminCookie, challenges, ceremonies, answers, signs, hour, rotations, served>>

AdminNext ==
  \/ \E b \in Browsers, name \in AdminNames, password \in Passwords :
       \/ Login(b, name, password)
       \/ BootstrapRotate(b, name, password)
       \/ \E current \in Passwords : ChangeCredentials(b, current, name, password)
  \/ \E b \in Browsers :
       \/ Logout(b)
       \/ \E host \in RpHosts : RegisterOptions(b, host)
       \/ \E a \in answers : RegisterVerify(b, a) \/ AuthVerify(b, a)
       \/ \E host \in RpHosts : \E p \in PasskeysFor(host) : DeletePasskey(b, p)
  \/ \E host \in RpHosts : AuthOptions(host)
  \/ \E c \in ceremonies, k \in Passkeys : AuthenticatorAnswers(c, k)
  \/ HourPasses \/ ApiRestarts \/ FileIsLost

AdminSpec == AdminInit /\ [][AdminNext]_adminVars

-----------------------------------------------------------------------------
\* Type invariant of the record file, the cookies and the challenge store.
AdminTypeOK ==
  /\ adminFile # NoRecord =>
       /\ adminFile.user \in AdminNames /\ adminFile.password \in Passwords
       /\ adminFile.version \in 1..MaxRotations /\ adminFile.secret \in 1..MaxRotations
       /\ \A p, q \in adminFile.passkeys : p.id = q.id => p = q
  /\ \A b \in Browsers : adminCookie[b] = NoCookie \/ adminCookie[b].version \in 1..MaxRotations
  /\ \A c, d \in challenges : c.id = d.id => c = d
  /\ \A c \in challenges : c.id \in 1..Cardinality(ceremonies)

\* A session counts only while the credentials it was opened under are the ones in
\* force: after a change of password, a new start or a lost file, no cookie of
\* before is accepted, though names and versions come round again and no list of
\* sessions is kept (AdminAuthService.state_from_session_token).
SessionsEndWithTheirCredentials ==
  \A b \in Browsers : Live(adminCookie[b]) => adminCookie[b].rotation = adminFile.rotation

\* A challenge lets somebody through at most once, and only within its life, though
\* a browser may post the same signed answer again and the passkey may be one that
\* does not count (_consume_challenge).
ChallengesServeOnce == \A i \in 1..MaxCeremonies : served[i] <= 1

\* A passkey that was deleted does not come back: not by a registration posted twice,
\* not by a sign-in that was under way when it was deleted.
RemovedPasskeysStayAway ==
  Configured => \A p \in adminFile.passkeys : p.id \notin removed

\* What a signed answer of a passkey is good for, though browsers post it again after a
\* timeout: one success at most, and never to bring a deleted passkey back
\* (AdminAuthService, api/v1/auth.py).
PasskeyAnswersServeOnce ==
  /\ ChallengesServeOnce
  /\ RemovedPasskeysStayAway
=============================================================================
