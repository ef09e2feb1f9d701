----------------------------- MODULE ApiAccess -----------------------------
(* Which requests reach a handler.  On a protected host a request needs an  *)
(* API token with the scope of its route; on any other host the routes of   *)
(* the API need the administrator's session (AdminAuth).  Tokens are rows:  *)
(* made, read by their hash, marked as used, revoked, never deleted.        *)
EXTENDS Naturals, FiniteSets, Sequences

CONSTANTS Requests, AskedAreas, Grants, MaxTokens, MaxArrivals

VARIABLES
  tokens,    \* the table of API tokens
  reqs,      \* requests under way: where each stands and what it carries
  jar,       \* the token in the browser's cookie
  signedIn,  \* whether the browser's admin session is live
  arrivals      \* requests so far

accessVars == <<tokens, reqs, jar, signedIn, arrivals>>

NoToken == 0
AllScopes == {"read", "send", "mcp_admin", "tg_compat", "ops_admin"}
Areas == {"index", "session", "admin", "health", "bot", "mcp", "send", "tokens", "config",
          "mcp_settings", "other"}
ASSUME AskedAreasAssumption == AskedAreas \subseteq Areas

Idle == [at |-> "idle"]

AccessInit ==
  /\ tokens = <<>>
  /\ reqs = [q \in Requests |-> Idle]
  /\ jar = NoToken /\ signedIn = FALSE /\ arrivals = 0

-----------------------------------------------------------------------------
\* The routes.

\* The first prefix that fits decides.
ScopeForPath(area, write) ==
  CASE area = "bot"                 -> "tg_compat"
    [] area \in {"mcp", "tokens", "mcp_settings"} -> "mcp_admin"
    [] area = "send"                -> "send"
    [] area = "config" /\ write     -> "ops_admin"
    [] ~write                       -> "read"
    [] OTHER                        -> "mcp_admin"

RequiredScope(r) ==
  IF r.guarded /\ r.area \notin {"index", "session"} THEN ScopeForPath(r.area, r.write) ELSE "none"

RequiresAdminSession(r) ==
  r.area \notin {"index", "mcp", "bot", "admin", "session", "health", "mcp_settings"} /\ ~r.guarded

\* One of the two is enough; a listed name may begin or end with a *.
IsProtectedHost(host, origin) == "protected" \in {host, origin}

ExtractToken(header) == IF header # NoToken THEN header ELSE jar

-----------------------------------------------------------------------------
\* A request on its way through the two middlewares.

Arrives(q, area, write, host, origin, header) ==
  /\ reqs[q] = Idle /\ arrivals < MaxArrivals
  /\ arrivals' = arrivals + 1
  /\ reqs' = [reqs EXCEPT ![q] =
       [at |-> "token", area |-> area, write |-> write,
        guarded |-> IsProtectedHost(host, origin),
        token |-> ExtractToken(header),
        dead |-> {t \in DOMAIN tokens : ~tokens[t].active}]]
  /\ UNCHANGED <<tokens, jar, signedIn>>

At(q, place) == reqs' = [reqs EXCEPT ![q].at = place]

ScopesOf(t) == IF tokens[t].scopes = {} THEN AllScopes ELSE tokens[t].scopes

\* Mutant: a revoked token still counts.
AdmitsByHash(t, needed) == needed \in ScopesOf(t)

TokenAdmits(t, needed) == tokens[t].active /\ needed \in ScopesOf(t)

\* No token, an unknown or revoked one: 401.  Without the scope: 403.
TokenIsRead(q) ==
  LET r == reqs[q]  needed == RequiredScope(r) IN
  /\ r.at = "token"
  /\ At(q, IF needed = "none" THEN "session"
           ELSE IF r.token = NoToken THEN "refused"
           ELSE IF TokenAdmits(r.token, needed) THEN "mark"
           ELSE "refused")
  /\ UNCHANGED <<tokens, jar, signedIn, arrivals>>

\* Writes the columns it changes; another transaction may have come between.
MarkUsed(t) == [tokens EXCEPT ![t].used = TRUE]

TokenIsMarked(q) ==
  /\ reqs[q].at = "mark"
  /\ tokens' = MarkUsed(reqs[q].token)
  /\ At(q, "session")
  /\ UNCHANGED <<jar, signedIn, arrivals>>

SessionIsChecked(q) ==
  /\ reqs[q].at = "session"
  /\ At(q, IF RequiresAdminSession(reqs[q]) /\ ~signedIn THEN "refused" ELSE "handler")
  /\ UNCHANGED <<tokens, jar, signedIn, arrivals>>

-----------------------------------------------------------------------------
\* The handlers that change tokens, and every other one.

InHandler(q, area) == reqs[q].at = "handler" /\ reqs[q].area = area

NormalizedScopes(wanted) == IF wanted = {} THEN AllScopes ELSE wanted \cap AllScopes

CreateToken(q, wanted) ==
  /\ InHandler(q, "tokens") /\ reqs[q].write /\ Len(tokens) < MaxTokens
  /\ tokens' = Append(tokens, [scopes |-> NormalizedScopes(wanted), active |-> TRUE, used |-> FALSE])
  /\ At(q, "done")
  /\ UNCHANGED <<jar, signedIn, arrivals>>

Revoked(t) == [tokens EXCEPT ![t].active = FALSE]

RevokeToken(q, t) ==
  /\ InHandler(q, "tokens") /\ reqs[q].write
  /\ tokens' = Revoked(t) /\ jar' = NoToken
  /\ At(q, "done")
  /\ UNCHANGED <<signedIn, arrivals>>

\* The token of the body goes into the cookie.
CreateTokenSession(q, t) ==
  /\ InHandler(q, "session")
  /\ IF t \in DOMAIN tokens /\ tokens[t].active
     THEN tokens' = MarkUsed(t) /\ jar' = t ELSE UNCHANGED <<tokens, jar>>
  /\ At(q, "done")
  /\ UNCHANGED <<signedIn, arrivals>>

\* The tools of the MCP server change tokens too, without the cookie.
McpCreateToken(q, wanted) ==
  /\ InHandler(q, "mcp") /\ Len(tokens) < MaxTokens
  /\ tokens' = Append(tokens, [scopes |-> NormalizedScopes(wanted), active |-> TRUE, used |-> FALSE])
  /\ At(q, "done")
  /\ UNCHANGED <<jar, signedIn, arrivals>>

McpRevokeToken(q, t) ==
  /\ InHandler(q, "mcp")
  /\ tokens' = Revoked(t)
  /\ At(q, "done")
  /\ UNCHANGED <<jar, signedIn, arrivals>>

Leaves(q) ==
  /\ \/ reqs[q].at \in {"refused", "done"}
     \/ reqs[q].at = "handler" /\ reqs[q].area \notin {"tokens", "session", "mcp"}
     \/ reqs[q].at = "handler" /\ reqs[q].area = "tokens" /\ ~reqs[q].write
  /\ reqs' = [reqs EXCEPT ![q] = Idle]
  /\ UNCHANGED <<tokens, jar, signedIn, arrivals>>

AdminComesOrGoes ==
  /\ signedIn' = ~signedIn
  /\ UNCHANGED <<tokens, reqs, jar, arrivals>>

AccessNext ==
  \/ \E q \in Requests :
       \/ \E area \in AskedAreas, write \in BOOLEAN, host, origin \in {"protected", "other"},
            header \in {NoToken} \cup DOMAIN tokens :
            Arrives(q, area, write, host, origin, header)
       \/ TokenIsRead(q) \/ TokenIsMarked(q) \/ SessionIsChecked(q)
       \/ \E wanted \in Grants : CreateToken(q, wanted) \/ McpCreateToken(q, wanted)
       \/ \E t \in DOMAIN tokens :
            RevokeToken(q, t) \/ McpRevokeToken(q, t) \/ CreateTokenSession(q, t)
       \/ Leaves(q)
  \/ AdminComesOrGoes

AccessSpec == AccessInit /\ [][AccessNext]_accessVars

-----------------------------------------------------------------------------
\* Type invariant of the token table and the requests.
AccessTypeOK ==
  /\ \A t \in DOMAIN tokens :
       tokens[t].scopes \subseteq AllScopes /\ {tokens[t].active, tokens[t].used} \subseteq BOOLEAN
  /\ jar \in 0..Len(tokens)
  /\ \A q \in Requests : reqs[q] # Idle => reqs[q].token \in 0..Len(tokens)

\* A request that arrives on a protected host after its token was revoked reaches no
\* handler that asks for a scope; one already on its way may
\* (ProtectedHostAuthMiddleware.dispatch reads the token once).
RevokedTokensOpenNothing ==
  \A q \in Requests :
    reqs[q].at \in {"handler", "done"} /\ RequiredScope(reqs[q]) # "none"
      => reqs[q].token # NoToken /\ reqs[q].token \notin reqs[q].dead

\* A token once revoked is not active again, though requests that read it before are
\* still to write that they used it (ApiTokenRepository.mark_used).
RevokedForGood ==
  [][\A t \in DOMAIN tokens : ~tokens[t].active => ~tokens'[t].active]_accessVars

\* On a protected host a token that may only read reaches no handler that writes, in
\* whatever area, but that of its own session.
ReadersDoNotWrite ==
  \A q \in Requests :
    reqs[q].at \in {"handler", "done"} /\ reqs[q].guarded /\ reqs[q].write
      /\ reqs[q].area \notin {"index", "session"}
      => reqs[q].token # NoToken /\ tokens[reqs[q].token].scopes # {"read"}

\* What the middleware promises on protected hosts, with requests that wait between their
\* looks at the token: no revoked token opens a scoped area, no reading token a write.
GatesHold ==
  /\ RevokedTokensOpenNothing
  /\ ReadersDoNotWrite
=============================================================================
