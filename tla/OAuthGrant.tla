----------------------------- MODULE OAuthGrant -----------------------------
(***************************************************************************)
(* Authorization codes and tokens of oauth.Provider, across restarts with  *)
(* a changed configuration.                                                *)
(*                                                                         *)
(* authorize puts a code into Provider.codes under the mutex.  A token     *)
(* request takes it out under the mutex and checks it afterwards, without  *)
(* it: a code that fails a check is spent all the same.  The tokens for it *)
(* are issued later still, with a time of their own.  Tokens are signed    *)
(* and kept by nobody; they are judged by their claims, the clock and the  *)
(* configuration of the process that sees them.  Codes die with their      *)
(* process, tokens do not.                                                 *)
(*                                                                         *)
(* Time is counted in ticks, TicksPerSecond of them, because codes expire  *)
(* to the nanosecond and tokens by whole seconds.  Signatures, issuer,     *)
(* audience and the redirect are taken as right, except that an exchange   *)
(* may fail its redirect_uri or PKCE check; the signing key and the TTLs   *)
(* do not change; what scopes the client registered may restrict a request *)
(* further.                                                                *)
(***************************************************************************)
EXTENDS Naturals, FiniteSets

CONSTANTS
  Codes,           \* authorization codes, each the result of one randomToken
  Clients,         \* registered clients
  Requests,        \* authorization_code requests that may run together
  Scopes,          \* supportedScopes
  Connections,     \* configured connections
  Names,           \* names of API-key principals
  NoKey,           \* a name without an API key
  Configs,         \* configurations the process may be started with
  NoRecord,        \* a code that was not issued
  NoCode,          \* a request that has taken no code
  TicksPerSecond,
  CodeTTL, AccessTTL, RefreshTTL,  \* in ticks
  MaxTime,         \* bound: ticks
  MaxTokens        \* bound: tokens issued

Star == "*"

Keys == [scopes: SUBSET Scopes, conns: SUBSET (Connections \cup {Star})]

\* authorizationCode, with the time of the consent.
Records == [client: Clients, scopes: SUBSET Scopes, principal: Names,
            at: Nat, expires: Nat]

ASSUME ConstantsAssumption ==
  /\ "admin" \in Scopes
  /\ Star \notin Connections
  /\ NoKey \notin Keys
  /\ NoRecord \notin Records
  /\ NoCode \notin Codes
  /\ TicksPerSecond \in Nat \ {0}
  /\ {CodeTTL, AccessTTL, RefreshTTL} \subseteq Nat \ {0}

\* New refuses a configuration whose OAuth principal has no key.
ASSUME ConfigsAssumption ==
  \A f \in Configs : /\ f.principal \in Names
                     /\ f.keys \in [Names -> Keys \cup {NoKey}]
                     /\ f.keys[f.principal] # NoKey

VARIABLES
  now,        \* ticks since the start
  config,     \* configuration of the running process
  record,     \* record[c]: the authorizationCode stored under c
  codes,      \* the keys of Provider.codes
  taken,      \* taken[x]: what token request x took out of the map
  tokens,     \* claims of every token issued, with the grant and the moment
              \* they come from
  \* history, read by the properties only
  changed,    \* when the process was started
  responses   \* responses[c]: token responses that c was exchanged for

vars == <<now, config, record, codes, taken, tokens, changed, responses>>

-----------------------------------------------------------------------------
(* Principals.                                                             *)

HasScope(k, s) == "admin" \in k.scopes \/ s \in k.scopes
CanUseConnection(k, n) == HasScope(k, "admin") \/ {Star, n} \cap k.conns # {}

Known(name) == config.keys[name] # NoKey
Principal(name) == config.keys[name]

\* validateScopes.
ValidScopes(S, k) == S # {} /\ \A s \in S : HasScope(k, s)

-----------------------------------------------------------------------------
(* Tokens.                                                                 *)

TTL(type) == IF type = "access" THEN AccessTTL ELSE RefreshTTL

\* Defective variant: iat is taken from exp.
TokenFromExpiry(type, c, client, subject, S, conns) ==
  [type |-> type, grant |-> c, client |-> client, subject |-> subject,
   scopes |-> S, conns |-> conns, at |-> now + TTL(type),
   exp |-> (now + TTL(type)) \div TicksPerSecond]

\* iat, and exp, which signToken is given in whole seconds.
Token(type, c, client, subject, S, conns) ==
  [type |-> type, grant |-> c, client |-> client, subject |-> subject,
   scopes |-> S, conns |-> conns, at |-> now,
   exp |-> (now + TTL(type)) \div TicksPerSecond]

\* Defective variant: a token is good during the second of its exp, too.
UnexpiredInclusive(t) == t.exp >= now \div TicksPerSecond

Unexpired(t) == t.exp > now \div TicksPerSecond

\* verifyToken.
Verified(t, type) == t.type = type /\ Unexpired(t)

\* AuthenticateHeader: whether an access token is accepted, and as what.
Accepted(t) ==
  /\ Verified(t, "access")
  /\ Known(t.subject)
  /\ ValidScopes(t.scopes, Principal(t.subject))

\* The connections of the token that its principal may still use, and all of
\* them when that leaves none and the principal is not restricted.
Granted(t) ==
  LET base == Principal(t.subject)
      kept == {n \in t.conns : n = Star \/ CanUseConnection(base, n)}
  IN  [scopes |-> t.scopes,
       conns |-> IF kept = {} /\ Star \in base.conns THEN {Star} ELSE kept]

-----------------------------------------------------------------------------
Init ==
  /\ now       = 0
  /\ config    \in Configs
  /\ record    = [c \in Codes |-> NoRecord]
  /\ codes     = {}
  /\ taken     = [x \in Requests |-> [code |-> NoCode]]
  /\ tokens    = {}
  /\ changed   = 0
  /\ responses = [c \in Codes |-> 0]

Tick ==
  /\ now < MaxTime
  /\ now' = now + 1
  /\ UNCHANGED <<config, record, codes, taken, tokens, changed, responses>>

\* The process is restarted, with the same configuration or another.
Restart(f) ==
  /\ config' = f
  /\ changed' = now
  /\ codes' = {}
  /\ taken' = [x \in Requests |-> [code |-> NoCode]]
  /\ UNCHANGED <<now, record, tokens, responses>>

Expired(r) == r.expires < now

\* The user consents; expired codes leave the map on that occasion only.
Authorize(c, client, S) ==
  /\ record[c] = NoRecord
  /\ ValidScopes(S, Principal(config.principal))
  /\ record' = [record EXCEPT ![c] =
                  [client |-> client, scopes |-> S,
                   principal |-> config.principal, at |-> now,
                   expires |-> now + CodeTTL]]
  /\ codes' = {d \in codes : ~Expired(record[d])} \cup {c}
  /\ UNCHANGED <<now, config, taken, tokens, changed, responses>>

\* Defective variant: the code is read here and deleted after its checks.
TakeCopy(x, c, client) ==
  /\ taken[x].code = NoCode
  /\ c \in codes
  /\ taken' = [taken EXCEPT ![x] =
                 [code |-> c, client |-> client, step |-> "taken"]]
  /\ UNCHANGED <<now, config, record, codes, tokens, changed, responses>>

\* exchangeAuthorizationCode takes the code out of the map, for a client.  A
\* request for a code that is not there is refused and changes nothing.
Take(x, c, client) ==
  /\ taken[x].code = NoCode
  /\ c \in codes
  /\ codes' = codes \ {c}
  /\ taken' = [taken EXCEPT ![x] =
                 [code |-> c, client |-> client, step |-> "taken"]]
  /\ UNCHANGED <<now, config, record, tokens, changed, responses>>

\* Defective variant: any registered client may redeem the code.
GoodForAnyone(x) == ~Expired(record[taken[x].code])

Good(x) ==
  LET r == record[taken[x].code]
  IN  ~Expired(r) /\ r.client = taken[x].client

\* The code is checked, and its redirect_uri and code_verifier are right.
Accept(x) ==
  /\ taken[x].code # NoCode
  /\ taken[x].step = "taken"
  /\ Good(x)
  /\ taken' = [taken EXCEPT ![x].step = "checked"]
  /\ UNCHANGED <<now, config, record, codes, tokens, changed, responses>>

\* issueTokenResponse.
MayIssue(subject, S) == Known(subject) /\ ValidScopes(S, Principal(subject))

Issue(c, client, subject, S) ==
  /\ Cardinality(tokens) < MaxTokens
  /\ tokens' = tokens \cup
       {Token(type, c, client, subject, S, Principal(subject).conns) :
          type \in {"access", "refresh"}}

\* It reads the clock again: the code may have expired meanwhile.
Redeem(x) ==
  /\ taken[x].code # NoCode
  /\ taken[x].step = "checked"
  /\ LET c == taken[x].code
         r == record[c]
     IN  /\ MayIssue(r.principal, r.scopes)
         /\ Issue(c, taken[x].client, r.principal, r.scopes)
         /\ responses' = [responses EXCEPT ![c] = @ + 1]
  /\ taken' = [taken EXCEPT ![x] = [code |-> NoCode]]
  /\ UNCHANGED <<now, config, record, codes, changed>>

\* The code is not good, or the redirect_uri or code_verifier is wrong; or it
\* is for a principal that is not there any more or has lost the scopes.
Reject(x) ==
  /\ taken[x].code # NoCode
  /\ taken[x].step = "checked" =>
       LET r == record[taken[x].code] IN ~MayIssue(r.principal, r.scopes)
  /\ taken' = [taken EXCEPT ![x] = [code |-> NoCode]]
  /\ UNCHANGED <<now, config, record, codes, tokens, changed, responses>>

\* Defective variant: the connections are those of the refresh token.
RefreshAsIssued(t, client) ==
  /\ Verified(t, "refresh")
  /\ t.subject = config.principal
  /\ t.client = client
  /\ MayIssue(t.subject, t.scopes)
  /\ Cardinality(tokens) < MaxTokens
  /\ tokens' = tokens \cup
       {Token(type, t.grant, client, t.subject, t.scopes, t.conns) :
          type \in {"access", "refresh"}}
  /\ UNCHANGED <<now, config, record, codes, taken, changed, responses>>

\* exchangeRefreshToken; the token stays good for further ones.  That it was
\* verified a moment before the new ones are issued does not show in them.
Refresh(t, client) ==
  /\ Verified(t, "refresh")
  /\ t.subject = config.principal
  /\ t.client = client
  /\ MayIssue(t.subject, t.scopes)
  /\ Issue(t.grant, client, t.subject, t.scopes)
  /\ UNCHANGED <<now, config, record, codes, taken, changed, responses>>

Next ==
  \/ Tick
  \/ \E f \in Configs : Restart(f)
  \/ \E c \in Codes, client \in Clients :
       \/ \E S \in SUBSET Scopes : Authorize(c, client, S)
       \/ \E x \in Requests : Take(x, c, client)
  \/ \E x \in Requests : Accept(x) \/ Redeem(x) \/ Reject(x)
  \/ \E t \in tokens, client \in Clients : Refresh(t, client)

Spec == Init /\ [][Next]_vars

-----------------------------------------------------------------------------
Tokens == [type: {"access", "refresh"}, grant: Codes, client: Clients,
           subject: Names, scopes: SUBSET Scopes,
           conns: SUBSET (Connections \cup {Star}), at: Nat, exp: Nat]

TypeOK ==
  /\ now       \in Nat
  /\ config    \in Configs
  /\ record    \in [Codes -> Records \cup {NoRecord}]
  /\ codes     \subseteq {c \in Codes : record[c] # NoRecord}
  /\ taken     \in [Requests -> [code: {NoCode}] \cup
                      [code: {c \in Codes : record[c] # NoRecord},
                       client: Clients, step: {"taken", "checked"}]]
  /\ tokens    \subseteq Tokens
  /\ changed   \in Nat
  /\ responses \in [Codes -> Nat]
  /\ changed <= now
  /\ \A t \in tokens : t.at <= now

\* A code is exchanged for at most one token response, if it was presented and
\* checked within its lifetime, however many requests present it together
\* (oauth.go:542-548).
State(c) ==
  IF record[c] = NoRecord THEN "none"
  ELSE IF responses[c] > 0 THEN "redeemed"
  ELSE IF \E x \in Requests : taken[x].code = c /\ taken[x].step = "checked"
       THEN "accepted"
  ELSE IF c \in codes \/ \E x \in Requests : taken[x].code = c THEN "pending"
  ELSE "lapsed"

Promise == INSTANCE OneTimeGrant WITH
  Grants <- Codes,
  Lifetime <- CodeTTL,
  state <- [c \in Codes |-> State(c)],
  since <- [c \in Codes |-> IF record[c] = NoRecord THEN 0 ELSE record[c].at]

SingleUse == Promise!Spec

\* A token, however often refreshed, is for the client, the principal and the
\* scopes that one consent was given for (oauth.go:548, 574-578, 561).
WithinConsent ==
  \A t \in tokens :
    /\ record[t.grant] # NoRecord
    /\ t.client  = record[t.grant].client
    /\ t.subject = record[t.grant].principal
    /\ t.scopes  = record[t.grant].scopes
    /\ responses[t.grant] > 0

\* A token is good for its TTL, less than a second of which the rounding of
\* exp and of the clock may take away, and never longer (oauth.go:599, 760).
LifetimeKept ==
  \A t \in tokens :
    /\ Unexpired(t) => now < t.at + TTL(t.type)
    /\ now + TicksPerSecond <= t.at + TTL(t.type) => Unexpired(t)

Within(k, l) ==
  /\ \A s \in Scopes : HasScope(k, s) => HasScope(l, s)
  /\ \A n \in Connections : CanUseConnection(k, n) => CanUseConnection(l, n)

\* An access token may outlive the rights it was issued with, through the
\* claims it carries (oauth.go:650-657), but no longer than its TTL after the
\* restart that reduced them, whatever was refreshed meanwhile: from then on
\* every accepted token is within the rights its principal has now.
RightsFollowConfig ==
  now >= changed + AccessTTL =>
    \A t \in tokens :
      Accepted(t) => Within(Granted(t), Principal(t.subject))
=============================================================================
