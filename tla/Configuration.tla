--------------------------- MODULE Configuration ---------------------------
(***************************************************************************)
(* How a process of the server comes by its configuration, and what the    *)
(* callers of its tools may do under it: config.Load with its defaults and *)
(* environment overrides, Config.Validate, authn.NewManager, oauth.New,    *)
(* and the checks that a tool call passes.                                 *)
(*                                                                         *)
(* Load is a sequence of steps, each of which reads what the earlier ones  *)
(* have left, so that their order matters; each is an action here.  The    *)
(* process then serves until it is started again with other settings.      *)
(*                                                                         *)
(* Settings are what the operator writes: a file, or none, and environment *)
(* variables.  A secret that is given by the name of a variable is what    *)
(* that variable holds, "" if it is not set.  Values that are only checked *)
(* by themselves (addresses, durations, limits, the form of secrets, the   *)
(* syntax of the file) are folded into two flags, sound and complete; so   *)
(* is what a start finds in the file of registered clients, in clients.    *)
(* A name, scope, token or DML operation keeps what is not treated alike   *)
(* everywhere: its case, and blanks around it.                             *)
(***************************************************************************)
EXTENDS Naturals, Sequences

CONSTANTS
  Strings,          \* names, scopes and secrets
  Settings,         \* what operators write
  Alternatives(_),  \* what the same installation may be started with later
  NoFile            \* no configuration file

-----------------------------------------------------------------------------
Scopes == {"read", "write", "ddl", "admin"}
Operations == {"insert", "update", "delete"}
Roles == {"writer", "ddl", "admin"}
Switches == {"unset", "on", "off", "odd"}

\* A name, scope, token or operation as written: plain, or with letters in
\* upper case, or with blanks around it.
Forms == {"plain", "upper", "padded"}
Written ==
  {w \in [text: Strings, form: Forms] : w.text = "" => w.form # "upper"}
Plain(t) == [text |-> t, form |-> "plain"]
Blank == Plain("")

\* strings.TrimSpace.
Trimmed(w) == IF w.form = "padded" THEN Plain(w.text) ELSE w

\* digest: the token that token_sha256 is the hash of, "" if it is not given.
Keys == [name: Written, token: Written, digest: Strings,
         scopes: SUBSET Written, connections: SUBSET Strings]
OAuths == [enabled: BOOLEAN, principal: Written, default: SUBSET Strings,
           base: SUBSET Strings]
Databases == [policies: SUBSET [text: Operations, form: Forms],
              ddl: {"unset", "on", "off"}, schemas: SUBSET Strings]

Environments ==
  [apiKey: Written, roles: [Roles -> Written], ddl: Switches, dml: Switches,
   oauth: Switches, principal: Written, default: SUBSET Strings,
   base: SUBSET Strings]

IsFile(f) ==
  /\ DOMAIN f = {"keys", "oauth", "connections"}
  /\ f.keys \in Seq(Keys)
  /\ f.oauth \in OAuths
  /\ \A c \in DOMAIN f.connections :
       c \in Strings /\ f.connections[c] \in Databases

\* sound: every value is valid by itself; complete: so is every value that
\* only OAuth needs; clients: the file of registered clients, if one is named
\* and exists, can be loaded; citation: the key that signs source URLs and
\* their TTL.
IsSettings(s) ==
  /\ DOMAIN s = {"file", "env", "sound", "complete", "clients", "citation"}
  /\ s.file = NoFile \/ IsFile(s.file)
  /\ s.env \in Environments
  /\ {s.sound, s.complete, s.clients} \subseteq BOOLEAN
  /\ s.citation \in [key: Strings, ttl: Nat \ {0}]

ASSUME StringsAssumption ==
  {"", "*", "default", "public"} \cup Roles \cup Scopes \subseteq Strings

ASSUME SettingsAssumption ==
  \A s \in Settings : IsSettings(s) /\ Alternatives(s) \subseteq Settings

VARIABLES
  stage,       \* how far the process has come
  settings,    \* what it was started with
  keys,        \* cfg.Auth.APIKeys
  oauth,       \* cfg.OAuth
  connections  \* cfg.Connections

configVars == <<stage, settings, keys, oauth, connections>>

Stages == {"read", "principals", "oauth", "defaults", "loaded", "accepted",
           "serving", "refused", "failed"}

env == settings.env

-----------------------------------------------------------------------------
(* config.Load.                                                            *)

NoOAuth == [enabled |-> FALSE, principal |-> Blank, default |-> {},
            base |-> {}]

\* envFallback: a reader with MCP_API_KEY, and one connection.
FallbackKeys(e) ==
  IF e.apiKey = Blank THEN << >>
  ELSE <<[name |-> Plain("default"), token |-> e.apiKey, digest |-> "",
          scopes |-> {Plain("read")}, connections |-> {"default"}]>>

\* defaultDMLPolicies.
DefaultPolicies == {Plain(op) : op \in Operations}

FallbackConnections ==
  [c \in {"default"} |-> [policies |-> DefaultPolicies, ddl |-> "on",
                          schemas |-> {"public"}]]

FileKeys(s) ==
  IF s.file = NoFile THEN FallbackKeys(s.env) ELSE s.file.keys
FileOAuth(s) == IF s.file = NoFile THEN NoOAuth ELSE s.file.oauth
FileConnections(s) ==
  IF s.file = NoFile THEN FallbackConnections ELSE s.file.connections

\* applyEnvironmentPrincipals: a role whose token is set becomes a key of its
\* own unless a key has its name, in whatever spelling.
HasName(ks, n) == \E i \in DOMAIN ks : ks[i].name.text = n

RoleScopes(r) == CASE r = "writer" -> {"read", "write"}
                   [] r = "ddl"    -> {"read", "write", "ddl"}
                   [] r = "admin"  -> Scopes

RoleKey(r) == [name |-> Plain(r), token |-> Trimmed(env.roles[r]),
               digest |-> "",
               scopes |-> {Plain(sc) : sc \in RoleScopes(r)},
               connections |-> {"*"}]

\* Defective variant: roles come before the keys that are there.
WithRoleFirst(ks, r) ==
  IF Trimmed(env.roles[r]) = Blank \/ HasName(ks, r) THEN ks
  ELSE <<RoleKey(r)>> \o ks

WithRole(ks, r) ==
  IF Trimmed(env.roles[r]) = Blank \/ HasName(ks, r) THEN ks
  ELSE Append(ks, RoleKey(r))

EnvironmentPrincipals ==
  /\ stage = "read"
  /\ stage' = "principals"
  /\ keys' = WithRole(WithRole(WithRole(keys, "writer"), "ddl"), "admin")
  /\ UNCHANGED <<settings, oauth, connections>>

\* applyOAuthDefaults: the environment first, then the file, then a default.
\* MCP_OAUTH_ENABLED counts only if it can be parsed.
Enabled == IF env.oauth \in {"on", "off"} THEN env.oauth = "on"
                                          ELSE oauth.enabled

Named(e, file) ==
  IF Trimmed(e.principal) # Blank THEN Trimmed(e.principal) ELSE file

\* Defective variant: the name of the first key of the file, as if the
\* principals of the environment came later.
FirstWritten ==
  IF FileKeys(settings) = << >> THEN Blank ELSE FileKeys(settings)[1].name

\* The principal if none is named.
FirstName == IF keys = << >> THEN Blank ELSE keys[1].name

\* A list of scopes: that of the variable, if it is set, replaces that of the
\* file; normalizeConfigList drops its blank entries.
Listed(variable, file) == IF variable # {} THEN variable \ {""} ELSE file

\* `read` if there is none; blank entries of the file are dropped after that.
ScopeList(variable, file) ==
  LET list == Listed(variable, file)
  IN  (IF list = {} THEN {"read"} ELSE list) \ {""}

OAuthDefaults ==
  /\ stage = "principals"
  /\ stage' = "oauth"
  /\ oauth' = [enabled   |-> Enabled,
               principal |-> LET named == Named(env, oauth.principal)
                             IN  IF named = Blank THEN FirstName ELSE named,
               default   |-> ScopeList(env.default, oauth.default),
               base      |-> ScopeList(env.base, oauth.base)]
  /\ UNCHANGED <<settings, keys, connections>>

\* applyDefaults for the connections: what is not written is allowed.
Defaulted(d) ==
  [d EXCEPT !.ddl = IF @ = "unset" THEN "on" ELSE @,
            !.policies = IF @ = {} THEN DefaultPolicies ELSE @,
            !.schemas = IF @ = {} THEN {"public"} ELSE @]

ConnectionDefaults ==
  /\ stage = "oauth"
  /\ stage' = "defaults"
  /\ connections' = [c \in DOMAIN connections |-> Defaulted(connections[c])]
  /\ UNCHANGED <<settings, keys, oauth>>

\* Defective variant: the defaults come after the switches.
SwitchedFirst(d) ==
  Defaulted([d EXCEPT !.ddl = IF env.ddl = "unset" THEN @ ELSE env.ddl,
                      !.policies = IF env.dml = "off" THEN {} ELSE @])

\* applyMutationEnvironment: MCP_DDL_ENABLED and MCP_DML_ENABLED, the last
\* word on every connection.
Switched(d) ==
  [d EXCEPT !.ddl = IF env.ddl = "unset" THEN @ ELSE env.ddl,
            !.policies = CASE env.dml = "off"             -> {}
                           [] env.dml = "on" /\ @ = {}    -> DefaultPolicies
                           [] OTHER                       -> @]

\* Defective variant: a switch that cannot be parsed is no error.
MutationEnvironmentLenient ==
  /\ stage = "defaults"
  /\ stage' = "loaded"
  /\ connections' = [c \in DOMAIN connections |-> Switched(connections[c])]
  /\ UNCHANGED <<settings, keys, oauth>>

MutationEnvironment ==
  /\ stage = "defaults"
  /\ IF "odd" \in {env.ddl, env.dml}
     THEN stage' = "refused" /\ UNCHANGED connections
     ELSE /\ stage' = "loaded"
          /\ connections' = [c \in DOMAIN connections |->
                               Switched(connections[c])]
  /\ UNCHANGED <<settings, keys, oauth>>

-----------------------------------------------------------------------------
(* Config.Validate and the constructors.                                   *)

\* containsFold: case and blanks do not matter.
Declares(k, sc) == \E w \in k.scopes : w.text = sc
DeclaresOrAdmin(k, sc) == Declares(k, sc) \/ Declares(k, "admin")

KeyValid(k) ==
  /\ k.name.text # ""
  /\ k.token.text # "" \/ k.digest # ""
  /\ k.scopes # {} /\ \A w \in k.scopes : w.text \in Scopes
  /\ k.connections # {}
  /\ k.connections \subseteq DOMAIN connections \cup {"*"}

\* Two tokens are told apart by token_sha256 only.
KeysValid ==
  /\ keys # << >>
  /\ \A i \in DOMAIN keys : KeyValid(keys[i])
  /\ \A i, j \in DOMAIN keys :
       \/ keys[i].name = keys[j].name
       \/ keys[i].digest = keys[j].digest /\ keys[i].digest # ""
       => i = j

\* Defective variant: the base scopes are not checked.
OAuthValidDefaults ==
  /\ settings.complete
  /\ \E i \in DOMAIN keys :
       /\ keys[i].name = oauth.principal
       /\ \A sc \in oauth.default : sc \in Scopes /\ DeclaresOrAdmin(keys[i], sc)

OAuthValid ==
  /\ settings.complete
  /\ \E i \in DOMAIN keys :
       /\ keys[i].name = oauth.principal
       /\ \A sc \in oauth.default \cup oauth.base :
            sc \in Scopes /\ DeclaresOrAdmin(keys[i], sc)

Valid ==
  /\ DOMAIN connections # {}
  /\ settings.sound
  /\ KeysValid
  /\ oauth.enabled => OAuthValid

Validate ==
  /\ stage = "loaded"
  /\ stage' = IF Valid THEN "accepted" ELSE "refused"
  /\ UNCHANGED <<settings, keys, oauth, connections>>

\* loadClients.
ClientsLoaded == settings.clients

\* authn.NewManager takes over every key; oauth.New looks its principal up
\* without the blanks around its name, and loads the registered clients.
Constructs ==
  oauth.enabled =>
    /\ \E i \in DOMAIN keys : keys[i].name = Trimmed(oauth.principal)
    /\ ClientsLoaded

Construct ==
  /\ stage = "accepted"
  /\ stage' = IF Constructs THEN "serving" ELSE "failed"
  /\ UNCHANGED <<settings, keys, oauth, connections>>

-----------------------------------------------------------------------------
(* A process, and the next one.                                            *)

Init ==
  /\ stage = "read"
  /\ settings \in Settings
  /\ keys = FileKeys(settings)
  /\ oauth = FileOAuth(settings)
  /\ connections = FileConnections(settings)

Restart(s) ==
  /\ stage \in {"serving", "refused", "failed"}
  /\ stage' = "read"
  /\ settings' = s
  /\ keys' = FileKeys(s)
  /\ oauth' = FileOAuth(s)
  /\ connections' = FileConnections(s)

LoadStep ==
  \/ EnvironmentPrincipals
  \/ OAuthDefaults
  \/ ConnectionDefaults
  \/ MutationEnvironment
  \/ Validate
  \/ Construct

Next == LoadStep \/ \E s \in Alternatives(settings) : Restart(s)

Spec == Init /\ [][Next]_configVars

-----------------------------------------------------------------------------
(* What the callers of a serving process may do.                           *)

KeyNamed(n) == keys[CHOOSE i \in DOMAIN keys : keys[i].name = n]

\* NewManager lowers the case of a scope but leaves the blanks.
Rights(k) == {w.text : w \in {v \in k.scopes : v.form # "padded"}}

\* Principal.HasScope and CanUseConnection.
Has(rights, sc) == "admin" \in rights \/ sc \in rights
CanUse(p, c) ==
  Has(p.rights, "admin") \/ "*" \in p.connections \/ c \in p.connections

\* validateScopes: what may be consented to for the OAuth principal.
Grantable(S) ==
  /\ S # {} /\ S \subseteq Scopes
  /\ \A sc \in S : Has(Rights(KeyNamed(oauth.principal)), sc)

\* The token whose hash NewManager keeps: with blanks, if it is written so.
Secret(k) == IF k.digest # "" THEN Plain(k.digest) ELSE k.token

\* Manager.AuthenticateHeader: the first key with the hash of a bearer token,
\* which has lost the blanks around it, is the caller's.
AuthenticateHeader(t, i) ==
  /\ Trimmed(t) # Blank
  /\ Secret(keys[i]) = Trimmed(t)
  /\ \A j \in DOMAIN keys : j < i => Secret(keys[j]) # Trimmed(t)

Authenticated == {i \in DOMAIN keys : AuthenticateHeader(Secret(keys[i]), i)}

\* The principals of requests: that of an API key, and that of an access
\* token, which has the scopes that were consented to and the connections of
\* the OAuth principal.
KeyCaller(k) == [rights |-> Rights(k), connections |-> k.connections]
TokenCaller(S) ==
  [rights |-> S, connections |-> KeyNamed(oauth.principal).connections]

Callers ==
  {KeyCaller(keys[i]) : i \in Authenticated} \cup
  {TokenCaller(S) : S \in {T \in SUBSET Scopes : oauth.enabled /\ Grantable(T)}}

ReadTools ==
  {"list_schemas", "list_tables", "describe_table", "sample_rows",
   "validate_sql", "execute_sql", "explain_sql", "refresh_schema_cache",
   "search", "fetch"}
Tools == ReadTools \cup {"list_connections", "validate_dml", "validate_ddl",
                         "execute_dml", "execute_ddl", "execute_script"}

\* Defective variant: a script is registered like DML.
RegisteredAsDML(tool) ==
  CASE tool \in ReadTools \cup {"list_connections"}  -> {"read"}
    [] tool \in {"validate_ddl", "execute_ddl"}      -> {"ddl"}
    [] OTHER                                         -> {"write"}

\* The scopes a tool is registered with ...
RegisteredScopes(tool) ==
  CASE tool \in ReadTools \cup {"list_connections"}  -> {"read"}
    [] tool \in {"validate_dml", "execute_dml"}      -> {"write"}
    [] tool \in {"validate_ddl", "execute_ddl"}      -> {"ddl"}
    [] tool = "execute_script"                       -> {"write", "ddl"}

\* ... and those its handler asks for.
RequiredScopes(tool) ==
  CASE tool = "list_connections"                     -> {}
    [] tool \in ReadTools                            -> {"read"}
    [] tool \in {"validate_dml", "execute_dml"}      -> {"write"}
    [] tool \in {"validate_ddl", "execute_ddl"}      -> {"ddl"}
    [] tool = "execute_script"                       -> {"write", "ddl"}

\* toolSecurityMeta: the scopes a tool advertises, or none.
Advertised(tool) ==
  IF /\ oauth.enabled
     /\ \A sc \in RegisteredScopes(tool) :
          DeclaresOrAdmin(KeyNamed(oauth.principal), sc)
  THEN RegisteredScopes(tool) ELSE {}

\* authorize, and the further checks of the handlers.
Authorized(p, tool, c) ==
  /\ \A sc \in RequiredScopes(tool) : Has(p.rights, sc)
  /\ c \in DOMAIN connections
  /\ CanUse(p, c)

\* DMLAllowed for some table, and DDLAllowed, as the guard applies them to
\* the statements of a tool.  An operation is found in upper case, but not
\* with blanks around it, which Validate overlooks.
Allows(d, op) ==
  IF op = "ddl" THEN d.ddl # "off"
  ELSE \E w \in d.policies : w.text = op /\ w.form # "padded"

StatementsOf(tool) ==
  CASE tool = "execute_dml"    -> Operations
    [] tool = "execute_ddl"    -> {"ddl"}
    [] tool = "execute_script" -> Operations \cup {"ddl"}
    [] OTHER                   -> {}

MayRun(p, tool, c, op) ==
  /\ op \in StatementsOf(tool)
  /\ Authorized(p, tool, c)
  /\ Allows(connections[c], op)

-----------------------------------------------------------------------------
TypeOK ==
  /\ stage \in Stages
  /\ IsSettings(settings)
  /\ keys \in Seq(Keys)
  /\ oauth \in OAuths
  /\ \A c \in DOMAIN connections :
       c \in Strings /\ connections[c] \in Databases

\* What the operator has written about changes of the database through c.
PolicyFor(c, op) ==
  {w \in FileConnections(settings)[c].policies : w.text = op}

PaddedOnly(c, op) ==
  /\ PolicyFor(c, op) # {}
  /\ \A w \in PolicyFor(c, op) : w.form = "padded"

Permitted(c, op) ==
  LET written == FileConnections(settings)[c]
  IN  IF op = "ddl"
      THEN env.ddl = "on" \/ (env.ddl = "unset" /\ written.ddl # "off")
      ELSE env.dml # "off" /\ (written.policies = {} \/ PolicyFor(c, op) # {})

\* MCP_DDL_ENABLED and MCP_DML_ENABLED have the last word over the file and
\* the defaults, for every caller, scope admin included; and what nobody has
\* forbidden an admin may do, unless the operation is written with blanks
\* around it (README.md:83, 85-90; config.go:316-383, 754, 838-850).
SwitchesPrevail ==
  stage = "serving" =>
    \A c \in DOMAIN connections, op \in Operations \cup {"ddl"} :
      \A p \in Callers :
        /\ (\E tool \in Tools : MayRun(p, tool, c, op)) => Permitted(c, op)
        /\ Permitted(c, op) /\ Has(p.rights, "admin")
             => \/ MayRun(p, "execute_script", c, op)
                \/ PaddedOnly(c, op)

-----------------------------------------------------------------------------
(* What a start comes to, by what is written alone: the file or what       *)
(* stands for it, and the variables.                                       *)

RoleDeclared(n) ==
  /\ n \in Roles /\ Trimmed(env.roles[n]) # Blank
  /\ ~HasName(FileKeys(settings), n)

NoKey == FileKeys(settings) = << >> /\ ~\E r \in Roles : RoleDeclared(r)

\* What is wrong with one key is as Validate has it.
WrongKey == \E i \in DOMAIN FileKeys(settings) : ~KeyValid(FileKeys(settings)[i])

SameKey ==
  LET written == FileKeys(settings)
  IN  \E i, j \in DOMAIN written :
        /\ i # j
        /\ \/ written[i].name = written[j].name
           \/ written[i].digest = written[j].digest /\ written[i].digest # ""

WantsOAuth ==
  env.oauth = "on" \/ (env.oauth # "off" /\ FileOAuth(settings).enabled)

WrittenPrincipal == Named(env, FileOAuth(settings).principal)

\* The keys OAuth clients may be meant to act for: those that have the name
\* which is written; if none is, the first of the file, or without one the
\* role of the fewest rights.
Meant ==
  LET written  == FileKeys(settings)
      declared == {r \in Roles : RoleDeclared(r)}
  IN  CASE WrittenPrincipal # Blank ->
             {k \in {written[i] : i \in DOMAIN written} \cup
                    {RoleKey(r) : r \in declared} : k.name = WrittenPrincipal}
        [] WrittenPrincipal = Blank /\ written # << >> -> {written[1]}
        [] OTHER ->
             {RoleKey(r) : r \in {q \in declared : \A p \in declared :
                                    RoleScopes(q) \subseteq RoleScopes(p)}}

\* The two lists of scopes, as they are written: {} if one is not.
WrittenLists == {Listed(env.default, FileOAuth(settings).default),
                 Listed(env.base, FileOAuth(settings).base)}

\* A scope that is written is none, or one that the principal has not.
AsksTooMuch ==
  \E k \in Meant, list \in WrittenLists : \E sc \in list \ {""} :
    sc \notin Scopes \/ ~DeclaresOrAdmin(k, sc)

\* A list of scopes that is not written means `read`, which a key of the file
\* may not have: the one thing that is refused though nobody asked for it.
LacksDefault ==
  /\ {} \in WrittenLists
  /\ \E i \in DOMAIN FileKeys(settings) :
       /\ FileKeys(settings)[i] \in Meant
       /\ ~DeclaresOrAdmin(FileKeys(settings)[i], "read")

WrongOAuth ==
  \/ ~settings.complete
  \/ Meant = {}
  \/ AsksTooMuch
  \/ LacksDefault

\* Reasons for config.Load to fail ...
Refusable ==
  \/ ~settings.sound
  \/ DOMAIN FileConnections(settings) = {}
  \/ "odd" \in {env.ddl, env.dml}
  \/ NoKey \/ WrongKey \/ SameKey
  \/ WantsOAuth /\ WrongOAuth

\* ... and for the constructors: what they cannot find is the name of the
\* principal without the blanks around it, or what they cannot read is the
\* file of registered clients.
Unconstructible ==
  /\ WantsOAuth
  /\ \/ ~settings.clients
     \/ \E k \in Meant :
          /\ k.name.form = "padded"
          /\ \A i \in DOMAIN FileKeys(settings) :
               FileKeys(settings)[i].name # Trimmed(k.name)

\* Whether a start fails can be told from what is written, before Load has
\* put anything together.  Only keys of the file can be wrong or the same: the
\* key of a role is neither, and is as good a principal as one of the file.
\* Of what Load fills in nothing is refused but the scope `read`.  And of what
\* Load accepts the constructors refuse two things, which it does not look at
\* (config.go:158-216, 399-407, 440-508, 528-716; authn.go:38-73;
\* oauth.go:88-138, 783-806).
StartsUnlessReason ==
  /\ stage = "refused" => Refusable
  /\ stage \in {"accepted", "serving", "failed"} => ~Refusable
  /\ stage = "failed" => Unconstructible
  /\ stage = "serving" => ~Unconstructible

\* The token of a key of the file, if it has no blanks around it, is that of
\* this key or of an earlier one of the file, whatever roles are declared in
\* the environment; that of a role, which may, has no rights the role has not,
\* unless the file has the token too (config.go:399-407, 495-508, 671-717;
\* authn.go:38-92).
TokensAnswered ==
  LET written == FileKeys(settings)
  IN  stage = "serving" =>
        /\ \A i \in DOMAIN written :
             \/ Secret(written[i]).form = "padded"
             \/ \E j \in DOMAIN written :
                  j <= i /\ AuthenticateHeader(Secret(written[i]), j)
        /\ \A r \in Roles : RoleDeclared(r) =>
             \E i \in DOMAIN keys :
               /\ AuthenticateHeader(env.roles[r], i)
               /\ i \in DOMAIN written \/ Rights(keys[i]) \subseteq RoleScopes(r)

\* Some scope of the OAuth principal is written with blanks around it, which
\* Validate and toolSecurityMeta overlook and NewManager does not.
PaddedScope ==
  \E w \in KeyNamed(oauth.principal).scopes : w.form = "padded"

\* A client that asks for no scopes gets those of the configuration: the
\* principal has all of them, unless it has a padded scope or the scope lists
\* hold nothing but blanks (oauth.go:448-466, 696-713; config.go:643-656).
DefaultConsentWorks ==
  stage = "serving" /\ oauth.enabled =>
    \/ Grantable(oauth.default \cup oauth.base)
    \/ PaddedScope
    \/ oauth.default \cup oauth.base = {}

\* The scopes a tool advertises can be consented to, and with a token that
\* has no others the tool can be called on the connections of the principal,
\* unless it has a padded scope (server.go:127-170, 958-974).
AdvertisedWork ==
  stage = "serving" /\ oauth.enabled =>
    \A tool \in Tools : Advertised(tool) # {} =>
      \/ /\ Grantable(Advertised(tool))
         /\ \A c \in DOMAIN connections :
              CanUse(TokenCaller({}), c)
              => Authorized(TokenCaller(Advertised(tool)), tool, c)
      \/ PaddedScope
=============================================================================
