# A TLA+ verification of postgres-mcp

`postgres-mcp` is a server for the Model Context Protocol (MCP) in Go. It gives
language models a set of tools on PostgreSQL databases: reading and explaining
SQL, describing tables, searching the catalog, and, where the configuration
allows it, DML, DDL and import scripts. It checks SQL before it runs it,
authenticates callers by API key or by its own OAuth provider, and records tool
calls in an audit log.

This directory models the parts of it in which order, concurrency, failure or
time matter, checks them with TLC on small instances, and proves the central
invariants with TLAPS for every value of the constants. Source positions are
relative to `src/`.

- [Inventory](#inventory)
- [Modules](#modules)
- [Runs](#runs)
- [Proofs](#proofs)
- [Findings](#findings)
- [What is not modelled](#what-is-not-modelled)
- [Plan](#plan)

## Inventory

One process serves HTTP (MCP tools, resources, OAuth endpoints, signed source
URLs, health). Each HTTP request runs on a goroutine of its own; they share the
objects below.

| Component | State | Operations | What is hard about it | What makes it correct |
|---|---|---|---|---|
| Schema cache, `internal/postgres/store.go:212-255, 355-373, 449-453, 509-522` | a map from table to description per connection, under an `RWMutex` | `DescribeTable`, invalidation after DDL and scripts, `refresh_schema_cache` | the catalog is read by four queries outside the lock, stored without looking again; commits, clearings and outside changes fall anywhere between | a description in the cache lacks no change it should show |
| Transactions and pool, `store.go:257-455, 623-707` | pgx pool, one session per connection, one context with the query timeout per call | read-only queries, DML, DDL, scripts, catalog queries | failures, deadlines and lost answers between any two steps; the rollback runs under the same, possibly expired, context | atomic, within row limits, connections go back clean, every call ends |
| OAuth client registrations, `internal/oauth/oauth.go:240-330, 785-835` | map in memory, JSON file | `register`, load at start | crash between the steps of a save, failed saves, two processes on one file | acknowledged registrations survive, the file stays readable |
| OAuth codes and tokens, `oauth.go:440-780` | map of codes under a mutex; tokens are stateless | `authorize`, `token` (two grants), `AuthenticateHeader` | concurrent exchanges of one code, clocks of two resolutions, restarts with another configuration | codes work once and in time, tokens stay within the consent and their lifetime, rights follow the configuration |
| HTTP gate, audit, shutdown, `cmd/postgres-mcp/main.go:60-160`, `internal/audit/audit.go`, `internal/mcpserver/server.go` | channel of slots, audit file, store | one request, signal, deferred calls | handlers still running while deferred calls close what they use | slots neither leak nor exceed the limit, nothing changes the database after the audit file is closed, the process ends |
| SQL guard, `internal/sqlguard` | none | `Validate`, `ValidateScript` | three scanners of the same text that must agree | what is executed is what was validated |
| Search, fetch, resources, `internal/mcpserver/server.go:573-812` | none of their own | listings and descriptions put together | the catalog changes between listing and describing | answers are complete, true and within limits |
| Signed source URLs, `server.go:813-884, 1072-1124` | none: a URL carries its expiry and a signature | sign, check, answer with a new URL | URLs outlive the process, clocks are compared in whole seconds, answers renew access | a URL is good for its time and its object, and lapses for good |
| Tool authorization, `server.go:105-170, 958-1023` | none | scopes of tools, connection choice, what a tool advertises | scopes are written down three times | what is advertised can be had and used, policies hold for everybody |
| API keys, `internal/authn` | read-only after start | `AuthenticateHeader`, `Principal`, `HasScope`, `CanUseConnection` | tokens shared by keys, given by hash or written with blanks | each token is that of whom the operator meant |
| Configuration, `internal/config` | read-only after start | fallback, environment, defaults, switches, validation | each step reads what the earlier ones left; three places compare names, each in its own way | whether a start fails is what the settings say, switches have the last word |
| Masking, version, health check client, deployment files | none | | nothing concurrent | |

How they interact: a tool handler passes the gate, is authenticated by API key
or OAuth token, checks scope and connection, asks the SQL guard, calls the
store, and writes an audit event. DDL and scripts invalidate the schema cache
of their connection. OAuth principals are API-key principals of the
configuration. At shutdown `main` waits for requests, then closes the store,
then the auditor.

`PROJECT.json` lists the components with their status and, under `hazards`, the
places where the code can go wrong in a way that a test would hardly reach,
each with the properties that would notice.

## Modules

Data is abstracted to what the properties tell apart: SQL to the number of rows
it affects, the description of a table to the versions of it that were read, a
token to its claims. Control is kept: each action is one step of the code that
other goroutines, processes or the database can observe, with its guards, early
returns and error paths. Operators marked *defective variant* are plausible
mistakes, each in front of the definition it would replace; no specification
uses them, and `PROJECT.json` says under `mutants` which property notices each.

**`SchemaCache`** (`internal/postgres/store.go`). `catalog` is PostgreSQL, one
version per table; `cache` is `database.cache`; `phase`, `table` and `desc` are
the program counter and the locals of a tool call. `Lookup`, `Query`,
`QueryFails` and `Store` are `DescribeTable`, `CommitDDL`, `CommitScript` and
`ClearCache` the tails of `ExecuteDDL` and `ExecuteScript`,
`RefreshSchemaCache` the tool of that name, `ChangeElsewhere` another client of
the database. The remaining variables are history, read by properties only. A
script without DDL statements does not clear the cache, nor does a commit whose
answer is lost: both are in the model because both are in the code.

**`StoreTx`** (same file) is everything that takes a pool connection. `kind`
says which operation a call is, `session` what is left on a connection
(transaction open, search path set), `expired` whether the deadline of the
call's context has passed, `orphan` whether a COMMIT is with the server that
nobody waits for. `Rollback` runs under the context of the call: if that has
expired, pgx closes the connection and the pool replaces it. **`AtomicWrite`**
is what callers are promised, and `StoreTx!AtomicWrites` states that `StoreTx`
implements it under the identity mapping of `size`, `effect` and `outcome`.

**`ClientStore`** (`internal/oauth/oauth.go`). `clients[p]` is the map in
memory of process `p`, `path` and `tmp` are names in the file system that stand
for a file with an identity and `content`. `Boot` is `loadClients`, `Register`
the handler up to the save, `OpenTmp`, `WriteTmp` and `Rename` the steps of
`saveClientsLocked`, `SaveFails` its error returns, `Stop` the end of the
process, anywhere. `Overlap` says whether a process may start before the last
one is gone.

**`OAuthGrant`** (`internal/oauth/oauth.go`, `internal/authn`). `codes` is
`Provider.codes`, `taken[x]` what a token request has taken out of the map and
is still to check, or has checked (`Accept`) and is to be answered for with a
reading of the clock of its own (`Redeem`), `tokens` all tokens ever issued (they are stateless: nobody
keeps them, anybody may present them), `config` the configuration of the
running process. `Restart` forgets `codes` and `taken`, keeps `tokens` and may
change `config`. **`OneTimeGrant`** is what a code is good for; `SingleUse`
states that `OAuthGrant` implements it, with `State(c)` and the time of consent
as the refinement mapping. `MCOAuthGrant` supplies four configurations, among
which rights shrink, are exchanged for an administrator's and change hands, and
declares requests and codes symmetric (they occur in no temporal formula but
`SingleUse`, which has no liveness part).

**`Lifecycle`** (`cmd/postgres-mcp/main.go`, `internal/audit`,
`internal/mcpserver/server.go`). `phase[r]` follows one HTTP request through
gate, authorization, store, audit and answer; `slots` is the length of the
channel; `main` is where `main` is: serving, in `Shutdown`, closing store and
auditor, returning. `Acquire`/`StoreRefuses` are what `pgxpool.Close` leaves
possible, `Kill` is the end of the process from outside.

**`SqlLexer`** (`internal/sqlguard`) is the only sequential one: `splitStatements`
(the build without cgo, which the Dockerfile makes), `stripSQLComments` and
`tokenize` are three finite automata over the same text. Because none of them
looks further than one rune ahead, they run in lockstep over a script that is
chosen rune by rune, and no bound on its length is needed. `whole` is a fourth
scan, of the script in one piece, which serves as the reference.

**`Search`** (`internal/mcpserver/server.go`) follows one `search` and then one
`fetch` of what it returned. `schemas` and `tables` are what is left of the two
loops, `results` is the slice they append to. `steady`, `seenAt`, `kept` and
`stale` are history: what has existed all the while, at some time, since the
fetch began, and what the cache was wrong about. `MCSearch`
has two schemas of one table each, the second of them configured twice.

**`Configuration`** (`internal/config`, `internal/authn`, `internal/oauth`,
`internal/mcpserver/server.go`). `settings` is what the operator writes, in a
file and in environment variables; `keys`, `oauth` and `connections` are the
fields of `Config`; `stage` is how far `main` has come. `EnvironmentPrincipals`,
`OAuthDefaults`, `ConnectionDefaults`, `MutationEnvironment` and `Validate` are
the calls `Load` makes, in its order, `Construct` is `authn.NewManager` and
`oauth.New`, `Restart` the next process. What callers of a serving process may
do is a function of these variables: `Callers` are the principals there can be,
of API keys (`AuthenticateHeader`) and of every consent an OAuth client can be
given (`Grantable`); `Authorized`, `MayRun` and `Advertised` are the checks of
the tool handlers and of the guard's policies. Names, scopes, tokens and DML
operations keep their case and the blanks around them, because `Validate`,
`NewManager`, `oauth.New`, `toolSecurityMeta` and `DMLAllowed` do not treat
these alike. `oauth.New` also loads the registered clients; whether it can is
`settings.clients`.

`StartsUnlessReason` compares two things that are written apart: what the steps
of `Load` and the constructors make of the settings, and a verdict on the
settings alone (`Refusable`, `Unconstructible`), which knows neither the list of
keys nor the principal and the scopes that `Load` puts together. A start is
refused if and only if the first applies, and what is accepted fails if and
only if the second does. The verdict asks of a principal or a scope list only
if it is written, with one exception that it names: where a list is not
written `Load` fills in `read`, and refuses the key that has not that scope
(`LacksDefault`). What makes a single key wrong is as `Validate` has it; that
only keys of the file can be wrong, and only they be the same, is not.

**`Sources`** (`internal/mcpserver/server.go`) extends it with the source URLs.
`urls` are those that were ever signed (nobody takes them back), `inflight` the
objects that are being described for an answer. `Ask` is a request with a
right of its own, `Follow` one with a signature and nothing else, `Answer` signs
a new URL; `Replace` is a restart, which ends what is in flight and leaves the
URLs in the world. `granted` is history. `MCSources` supplies the settings: one
family for each topic of `Configuration`, started and served for themselves,
and one installation that is restarted with another key, TTL, list of schemas
or with nobody who may read.

**`*Proofs`** hold the theorems about the module they are named after;
`SourcesProofs` has those about `Configuration` as well, which `Sources` extends.

`SchemaCache` and `StoreTx` share code but not state: the first abstracts a
transaction to its commit, the second has no cache. **`CachedDescriptions`** is
what is left of the cache for those who only see its entries: each is a
description its table has had, however old, and may go at any time.
`SchemaCache` is proved to implement it, with the columns, one part of a
description, for the whole (`ColumnsOf`): the four parts together may never
have been true at one time. `Search` takes the cache to be of this kind and is
proved to keep it so with what it stores itself. `Lifecycle` abstracts a call of the store to
one phase that holds a connection, which `StoreTx!EveryCallAnswered` shows to
end. `Sources` runs on `Configuration` as it is, and `ConfigurationKept` states
that nothing is lost by it. So no module assumes of another what that other
does not establish.

## Runs

| Run | Instance | What it shows |
|---|---|---|
| `schema_cache` | 2 tables, 2 calls, one change of each table | a cached description is stale only for reasons accounted for; the window between a commit and the clearing closes |
| `schema_cache_stale` | 1 table, 2 calls | a description read before a DDL commit is stored after the clearing, and stays (finding) |
| `store_tx` | 2 calls of any kind, 2 connections, every failure | atomicity, row limits, clean connections; every call ends by its deadline whatever the database does |
| `client_store` | 3 successive processes, 3 clients | acknowledged registrations survive kills and failed saves |
| `client_store_overlap` | 2 processes at once | one overwrites the other's registrations (finding) |
| `oauth_grant` | 2 codes, 2 clients, 2 concurrent exchanges, 4 ticks of half a second, 4 configurations | codes work once and are accepted in time; tokens stay within consent, lifetime and, one TTL after a restart, configuration |
| `lifecycle` | 3 requests, 2 slots | slots, order of closing, audit trail, termination |
| `lifecycle_audit` | 2 requests, the audit file may fail | a call whose event was lost is answered (finding) |
| `sql_lexer` | scripts of any length, at most 2 statements | the three scanners agree unless quotes are odd |
| `sql_lexer_odd` | the same | an empty literal makes a comment executable (finding) |
| `search` | 3 visits of 2 schemas, 2 tables, 2 columns, limit 3, 2 changes | searches are complete and sound, what was found can be fetched |
| `sources` | some 900 settings; 3 objects, 2 URLs, 4 ticks of half a second, 12 starts of one installation | whether a start fails is what the settings say, switches prevail, tokens answer to their keys, default and advertised scopes work; URLs are good for their time and object, and lapse |

**Bounds.** Two calls are enough for every race between a reader and a writer,
and between two writers; a third is needed where two must wait for one slot
(`lifecycle`). That a call which waits for a connection holds none is proved
for pools of any size (`CleanPool`). `MaxVersion = 1` gives a table a before and an after: the
properties compare a version with one other, and the theorems remove the bound.
In `StoreTx` the limits 1 and 2 and the row bound 2 let a statement be below,
at and above either limit, and a script reach its limit with one statement or
cross it with a later one; three statements are the smallest script with a
first, a middle and a last. Three successive processes let a registration pass
through a process that neither made nor lost it; a file identity can be used
again once nothing names it. In `OAuthGrant` a code lives half a second, an
access token one and a half, a refresh token two, so that every expiry can fall
within a second and on its edge; `MaxTokens` allows an exchange and a refresh
of each sort. In `Search` the limit 3 is below the six objects there are, so
that a search can be cut off in any of its visits and can also end by itself.
In `Sources` the TTLs 1, 2 and 3 are half a second, one and one and a half, so
that a URL can expire within a second and on its edge; with two URLs one can be
made on account of the other. The settings are families, each exhaustive in a
few dimensions: `Mutations` (every switch over every policy, with and without a
file, one operation with blanks), `Mistakes` (one wrong value at a time, or
clients that cannot be loaded), `Principals` (who OAuth clients
act for, named in the file, the environment or nowhere; scope lists written,
blank or missing), `Secrets` (two keys and the roles with equal, hashed, padded
or missing tokens). The theorems are about any set of settings.

**Deadlock** is checked in the `SchemaCache` runs, whose calls start over for
ever. The others stop by nature and say `CHECK_DEADLOCK FALSE`: calls have been
answered, processes and client IDs are used up, time is over, the process has
exited, the script has been read. That nothing is stuck half-way is stated
there as a liveness property (`EveryCallAnswered`, `Terminates`).

**Fairness.** No run assumes more of the environment than the code enforces.

- `SchemaCache!FairSpec`: a call that has committed goes on to clear the cache.
  Only `database.mu` stands between, and no one keeps it.
- `StoreTx!TimerSpec`: the deadline of a call's context passes, and a pgx
  operation whose context has expired returns (`context.WithTimeout` in every
  operation). Nothing is assumed of the database, which may answer nothing.
- `Lifecycle!FairSpec`: `Shutdown` returns by its deadline, `main` runs on, and
  a call on a connection ends by the query timeout. Clients may never read an
  answer or send the rest of a request.

## Proofs

The proof modules hold for every value of the constants, under the assumptions
named in the component modules (`ConstantsAssumption`): sentinels differ
from what they stand beside, limits and lifetimes are natural numbers,
`Requests` is finite where it is counted, and `Strings` has the names the code
itself uses. TLC evaluates these on every run.
`Durability` assumes in addition that `Overlap = FALSE`. Bounds that exist for
TLC only (`MaxVersion`, `RowBound`, `MaxTime`, `MaxTokens`, `MaxUrls`,
`MaxChanges`) are arbitrary.

| Module | Theorems | Argument |
|---|---|---|
| `SchemaCacheProofs` | `TypeCorrect`, `Freshness`, `Staleness`, `CacheOfThePast` | Entries of the cache are made outside it, one query at a time. `IInv` therefore says of the parts a call has read (`ReadsFresh`, `ReadsExplained`) what the properties say of entries, and that a table was not cleared at a version it has yet to reach (`ClearedPast`). The refinement of `CachedDescriptions` needs only that no call has read what its table has yet to become (`ReadsPast`): `Store` is its `Store`, a clearing its `Clear`, every other step its `Change`. |
| `StoreTxProofs` | `TypeCorrect`, `CleanPool`, `RowLimits`, `Atomicity` | `PoolInv` ties what is on a connection to the phase of the call that holds it (`HeldSessions`), so that each way of giving it back leaves it clean. `CallInv` ties rows, effect and outcome of a call to its phase; with it every step maps to a step of `AtomicWrite` or to a stutter (`PromiseStep`). |
| `ClientStoreProofs` | `TypeCorrect`, `Durability` | That the file has every acknowledged client is not inductive: a save replaces the whole file by memory. `SaveInv` adds that memory includes the file (`MemoryComplete`), what a save has opened and written so far (`SaveState`), and that one process runs (`OneUp`). |
| `OAuthGrantProofs` | `TypeCorrect`, `Consent`, `Lifetime`, `RightsFollow`, `OneTime` | `WithinConsent` is inductive with `Checked`: what a code was checked for still holds when its tokens are issued. `Lifetime` follows from `ExpKept` and lemmas on division; `RightsFollow` from it and `Current`: a token issued since the restart has the connections its principal has. `OneTime` rests on a code being in one place, the map or one request (`OnePlace`). |
| `LifecycleProofs` | `TypeCorrect`, `Slots`, `Order`, `AuditTrail` | `slots` stays a natural number only because it counts handlers, so `TypeOK` and `SlotsExact` are inductive together. `AuditInv` says where a change that is not yet in the log can be and what a graceful shutdown leaves behind. |
| `SourcesProofs`, on `Configuration` | `Reasons`, `LastWord`, `Answers`, `DefaultConsent`, `Advertisement` | `IInv` says at each stage what the variables are as a function of the settings: `KeysLoaded` that the keys are those of the file followed by those of the roles, `OAuthLoaded` which name and scopes were chosen, `ConnectionsLoaded` what a policy has become. Each property is then a question about the settings. For `Reasons`, each conjunct of `Valid` is matched with what the verdict says: the keys of roles are valid and differ from all others, so that keys are judged by those of the file (`RolesFollow`, `KeysJudged`), the principal `Load` has arrived at is the key that was meant (`PrincipalMeant`), and the scopes filled in are those written and `read` where none are (`ScopesJudged`), which every role has (`RoleValid`). `Answers` needs that the first of several keys with a token exists (`LeastIndex`, from the library's well-foundedness of the natural numbers). |
| `SourcesProofs` | `ConfigurationKept`, `SourcesTypes`, `Honouring`, `Granting`, `Lapsing` | The steps of `Sources` that load are those of `Configuration`, the others leave it alone. `LinkInv` adds to `OnlyGranted` that each URL expires in the second its TTL ends in (`Signed`); `Honouring` is then arithmetic on whole seconds, for every resolution of the clock. `Lapsing` is an action property: of all steps only `Ask` brings an object back. |
| `SearchProofs` | `TypeCorrect`, `SearchComplete`, `SearchSound`, `FetchFinds`, `CacheOfThePast` | `Complete` speaks of the end of a search; `Progress` says of every moment before it that what is due has been found or lies in what is still to visit. It needs that the listing left to describe is of tables that have existed (`Listings`), that what was read of a table has the columns which have been there ever since (`Description`), and what history has to do with the catalog (`History`). The loops append what is at some positions of a sequence. `At` takes each of these once and in order, because the rank of a position is an injection between sets of one size (`Ranks`): a counting argument in place of an induction over the sequence. `Remembered` is what the refinement adds. |
| `SqlLexerProofs` | `TypeCorrect`, `Agreement`, `OddQuotes` | `Lag`: the tokenizer is where the comment stripper was one rune ago, comments being nowhere (`TokenFollows`, by cases over both). `Straight`: as long as quotes are not odd, splitter and whole scan differ for one rune at most (`InStep`). `Sighted`: a semicolon of the whole script inside a statement is a token of it, so that `Valid` refuses what follows. |

Every invariant and action property of a passing run is stated by a theorem,
and so are the refinements. Only model-checked are the liveness properties
(`WindowCloses`, `EveryCallAnswered`, `Terminates`), because TLAPS reasons
neither about `ENABLED` nor, with it, about fairness. That `SchemaCache` and
`Search` implement `CachedDescriptions` is proved and is not among the runs.

## Findings

- **A stale description stays in the cache** (`schema_cache_stale`,
  `internal/postgres/store.go:253`). `DescribeTable` stores what it has read
  without looking whether the cache was cleared meanwhile. The entry has no
  lifetime: it is wrong until the next DDL, script or refresh.
  `FreshUnlessOverlapped` and `StalenessExplained` show that this overlap is
  the only way within the server: clearing after the commit is the right order.
- **Two processes on one client store lose registrations**
  (`client_store_overlap`, `internal/oauth/oauth.go:831`). Each rewrites the
  file from its own memory. `Docker/README.md:124-125` says that registrations
  survive container recreation, and the swarm file updates start-first.
- **Audit write errors are logged, not enforced** (`lifecycle_audit`,
  `internal/audit/audit.go:65` against `README.md:160`).
- **After an empty literal the splitter is one quote off** (`sql_lexer_odd`,
  `internal/sqlguard/parser_nocgo.go:58` against `README.md:155`). It can then
  cut a script at a semicolon inside a comment. Each piece is still validated,
  so what runs is allowed, but it is not what was written. Usually such a script
  is refused, which is wrong as well. `OnlyOddQuotesMislead` shows that empty
  literals and escaped quotes are the only cause.

Further observations, none of which contradicts what the program promises:

- Describing a table that does not exist is no error, yields an empty
  description, and caches it; `Search` models this (`Absent`, `Described`).
- Names, scopes and tokens written with blanks around them pass `Validate` but
  not the code that uses them: an OAuth principal named with blanks makes
  `oauth.New` fail, a padded scope gives no right, a padded token can be
  presented by nobody, and a DML operation (`config.go:754`, trimmed) permits
  nothing (`config.go:844`, not trimmed). The properties of `Configuration` have
  these as their exceptions (`PaddedScope`, `PaddedOnly`, `form = "padded"`).
- With OAuth on, neither scopes nor a principal written, and a first key that
  has neither `read` nor `admin`, `Load` refuses to start over a scope nobody
  asked for: it fills in that key and `read` (`config.go:470-481`,
  `LacksDefault`).
- A file of registered clients that cannot be read, decoded or believed
  (`oauth.go:136, 783-806`) ends the start, after `Load` has accepted the
  configuration and also for those who would only use API keys.
- `Validate` refuses two equal values of `token_sha256`, but neither two equal
  tokens nor a token and its hash. The first such key answers for all of them;
  `TokensAnswered` says who that can be.
- Scope lists that hold nothing but blanks leave OAuth without default scopes:
  clients have to ask for some (`DefaultConsentWorks`).
- `README.md:446` has the scopes of the `ddl` role as `read,ddl`, the code
  (`config.go:51`) gives it `write` too.

## What is not modelled

- Rows and their conversion, masking, result and byte limits of reads, the
  `EXPLAIN` output: pure functions of one answer.
- What statements say: the allowlist, the schema scan and the policy checks of
  `sqlguard.Validate`; in `SqlLexer` they may refuse any statement. They are
  functions of one list of tokens, and what a statement refers to is decided by
  PostgreSQL's grammar, which this repository does not have: a model would have
  nothing to compare them with but themselves. The cgo build's parser is a
  library. `Configuration` has the policies of a connection by operation, not
  by table.
- The login form, redirects, PKCE and signatures of the OAuth provider: an
  exchange may fail them, and they are otherwise taken as right.
- The scopes a client was registered with: they are those of the configuration
  at that time, `ClientStore` has clients without and `OAuthGrant` starts at the
  consent.
- The encoding of object identifiers and source URLs, and the form of settings:
  addresses, durations, limits, placeholder secrets and the syntax of the file
  are checked one by one, and are two flags in `Configuration` (`sound`,
  `complete`); the content of the file of registered clients is a third
  (`clients`), and is in `ClientStore`. Connecting to the databases at start, which can fail for reasons
  outside the program.
- A process with several databases closes their pools one after another
  (`store.go:67-71`); `Lifecycle` has one pool, which closes in one step.
- That a refresh token is verified a moment before the clock is read for the new
  tokens: the two are one instant in `Refresh`. For codes they are two.
- Catalog listings (`list_schemas`, `list_tables` and the like) and resources:
  one query and one answer each.
- Version, health check client, deployment files and scripts. Nothing in them
  is concurrent or survives a step. `PROJECT.json` gives the reason for each
  component.
- Loss of data the operating system had acknowledged (the client store is not
  synced to disk), and failures inside PostgreSQL beyond those it reports.

## Plan

What reaches the database and how, who may do it, and what callers are told are
modelled, as far as the list above does not say otherwise. What is left, in the
order of its worth:

1. **Composition**: `Lifecycle` with the pool of `StoreTx` in place of its one
   phase, as an implementation: closing the pool while calls wait in it is
   so far a single step of `Lifecycle`.
2. **Registered scopes**: clients of `ClientStore` with their scopes, and a
   `Restart` of `Configuration` between registration and consent.
3. **Guard**: `Validate` and `detectTableRefs` over tokens, once there is a
   reference for what a statement refers to: a grammar of the allowlisted
   statements.

New questions about an existing component are put to its run before one is
added.
