----------------------------- MODULE MCSources -----------------------------
(* Settings to load: one family for each topic, and one installation whose *)
(* signing key, TTL, schemas and principals change from start to start.    *)
EXTENDS Sources

Key(name, token, scopes, conns) ==
  [name |-> name, token |-> Plain(token), digest |-> "",
   scopes |-> {Plain(sc) : sc \in scopes}, connections |-> conns]
Padded(t) == [text |-> t, form |-> "padded"]
Upper(t) == [text |-> t, form |-> "upper"]

Reader == Key(Plain("reader"), "r", {"read"}, {"orders"})
Deployer == Key(Plain("deployer"), "d", {"ddl"}, {"orders"})
Admin == Key(Plain("root"), "a", Scopes, {"orders"})

Database(policies, ddl) ==
  [policies |-> policies, ddl |-> ddl, schemas |-> {}]
Orders == [c \in {"orders"} |-> Database({}, "unset")]

File(ks, oa, dbs) == [keys |-> ks, oauth |-> oa, connections |-> dbs]

NoRoles == [r \in Roles |-> Blank]
EveryRole == [r \in Roles |-> Plain(r)]
Environment == [apiKey |-> Blank, roles |-> NoRoles, ddl |-> "unset",
                dml |-> "unset", oauth |-> "unset", principal |-> Blank,
                default |-> {}, base |-> {}]

Start(file, e) ==
  [file |-> file, env |-> e, sound |-> TRUE, complete |-> TRUE,
   clients |-> TRUE, citation |-> [key |-> "", ttl |-> 2]]

\* The switches, over every way to write a connection, and without a file.
Mutations ==
  LET switched == {[Environment EXCEPT !.ddl = ddl, !.dml = dml] :
                     ddl \in Switches, dml \in Switches}
      policies == {{}, {Plain("insert"), Padded("update"), Upper("delete")},
                   DefaultPolicies}
  IN  {Start(File(<<Reader, Admin>>, NoOAuth,
                     [c \in {"orders"} |-> Database(ps, ddl)]), e) :
         ps \in policies, ddl \in {"unset", "on", "off"}, e \in switched}
      \cup
      {Start(NoFile, [e EXCEPT !.apiKey = k, !.roles["admin"] = a]) :
         e \in switched, k \in {Blank, Plain("r")},
         a \in {Blank, Padded("a")}}

\* Keys that are no good, one at a time; and other values that are not.
WrongKeys ==
  {<<[Reader EXCEPT !.token = Padded("")]>>,
   <<[Reader EXCEPT !.name = Padded("")]>>,
   <<[Reader EXCEPT !.scopes = {}]>>,
   <<[Reader EXCEPT !.scopes = {Plain("root")}]>>,
   <<[Reader EXCEPT !.connections = {}]>>,
   <<[Reader EXCEPT !.connections = {"stock"}]>>,
   <<Reader, [Admin EXCEPT !.name = Reader.name]>>}

Mistakes ==
  {Start(File(ks, NoOAuth, Orders), Environment) : ks \in WrongKeys}
  \cup {Start(File(<<Reader>>, NoOAuth, << >>), Environment)}
  \cup {[Start(File(<<Reader>>, [NoOAuth EXCEPT !.enabled = TRUE], Orders),
                  Environment) EXCEPT !.sound = s, !.complete = c, !.clients = l] :
          s \in BOOLEAN, c \in BOOLEAN, l \in BOOLEAN}

\* Whose rights OAuth clients get, and which.
Declared ==
  {<< >>, <<Reader>>, <<Reader, Admin>>, <<Deployer>>,
   <<Reader, Key(Upper("writer"), "w", {"read", "write"}, {"*"})>>,
   <<Key(Padded("reader"), "r", {"read"}, {"orders"})>>,
   <<Key(Padded("reader"), "p", {"read"}, {"orders"}), Reader>>,
   <<[Reader EXCEPT !.scopes = {Plain("read"), Padded("write")}]>>}

PrincipalSettings(ks, on, inFile, listed, e) ==
  Start(File(ks, [enabled |-> on, principal |-> inFile, default |-> listed,
                     base |-> {}], Orders), e)

Principals ==
  {PrincipalSettings(ks, TRUE, inFile, {},
                     [Environment EXCEPT !.principal = inEnv, !.roles = tokens]) :
     ks \in Declared,
     inFile \in {Blank, Plain("reader"), Padded("reader"), Plain("writer")},
     inEnv \in {Blank, Padded(""), Padded("reader"), Plain("admin")},
     tokens \in {NoRoles, EveryRole}}
  \cup
  {PrincipalSettings(ks, on, Blank, listed,
                     [Environment EXCEPT !.oauth = switch, !.default = asked,
                                         !.base = base]) :
     ks \in Declared, on \in BOOLEAN, switch \in {"unset", "on", "odd"},
     listed \in {{}, {"read", "write"}}, asked \in {{}, {"ddl"}}, base \in {{}}}
  \cup
  {PrincipalSettings(ks, TRUE, Blank, listed,
                     [Environment EXCEPT !.default = asked, !.base = base]) :
     ks \in Declared, listed \in {{}, {""}, {"read", "write"}},
     asked \in {{}, {""}, {"ddl"}}, base \in {{}, {""}, {"read"}}}

\* Who has which token: of the keys of the file, which may be given by their
\* hash or share one, and of the roles, which may share it with them.
Secrets ==
  LET tokens == {Blank, Plain("r"), Plain("x"), Padded("x")}
      first  == {[Reader EXCEPT !.token = t] : t \in tokens}
                \cup {[Reader EXCEPT !.digest = "x"]}
      second == {[Admin EXCEPT !.token = t] : t \in tokens}
                \cup {[Admin EXCEPT !.name = n, !.digest = "x"] :
                        n \in {Admin.name, Upper("writer")}}
  IN  {Start(File(ks, NoOAuth, Orders), [Environment EXCEPT !.roles = roles]) :
         ks \in {<<k, l>> : k \in first, l \in second},
         roles \in {NoRoles, [NoRoles EXCEPT !["ddl"] = Padded("x")],
                   [r \in Roles |-> Plain("x")], [r \in Roles |-> Padded("y")],
                   [EveryRole EXCEPT !["writer"] = Plain("admin")]}}

\* One installation and its source URLs: with someone who may read one schema
\* or all, and with nobody who may read.
Installation ==
  {[Start(File(<<who[1]>>, NoOAuth,
                  [c \in {"orders"} |-> [Database({}, "on") EXCEPT
                                           !.schemas = who[2]]]),
             Environment) EXCEPT !.citation = citation] :
     who \in {<<Admin, {"public"}>>, <<Admin, {"*"}>>, <<Deployer, {"*"}>>},
     citation \in {[key |-> "", ttl |-> 2], [key |-> "k1", ttl |-> 1],
                   [key |-> "k1", ttl |-> 3], [key |-> "k2", ttl |-> 2]}}

MCStrings == STRING
MCSettings == Installation \cup Mutations \cup Mistakes \cup Principals \cup
              Secrets
MCAlternatives(s) == IF s \in Installation THEN Installation ELSE {s}

Object(schema, column) == [connection |-> "orders", schema |-> schema,
                           table |-> "t", column |-> column]
MCObjects == {Object("public", ""), Object("public", "id"), Object("sales", "")}
=============================================================================
