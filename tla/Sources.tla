------------------------------ MODULE Sources ------------------------------
(***************************************************************************)
(* Source URLs.  search, fetch and the /sources endpoint answer with the   *)
(* URL of what was found; with a signing key it carries the second it      *)
(* expires in and a signature over that and over the object.  Whoever has  *)
(* the URL may ask for the object until then, and is answered with a URL   *)
(* that is newly signed.                                                   *)
(*                                                                         *)
(* A request is accepted, the table is described, and the answer is        *)
(* signed: three moments, with the clock running and other requests in     *)
(* between.  The server may be restarted with other keys, principals,      *)
(* schemas or another TTL; URLs stay where they are.                       *)
(***************************************************************************)
EXTENDS Configuration, FiniteSets

CONSTANTS
  Objects,         \* [connection, schema, table, column], column "" if none
  TicksPerSecond,  \* resolution of the clock
  MaxTime,         \* bound: on the clock
  MaxUrls          \* bound: URLs that are signed

ASSUME SourcesAssumption ==
  /\ \A o \in Objects : o.connection \in Strings /\ o.schema \in Strings
  /\ TicksPerSecond \in Nat \ {0}
  /\ MaxTime \in Nat
  /\ MaxUrls \in Nat

VARIABLES
  now,       \* the clock, in ticks
  urls,      \* the URLs that have been signed
  inflight,  \* objects being described for an answer
  granted    \* history: objects that were asked for with an own right to them

linkVars == <<now, urls, inflight, granted>>
sourceVars == <<configVars, linkVars>>

-----------------------------------------------------------------------------
SigningKey == settings.citation.key
TTL == settings.citation.ttl

\* time.Time.Unix: whole seconds.
Unix(t) == t \div TicksPerSecond

\* SchemaAllowed.
Shown(o) ==
  /\ o.connection \in DOMAIN connections
  /\ {"*", o.schema} \cap connections[o.connection].schemas # {}

\* sourceURL; issued and ttl are history.
SourceURL(o) == [object |-> o, expires |-> Unix(now + TTL), key |-> SigningKey,
                 issued |-> now, ttl |-> TTL]

\* Defective variant: a URL is no longer good in the second it expires in.
ValidBeforeExpiry(u, o) ==
  /\ SigningKey # ""
  /\ u.expires > Unix(now)
  /\ u.key = SigningKey /\ u.object = o

\* Defective variant: the signature does not cover the object.
ValidForAny(u, o) ==
  /\ SigningKey # ""
  /\ u.expires >= Unix(now)
  /\ u.key = SigningKey

\* Defective variant: the expiry is signed but not compared.
ValidForEver(u, o) ==
  /\ SigningKey # ""
  /\ u.key = SigningKey /\ u.object = o

\* validCitationURL, of a request for o that has the signature of u.
ValidCitation(u, o) ==
  /\ SigningKey # ""
  /\ u.expires >= Unix(now)
  /\ u.key = SigningKey /\ u.object = o

SourcesInit ==
  /\ Init
  /\ now = 0
  /\ urls = {}
  /\ inflight = {}
  /\ granted = {}

-----------------------------------------------------------------------------
\* search, fetch, or GET /sources with a bearer token.
Ask(p, o) ==
  /\ stage = "serving"
  /\ Has(p.rights, "read")
  /\ CanUse(p, o.connection)
  /\ Shown(o)
  /\ inflight' = inflight \cup {o}
  /\ granted' = granted \cup {o}
  /\ UNCHANGED <<configVars, now, urls>>

\* GET /sources for o with the signature of u and nothing else; o is not what
\* u was signed for if the URL has been changed or has lost its column.
Follow(u, o) ==
  /\ stage = "serving"
  /\ ValidCitation(u, o)
  /\ Shown(o)
  /\ inflight' = inflight \cup {o}
  /\ UNCHANGED <<configVars, now, urls, granted>>

\* The table has been described: the answer has a URL signed now ...
Answer(o) ==
  /\ o \in inflight
  /\ inflight' = inflight \ {o}
  /\ IF SigningKey = "" THEN UNCHANGED urls
     ELSE /\ Cardinality(urls) < MaxUrls
          /\ urls' = urls \cup {SourceURL(o)}
  /\ UNCHANGED <<configVars, now, granted>>

\* ... or it could not be, or does not have the column.
NotFound(o) ==
  /\ o \in inflight
  /\ inflight' = inflight \ {o}
  /\ UNCHANGED <<configVars, now, urls, granted>>

\* Time matters once there is a URL.
Tick ==
  /\ urls # {}
  /\ now < MaxTime
  /\ now' = now + 1
  /\ UNCHANGED <<configVars, urls, inflight, granted>>

\* The process goes on loading, or is replaced by another.
Loading == LoadStep /\ UNCHANGED linkVars

Replace(s) ==
  /\ Restart(s)
  /\ inflight' = {}
  /\ UNCHANGED <<now, urls, granted>>

SourcesNext ==
  \/ stage = "serving" /\ \E p \in Callers, o \in Objects : Ask(p, o)
  \/ \E u \in urls, o \in Objects : Follow(u, o)
  \/ \E o \in Objects : Answer(o)
  \/ \E o \in Objects : NotFound(o)
  \/ Tick
  \/ Loading
  \/ \E s \in Alternatives(settings) : Replace(s)

SourcesSpec == SourcesInit /\ [][SourcesNext]_sourceVars

-----------------------------------------------------------------------------
SourcesTypeOK ==
  /\ TypeOK
  /\ now \in 0..MaxTime
  /\ urls \subseteq [object: Objects, expires: Nat, key: Strings, issued: Nat,
                     ttl: Nat \ {0}]
  /\ inflight \subseteq Objects
  /\ granted \subseteq Objects

\* A URL is honoured for the whole of its TTL by every process that has the
\* key and shows the object, and for less than a second more, however the
\* times of signing and asking fall between two seconds (server.go:1085-1112).
UrlsHonoured ==
  stage = "serving" =>
    \A u \in urls :
      /\ u.key = SigningKey /\ now < u.issued + u.ttl
           => ValidCitation(u, u.object)
      /\ ValidCitation(u, u.object)
           => now < u.issued + u.ttl + TicksPerSecond

\* However URLs are renewed, changed and mixed up, each object that is shown
\* on account of one was asked for before by someone with a right to it
\* (server.go:823-848, 1093-1124; SECURITY.md:30).
OnlyGranted ==
  inflight \cup {u.object : u \in urls} \subseteq granted

\* The URLs of o that have not expired.
Live(o) == {u \in urls : u.object = o /\ u.expires >= Unix(now)}

\* Renewal prolongs access but does not bring it back: when every URL of an
\* object has expired and no request for it is under way, only a caller with
\* a right of its own makes one that works (server.go:823-834, 868-883).
LapsedStaysLapsed ==
  [][\A o \in Objects :
       /\ Live(o) = {} /\ o \notin inflight
       /\ Live(o)' # {} \/ o \in inflight'
       => \E p \in Callers : Ask(p, o)]_sourceVars
=============================================================================
