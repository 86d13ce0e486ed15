------------------------------- MODULE Search -------------------------------
(***************************************************************************)
(* The search and fetch tools, and the reading of source URLs: one client  *)
(* searches and then asks for what it has found, while tables and columns  *)
(* come and go.                                                            *)
(*                                                                         *)
(* A search lists the tables of one schema after the other, each with a    *)
(* query of its own, and describes them one by one; descriptions come from *)
(* the schema cache or go into it.  Nothing keeps the catalog still        *)
(* between any two of these steps.  How the cache gets out of date is the  *)
(* subject of SchemaCache: here it is cleared at any time, and other calls *)
(* store descriptions as old as they like.                                 *)
(*                                                                         *)
(* A description is the set of the table's columns; that of a table that   *)
(* does not exist is empty, and no error.  The schemas are those of the    *)
(* connections the principal may use, in the order they are visited; they  *)
(* do not come and go, but may be configured twice.  Audit records and     *)
(* signatures are left out.                                                *)
(***************************************************************************)
EXTENDS Naturals, Sequences, SequencesExt

CONSTANTS
  Tables,
  Columns,
  ColumnOrder,   \* the columns by ordinal position
  Schemas,       \* sequence of the schemas a search visits
  Listing,       \* Listing[s]: sequence of the tables s may have, by name
  NoTable,       \* describing no table
  NoColumn,      \* an object that is a table
  NoEntry,       \* a table that is not in the cache
  Absent,        \* a table that does not exist
  Queries,       \* sets of names, those that contain a query
  MaxResults,    \* max_search_results
  MaxChanges     \* bound: changes of the catalog

ASSUME ConstantsAssumption ==
  /\ ColumnOrder \in Seq(Columns) /\ ToSet(ColumnOrder) = Columns
  /\ Schemas \in Seq(DOMAIN Listing)
  /\ \A s \in DOMAIN Listing : Listing[s] \in Seq(Tables)
  /\ NoTable \notin Tables
  /\ NoColumn \notin Columns
  /\ \A d \in SUBSET Columns : d \notin {NoEntry, Absent}
  /\ \A M \in Queries : M \subseteq Tables \cup Columns \cup ToSet(Schemas)
  /\ MaxResults \in Nat \ {0}
  /\ MaxChanges \in Nat

VARIABLES
  catalog,   \* catalog[t]: the columns of t, or Absent
  cache,     \* cache[t]: the description stored, or NoEntry
  pc,        \* where the client's call is
  matches,   \* the names that contain the query
  schemas,   \* schemas still to be searched
  tables,    \* tables of the current one, as listed, still to be described
  table,     \* the table being described
  desc,      \* what the catalog has answered
  results,   \* the objects found
  goal,      \* the object that is fetched, if one is
  answer,    \* of the fetch: "none", "found" or "missing"
  \* history, read by the properties only
  changes,   \* number of changes of the catalog
  past,      \* past[t]: the descriptions t has had
  steady,    \* objects that have existed since the search was started
  kept,      \* objects that have existed since they were found
  seenAt,    \* objects that have existed at some time since the search began
  stale      \* tables described by a cache entry that was out of date

search  == <<pc, matches, schemas, tables, table, desc, results, goal, answer>>
world   == <<catalog, changes, past>>
vars    == <<catalog, cache, pc, matches, schemas, tables, table, desc,
             results, goal, answer, changes, past, steady, kept, seenAt, stale>>

-----------------------------------------------------------------------------
Objects == [table: Tables, column: Columns \cup {NoColumn}]
TableObject(t) == [table |-> t, column |-> NoColumn]

\* What the columns query returns.
Described(d) == IF d = Absent THEN {} ELSE d

Existing(cat) ==
  {o \in Objects : /\ cat[o.table] # Absent
                   /\ o.column \in cat[o.table] \cup {NoColumn}}

SchemaMatches(t) ==
  \E s \in matches \cap ToSet(Schemas) : t \in ToSet(Listing[s])

\* Whether an object is one the search looks for.
Wanted(o) == IF o.column = NoColumn
             THEN o.table \in matches \/ SchemaMatches(o.table)
             ELSE o.column \in matches

Full == Len(results) >= MaxResults

\* The elements of s at the positions I, in the order of s.
At(s, I) ==
  [k \in 1..Cardinality(I) |->
     s[CHOOSE i \in I : Cardinality({j \in I : j <= i}) = k]]

\* Defective variant: what is found twice counts twice.
WithAgain(objs) ==
  LET new == At(objs, {i \in DOMAIN objs : Wanted(objs[i])})
      all == results \o new
  IN  SubSeq(all, 1, IF Len(all) > MaxResults THEN MaxResults ELSE Len(all))

\* Where objs has an object that is wanted and has not been seen.
New(objs) ==
  {i \in DOMAIN objs : /\ Wanted(objs[i])
                       /\ objs[i] \notin ToSet(results)
                       /\ \A j \in 1..(i - 1) : objs[j] # objs[i]}

\* The results with what is new in objs, up to the limit.
With(objs) ==
  LET all == results \o At(objs, New(objs))
  IN  SubSeq(all, 1, IF Len(all) > MaxResults THEN MaxResults ELSE Len(all))

ColumnObjects(t, d) ==
  LET shown == At(ColumnOrder, {i \in DOMAIN ColumnOrder : ColumnOrder[i] \in d})
  IN  [i \in DOMAIN shown |-> [table |-> t, column |-> shown[i]]]

\* The tables of the schema s that exist.
Listed(s) ==
  At(Listing[s], {i \in DOMAIN Listing[s] : catalog[Listing[s][i]] # Absent})

Init ==
  /\ catalog \in [Tables -> {Columns, Absent}]
  /\ cache   = [t \in Tables |-> NoEntry]
  /\ pc      = "idle"
  /\ matches = {}
  /\ schemas = << >>
  /\ tables  = << >>
  /\ table   = NoTable
  /\ desc    = {}
  /\ results = << >>
  /\ goal    = TableObject(NoTable)
  /\ answer  = "none"
  /\ changes = 0
  /\ past    = [t \in Tables |-> {Described(catalog[t])}]
  /\ steady  = {}
  /\ kept    = {}
  /\ seenAt  = {}
  /\ stale   = {}

Trans(from, to) == pc = from /\ pc' = to

Find(objs) ==
  /\ results' = With(objs)
  /\ kept' = kept \cup {o \in ToSet(results') \ ToSet(results) :
                         o \in Existing(catalog)}

-----------------------------------------------------------------------------
(* search.                                                                 *)

Start(M) ==
  /\ Trans("idle", "schema")
  /\ matches' = M
  /\ schemas' = Schemas
  /\ steady' = Existing(catalog)
  /\ seenAt' = Existing(catalog)
  /\ UNCHANGED <<catalog, cache, tables, table, desc, results, goal, answer,
                 changes, past, kept, stale>>

\* ListTables answers with the tables of the next schema.
ListTables ==
  /\ ~Full
  /\ schemas # << >>
  /\ Trans("schema", "table")
  /\ schemas' = Tail(schemas)
  /\ tables' = Listed(Head(schemas))
  /\ UNCHANGED <<catalog, cache, matches, table, desc, results, goal, answer,
                 changes, past, steady, kept, seenAt, stale>>

\* The search is over: every schema is done, or there are enough results.
Finish ==
  /\ Full \/ schemas = << >>
  /\ Trans("schema", "done")
  /\ schemas' = << >>
  /\ UNCHANGED <<catalog, cache, matches, tables, table, desc, results, goal,
                 answer, changes, past, steady, kept, seenAt, stale>>

\* Defective variant: a table that is found itself is not described.
NextTableOnly ==
  /\ tables # << >>
  /\ pc = "table"
  /\ table' = Head(tables)
  /\ tables' = Tail(tables)
  /\ Find(<<TableObject(Head(tables))>>)
  /\ pc' = IF Len(results') >= MaxResults THEN "schema"
           ELSE IF results' # results THEN "table" ELSE "lookup"
  /\ UNCHANGED <<catalog, cache, matches, schemas, desc, goal, answer, changes,
                 past, steady, seenAt, stale>>

\* The next table of the listing: it may be found itself, and unless that
\* makes enough results it is described.
NextTable ==
  /\ tables # << >>
  /\ pc = "table"
  /\ table' = Head(tables)
  /\ tables' = Tail(tables)
  /\ Find(<<TableObject(Head(tables))>>)
  /\ pc' = IF Len(results') >= MaxResults THEN "schema" ELSE "lookup"
  /\ UNCHANGED <<catalog, cache, matches, schemas, desc, goal, answer, changes,
                 past, steady, seenAt, stale>>

NoMoreTables ==
  /\ tables = << >>
  /\ Trans("table", "schema")
  /\ UNCHANGED <<catalog, cache, matches, schemas, tables, table, desc, results,
                 goal, answer, changes, past, steady, kept, seenAt, stale>>

-----------------------------------------------------------------------------
(* DescribeTable, for a search or for a fetch.                             *)

Fetching == goal # TableObject(NoTable)

\* Defective variant: nothing tells a fetch from a search.
UseAsSearch(d) ==
  /\ Find(ColumnObjects(table, d))
  /\ pc' = IF Len(results') >= MaxResults THEN "schema" ELSE "table"
  /\ UNCHANGED answer

\* What is made of the description d of the table.
Use(d) ==
  IF Fetching
  THEN /\ answer' = IF goal.column \in d \cup {NoColumn} THEN "found"
                                                        ELSE "missing"
       /\ pc' = "answered"
       /\ UNCHANGED <<results, kept>>
  ELSE /\ Find(ColumnObjects(table, d))
       /\ pc' = IF Len(results') >= MaxResults THEN "schema" ELSE "table"
       /\ UNCHANGED answer

\* Defective variant: a hit answers with what was described before.
HitKeepsDesc ==
  /\ pc = "lookup"
  /\ cache[table] # NoEntry
  /\ Use(desc)
  /\ stale' = IF cache[table] = Described(catalog[table]) THEN stale
              ELSE stale \cup {table}
  /\ UNCHANGED <<catalog, cache, matches, schemas, tables, table, desc, goal,
                 changes, past, steady, seenAt>>

Hit ==
  /\ pc = "lookup"
  /\ cache[table] # NoEntry
  /\ Use(cache[table])
  /\ stale' = IF cache[table] = Described(catalog[table]) THEN stale
              ELSE stale \cup {table}
  /\ UNCHANGED <<catalog, cache, matches, schemas, tables, table, desc, goal,
                 changes, past, steady, seenAt>>

Miss ==
  /\ Trans("lookup", "read")
  /\ cache[table] = NoEntry
  /\ UNCHANGED <<catalog, cache, matches, schemas, tables, table, desc, results,
                 goal, answer, changes, past, steady, kept, seenAt, stale>>

ReadColumns ==
  /\ Trans("read", "store")
  /\ desc' = Described(catalog[table])
  /\ UNCHANGED <<catalog, cache, matches, schemas, tables, table, results, goal,
                 answer, changes, past, steady, kept, seenAt, stale>>

Store ==
  /\ pc = "store"
  /\ cache' = [cache EXCEPT ![table] = desc]
  /\ Use(desc)
  /\ UNCHANGED <<catalog, matches, schemas, tables, table, desc, goal, changes,
                 past, steady, seenAt, stale>>

\* A query fails, of a listing or one of the four of a description: a search
\* loses what it has found so far.
Fails ==
  /\ pc \in {"read", "store"} \/ (pc = "schema" /\ schemas # << >>)
  /\ pc' = "failed"
  /\ UNCHANGED <<catalog, cache, matches, schemas, tables, table, desc, results,
                 goal, answer, changes, past, steady, kept, seenAt, stale>>

-----------------------------------------------------------------------------
\* fetch, or a GET of the source URL, of something that was found.
Fetch(o) ==
  /\ o \in ToSet(results)
  /\ Trans("done", "lookup")
  /\ goal' = o
  /\ table' = o.table
  /\ UNCHANGED <<catalog, cache, matches, schemas, tables, desc, results, answer,
                 changes, past, steady, kept, seenAt, stale>>

-----------------------------------------------------------------------------
(* The others.                                                             *)

\* A table is created, changed or dropped, by whomever.
Change(t, d) ==
  /\ changes < MaxChanges
  /\ changes' = changes + 1
  /\ d # catalog[t]
  /\ catalog' = [catalog EXCEPT ![t] = d]
  /\ past' = [past EXCEPT ![t] = @ \cup {Described(d)}]
  /\ steady' = steady \cap Existing(catalog')
  /\ kept' = kept \cap Existing(catalog')
  /\ seenAt' = seenAt \cup Existing(catalog')
  /\ UNCHANGED <<cache, search, stale>>

ClearCache ==
  /\ cache' = [t \in Tables |-> NoEntry]
  /\ UNCHANGED <<catalog, search, changes, past, steady, kept, seenAt, stale>>

\* Another call stores its description of t.
OtherStores(t, d) ==
  /\ d \in past[t]
  /\ cache' = [cache EXCEPT ![t] = d]
  /\ UNCHANGED <<catalog, search, changes, past, steady, kept, seenAt, stale>>

Next ==
  \/ \E M \in Queries : Start(M)
  \/ ListTables
  \/ Finish
  \/ NextTable
  \/ NoMoreTables
  \/ Hit
  \/ Miss
  \/ ReadColumns
  \/ Store
  \/ Fails
  \/ \E o \in Objects : Fetch(o)
  \/ \E t \in Tables, d \in {Absent} \cup SUBSET Columns : Change(t, d)
  \/ ClearCache
  \/ \E t \in Tables, d \in SUBSET Columns : OtherStores(t, d)

Spec == Init /\ [][Next]_vars

-----------------------------------------------------------------------------
TypeOK ==
  /\ DOMAIN catalog = Tables /\ DOMAIN cache = Tables
  /\ \A t \in Tables : catalog[t] = Absent \/ catalog[t] \subseteq Columns
  /\ \A t \in Tables : cache[t] = NoEntry \/ cache[t] \subseteq Columns
  /\ pc      \in {"idle", "schema", "table", "lookup", "read", "store", "done",
                  "answered", "failed"}
  /\ matches \in Queries \cup {{}}
  /\ schemas \in Seq(DOMAIN Listing) /\ IsSuffix(schemas, Schemas)
  /\ tables  \in Seq(Tables)
  /\ table   \in Tables \cup {NoTable}
  /\ desc    \subseteq Columns
  /\ results \in Seq(Objects)
  /\ goal    \in Objects \cup {TableObject(NoTable)}
  /\ answer  \in {"none", "found", "missing"}
  /\ changes \in 0..MaxChanges
  /\ past    \in [Tables -> SUBSET SUBSET Columns]
  /\ steady \cup kept \cup seenAt \subseteq Objects
  /\ stale   \subseteq Tables
  /\ pc \in {"lookup", "read", "store"} => table # NoTable
  /\ Fetching => pc \in {"lookup", "read", "store", "answered", "failed"}

Searched == pc = "done" \/ Fetching

\* The objects a search looks for, those of an entry of the cache that was
\* out of date apart.
Due(o) ==
  /\ Wanted(o)
  /\ \E i \in DOMAIN Schemas : o.table \in ToSet(Listing[Schemas[i]])
  /\ o.column # NoColumn => o.table \notin stale

\* A search that was not cut off by the limit has found every object it looks
\* for that existed all the while; columns of a table it took from an entry
\* of the cache that was out of date may be missing (server.go:569-674).
Complete ==
  Searched /\ ~Full => \A o \in steady : Due(o) => o \in ToSet(results)

\* Nothing is found twice, whatever schemas are configured twice, nor more
\* than max_search_results, and nothing that did not exist at some time of
\* the search, out-of-date entries of the cache apart (server.go:633-669).
Sound ==
  /\ Len(results) <= MaxResults
  /\ IsInjective(results)
  /\ \A o \in ToSet(results) :
       /\ Wanted(o)
       /\ o \in seenAt \/ (o.column # NoColumn /\ o.table \in stale)

\* What a search has found can be fetched for as long as it exists, unless an
\* entry of the cache that is out of date denies it (server.go:676-806, and
\* 855-866 for source URLs).
FoundIsFetched ==
  answer = "missing" => goal \notin kept \/ goal.table \in stale
=============================================================================
