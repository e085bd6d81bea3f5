------------------------------ MODULE Registry ------------------------------
(***************************************************************************)
(* The data source registry: a snapshot built from one answer of Redash    *)
(* and replaced as a whole.  A source is a record of id, name and type.    *)
(***************************************************************************)
EXTENDS Integers, Sequences, FiniteSets

CONSTANTS
    Lower,          \* strings.ToLower, on the names
    Rank,           \* the order of lower-case names
    PostgresTypes, MySQLTypes

ASSUME RegistryAssumption ==
    /\ \A n \in DOMAIN Lower : Lower[n] \in DOMAIN Rank
    /\ \A n \in DOMAIN Rank : Rank[n] \in Int
    /\ \A m, n \in DOMAIN Rank : Rank[m] = Rank[n] => m = n

IsPostgresCompatible(t) == t \in PostgresTypes
IsMySQLCompatible(t) == t \in MySQLTypes

WireProtocol(t) ==
    IF IsPostgresCompatible(t) THEN "postgres" ELSE IF IsMySQLCompatible(t) THEN "mysql" ELSE "none"

\* The loops below build their result from the first n sources.
FilterByType(sources, types) ==
    LET filtered[n \in 0..Len(sources)] ==
          IF n = 0 THEN <<>>
          ELSE IF sources[n].type \in types THEN Append(filtered[n - 1], sources[n])
          ELSE filtered[n - 1]
    IN  filtered[Len(sources)]

\* A map entry set: later sources replace it.
Put(map, key, ds) == [k \in DOMAIN map \cup {key} |-> IF k = key THEN ds ELSE map[k]]

\* Mutant: the case-insensitive entry is the last one listed.
PutLowerLast(map, ds) == Put(map, Lower[ds.name], ds)

\* The case-insensitive entry is the lowest id's.
PutLower(map, ds) ==
    LET key == Lower[ds.name]
    IN  IF key \in DOMAIN map /\ ds.id >= map[key].id THEN map ELSE Put(map, key, ds)

NoSources == [k \in {} |-> <<>>]

ByExact(sources) ==
    LET map[n \in 0..Len(sources)] ==
          IF n = 0 THEN NoSources ELSE Put(map[n - 1], sources[n].name, sources[n])
    IN  map[Len(sources)]

ByLower(sources) ==
    LET map[n \in 0..Len(sources)] ==
          IF n = 0 THEN NoSources ELSE PutLower(map[n - 1], sources[n])
    IN  map[Len(sources)]

NewDataSourceRegistry(sources) == [byExact |-> ByExact(sources), byLower |-> ByLower(sources)]

\* The sources found: at most one.
Lookup(registry, name) ==
    IF name \in DOMAIN registry.byExact THEN {registry.byExact[name]}
    ELSE {registry.byLower[k] : k \in {Lower[name]} \cap DOMAIN registry.byLower}

View(ds) == [id |-> ds.id, name |-> ds.name, type |-> ds.type, wire |-> WireProtocol(ds.type)]

ViewBefore(v, w) ==
    \/ Rank[Lower[v.name]] < Rank[Lower[w.name]]
    \/ Rank[Lower[v.name]] = Rank[Lower[w.name]] /\ v.id < w.id

\* sort.Slice, which is not stable: the arrangements it may leave views in.
Bijections(n) ==
    {p \in [1..n -> 1..n] :
       /\ \A j, k \in 1..n : p[j] = p[k] => j = k
       /\ \A k \in 1..n : \E j \in 1..n : p[j] = k}

Arranged(views, p) == [k \in 1..Len(views) |-> views[p[k]]]

SortSlice(views) ==
    {Arranged(views, p) : p \in {q \in Bijections(Len(views)) :
       \A j, k \in 1..Len(views) : j < k => ~ViewBefore(views[q[k]], views[q[j]])}}

NewDataSourceViews(sources) == SortSlice([k \in 1..Len(sources) |-> View(sources[k])])
=============================================================================
