---------------------------- MODULE SchemaCache ----------------------------
(* The per-session schema cache of internal/redash/schema_cache.go.        *)
(* A session runs one query at a time, so Get is never entered twice.      *)
EXTENDS Integers

CONSTANTS
    maxSchemaFetchAttempts,
    NoSource            \* no data source

ASSUME AttemptsAssumption == maxSchemaFetchAttempts \in Nat \ {0}

\* of is the data source whose schema is kept, NoSource until ready.
Caches(Sources) ==
    [of : Sources \cup {NoSource}, attempts : 0..maxSchemaFetchAttempts]

\* NewSchemaCache, and what Reset leaves.
EmptyCache == [of |-> NoSource, attempts |-> 0]

Ready(cache) == cache.of # NoSource

\* Get answers with an empty schema and does not contact Redash.
Spent(cache) == cache.attempts >= maxSchemaFetchAttempts

\* Get up to the call of fetch, and after it.
Attempted(cache) == [of |-> cache.of, attempts |-> cache.attempts + 1]
Fetched(cache, source) == [of |-> source, attempts |-> cache.attempts]
=============================================================================
