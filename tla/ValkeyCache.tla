----------------------------- MODULE ValkeyCache -----------------------------
(***************************************************************************)
(* SimpleValkeyCache (shotover/src/transforms/valkey/cache.rs): the        *)
(* responses to Cassandra SELECTs are kept in Valkey hashes.  The hash is  *)
(* named by table, partition key and range key, the field in it by what is *)
(* selected and the rest of the WHERE clause, so that an INSERT or UPDATE  *)
(* deletes all that was cached for a row by deleting one hash.             *)
(*                                                                         *)
(* One run of the transform is an operator of the batch and of what the    *)
(* connection has: the cache, the database, and the responses that have    *)
(* not come yet.  It gives the set of possible results, as the lookups,    *)
(* the writes to the cache and the database may fail and answers may come  *)
(* in another order than the requests, or later.                           *)
(*                                                                         *)
(* A request is [id, op, sts, version]: a QUERY with one statement, a      *)
(* BATCH, or an EXECUTE of a prepared statement.  A statement is its type, *)
(* its table, the selected columns, and its WHERE clause (for an INSERT:   *)
(* its values) as a sequence of relations [obj, oper, value, bound]: value *)
(* is what the text says, bound what it stands for, which differ for a     *)
(* bind marker.  Keys and fields are tuples where the code joins texts.    *)
(***************************************************************************)
EXTENDS Integers, Sequences, FiniteSets, SequencesExt, Functions

\* The database: Execute(db, request) is the database afterwards and the rows returned.
CONSTANT Execute(_, _)

IncompleteKey == <<>>
NoAddress == [key |-> IncompleteKey, field |-> <<>>]


\* is_cacheable
IsCacheable(st) ==
    CASE st.type = "select" -> IF st.filtering \/ st.where = <<>> THEN "Skip" ELSE "CacheRow"
      [] st.type \in {"insert", "update"} -> "DeleteRow"
      [] st.type = "drop" -> "DropTable"
      [] OTHER -> "Skip"

\* populate_value_map_from_where_clause: the relations of each column that has any.
ValueMap(where) ==
    [c \in {where[i].obj : i \in DOMAIN where} |-> SelectSeq(where, LAMBDA r : r.obj = c)]

\* The values of the columns of a key; the operator of the relation is not looked at.
Values(columns, values) == [i \in DOMAIN columns |-> values[columns[i]][1].value]

\* build_query_valkey_key_from_value_map: the partition key has to be complete, of the range
\* key a prefix will do, and no column may have two relations.
Key(schema, values, table) ==
    LET range == schema.range_key
        given == {i \in DOMAIN range : range[i] \in DOMAIN values}
        used == schema.partition_key \o SubSeq(range, 1, Cardinality(given))
    IN IF /\ Range(schema.partition_key) \subseteq DOMAIN values
          /\ given = 1 .. Cardinality(given)
          /\ \A c \in Range(used) : Len(values[c]) = 1
       THEN <<table>> \o Values(used, values)
       ELSE IncompleteKey

\* build_query_valkey_field_from_value_map: the columns selected, and per column that is not
\* in the key its relations, whatever the order of the columns in the query.
Field(schema, values, columns) ==
    LET keys == Range(schema.partition_key) \cup Range(schema.range_key)
    IN <<columns, Restrict(values, DOMAIN values \ keys)>>

\* build_valkey_key_from_cql3, for a table that has a schema.
HashAddress(schemas, st) ==
    IF st.table \notin DOMAIN schemas THEN NoAddress
    ELSE LET key == Key(schemas[st.table], ValueMap(st.where), st.table)
         IN IF key = IncompleteKey THEN NoAddress
            ELSE [key |-> key,
                  field |-> IF st.type = "select"
                            THEN Field(schemas[st.table], ValueMap(st.where), st.columns)
                            ELSE <<>>]

-----------------------------------------------------------------------------
(* Valkey: a function from hash names to hashes.                            *)

HGet(cache, address) ==
    IF address.key \in DOMAIN cache /\ address.field \in DOMAIN cache[address.key]
    THEN <<cache[address.key][address.field]>> ELSE <<>>

With(f, x, value) == [y \in DOMAIN f \cup {x} |-> IF y = x THEN value ELSE f[y]]

\* HSET, DEL and FLUSHDB.
Apply(cache, command) ==
    CASE command.name = "HSET" ->
           LET hash == IF command.key \in DOMAIN cache THEN cache[command.key] ELSE <<>>
           IN With(cache, command.key, With(hash, command.field, command.response))
      [] command.name = "DEL" -> Restrict(cache, DOMAIN cache \ {command.key})
      [] command.name = "FLUSHDB" -> <<>>

-----------------------------------------------------------------------------
(* The transform.                                                           *)

\* CassandraOperation::queries: a prepared statement is not looked into.
Queries(request) == IF request.op = "execute" THEN <<>> ELSE request.sts

\* build_cache_query: what to HGET for a request.
CacheQuery(schemas, request) ==
    IF request.op = "query" /\ IsCacheable(request.sts[1]) = "CacheRow"
    THEN HashAddress(schemas, request.sts[1]) ELSE NoAddress

\* A cached response is used for a request of the same protocol version, and gets its stream.
Usable(found, request) == found # <<>> /\ found[1].version = request.version

\* read_from_cache and unwrap_cache_response: the misses, first those that are not cacheable,
\* and the responses of the hits.  refused are the lookups Valkey answers with an error.
ReadFromCache(schemas, cache, requests, refused) ==
    LET Asked(r) == CacheQuery(schemas, r) # NoAddress
        Found(r) == IF r.id \in refused THEN <<>> ELSE HGet(cache, CacheQuery(schemas, r))
        asked == SelectSeq(requests, Asked)
        hits == SelectSeq(asked, LAMBDA r : Usable(Found(r), r))
    IN [misses |-> SelectSeq(requests, LAMBDA r : ~Asked(r))
                     \o SelectSeq(asked, LAMBDA r : ~Usable(Found(r), r)),
        hits |-> [i \in DOMAIN hits |-> [Found(hits[i])[1] EXCEPT !.id = hits[i].id]]]

\* An Err of the chain to Valkey: what was to be looked up is neither a hit nor a miss.
FailedRead(schemas, requests) ==
    [misses |-> SelectSeq(requests, LAMBDA r : CacheQuery(schemas, r) = NoAddress), hits |-> <<>>]

\* delete_row, drop_table and cache_row: the command, if any, for a statement and the response
\* at the place of its request, an error too.
CacheMessage(schemas, st, response) ==
    LET kind == IsCacheable(st)
        address == HashAddress(schemas, st)
    IN IF kind = "DropTable" THEN <<[name |-> "FLUSHDB"]>>
       ELSE IF kind = "Skip" \/ address = NoAddress THEN <<>>
       ELSE IF kind = "DeleteRow" THEN <<[name |-> "DEL", key |-> address.key]>>
       ELSE <<[name |-> "HSET", key |-> address.key, field |-> address.field,
               response |-> response]>>

\* execute_upstream_and_write_to_cache, after the upstream: requests and responses are paired
\* by their position, as many as there are of both.
CacheMessages(schemas, requests, responses) ==
    LET Of(i) == [j \in DOMAIN Queries(requests[i]) |->
                    CacheMessage(schemas, Queries(requests[i])[j], responses[i])]
    IN FlattenSeq(FlattenSeq([i \in DOMAIN requests \cap DOMAIN responses |-> Of(i)]))

\* The commands are sent; an Err or an error of Valkey is logged at most.
WriteToCache(cache, commands, lost) ==
    FoldLeft(LAMBDA c, i : IF i \in lost THEN c ELSE Apply(c, commands[i]),
             cache, [i \in DOMAIN commands |-> i])

-----------------------------------------------------------------------------
(* The chain below.                                                         *)

Reply(request, kind, rows) ==
    [id |-> request.id, version |-> request.version, kind |-> kind, rows |-> rows]

\* What the database may do with a request: its rows, or an error for some types of statement,
\* after which the statement has taken effect or not.
Answer(db, request, errors) ==
    LET e == Execute(db, request)
    IN {[db |-> e.db, response |-> Reply(request, "rows", e.rows)]}
       \cup (IF \A i \in DOMAIN request.sts : request.sts[i].type \notin errors THEN {}
             ELSE {[db |-> d, response |-> Reply(request, "error", {})] : d \in {db, e.db}})

\* The sinks send the batch and the database answers in any order.  CassandraSinkSingle waits
\* for all answers, CassandraSinkCluster returns what has come, old or new, and the rest in a
\* later run.
Upstream(state, requests, env) ==
    LET Run(order) ==
          LET done[n \in 0..Len(order)] ==
                IF n = 0 THEN {[db |-> state.db, responses |-> state.late]}
                ELSE UNION {{[db |-> a.db, responses |-> Append(s.responses, a.response)] :
                               a \in Answer(s.db, requests[order[n]], env.errors)} : s \in done[n - 1]}
          IN done[Len(order)]
        all == UNION {Run(order) : order \in SetToSeqs(DOMAIN requests)}
        counts(s) == IF env.sink = "single" THEN {Len(s.responses)} ELSE 0..Len(s.responses)
    IN UNION {{[db |-> s.db, responses |-> SubSeq(s.responses, 1, n),
                late |-> SubSeq(s.responses, n + 1, Len(s.responses))] : n \in counts(s)} : s \in all}

\* SimpleValkeyCache::transform.  env says which sink is below, whether lookups and writes to
\* the cache may fail, and the statements the database may answer with an error.
Transform(schemas, state, requests, env) ==
    LET ids == {requests[i].id : i \in DOMAIN requests}
        reads == {ReadFromCache(schemas, state.cache, requests, refused) :
                    refused \in IF env.lookups THEN SUBSET ids ELSE {{}}}
                 \cup (IF env.lookups THEN {FailedRead(schemas, requests)} ELSE {})
        After(read, up) ==
          LET commands == CacheMessages(schemas, read.misses, up.responses)
          IN {[cache |-> WriteToCache(state.cache, commands, lost), db |-> up.db, late |-> up.late,
               responses |-> up.responses \o read.hits] :
                lost \in IF env.writes THEN SUBSET DOMAIN commands ELSE {{}}}
    IN UNION {UNION {After(read, up) : up \in Upstream(state, read.misses, env)} : read \in reads}
=============================================================================
