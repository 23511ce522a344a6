------------------------- MODULE ValkeyCache_proofs -------------------------
(***************************************************************************)
(* What holds of the Valkey cache for any schema, statements and contents  *)
(* of the cache: an INSERT or UPDATE deletes what was cached for its row,  *)
(* and nothing else.                                                       *)
(***************************************************************************)
EXTENDS ValkeyCache, FiniteSetTheorems, TLAPS

KeyColumns(schema) == Range(schema.partition_key) \cup Range(schema.range_key)

\* A WHERE clause, or the values of an INSERT, with one relation per column of the key.
NamesRow(schema, where) ==
    \A c \in KeyColumns(schema) : c \in DOMAIN ValueMap(where) /\ Len(ValueMap(where)[c]) = 1

\* Two of them that write the columns of the key with the same values (a bind marker is a
\* text like any other).
SameRow(schema, w1, w2) ==
    \A c \in KeyColumns(schema) : ValueMap(w1)[c][1].value = ValueMap(w2)[c][1].value

\* The number of range-key columns given, when all of them are.
LEMMA IntervalSize == \A n \in Nat : Cardinality(1 .. n) = n
<1>. TAKE n \in Nat
<1>1. 1 \in Int /\ n \in Int
  OBVIOUS
<1>2. Cardinality(1 .. n) = IF 1 > n THEN 0 ELSE n - 1 + 1
  BY <1>1, FS_Interval, Zenon
<1>. QED BY <1>2

\* Where an element of a concatenation comes from.
LEMMA SecondPart ==
  ASSUME NEW S, NEW s \in Seq(S), NEW t \in Seq(S), NEW i \in DOMAIN (s \o t), i \notin DOMAIN s
  PROVE  i - Len(s) \in DOMAIN t /\ (s \o t)[i] = t[i - Len(s)]
<1>1. Len(s) \in Nat /\ DOMAIN s = 1 .. Len(s) /\ Len(t) \in Nat /\ DOMAIN t = 1 .. Len(t)
  OBVIOUS
<1>2. s \o t \in Seq(S) /\ Len(s \o t) = Len(s) + Len(t)
  OBVIOUS
<1>3. i \in 1 .. Len(s) + Len(t)
  BY <1>1, <1>2
<1>. QED BY <1>1, <1>3

\* Partition and range key together hold columns of the key only.
LEMMA KeyRange ==
  ASSUME NEW schema, NEW Columns,
         schema.partition_key \in Seq(Columns), schema.range_key \in Seq(Columns),
         NEW i \in DOMAIN (schema.partition_key \o schema.range_key)
  PROVE  (schema.partition_key \o schema.range_key)[i] \in KeyColumns(schema)
<1>1. CASE i \in DOMAIN schema.partition_key
  BY <1>1 DEF Range, KeyColumns
<1>2. CASE i \notin DOMAIN schema.partition_key
  <2>1. /\ i - Len(schema.partition_key) \in DOMAIN schema.range_key
        /\ (schema.partition_key \o schema.range_key)[i]
             = schema.range_key[i - Len(schema.partition_key)]
    BY <1>2, SecondPart, ZenonT(30)
  <2>. QED BY <2>1 DEF Range, KeyColumns
<1>. QED BY <1>1, <1>2

\* The key of a statement that names a row has the values of the whole key, in order.
LEMMA KeyOfRow ==
  ASSUME NEW schema, NEW where, NEW table, NEW Columns,
         schema.partition_key \in Seq(Columns), schema.range_key \in Seq(Columns),
         NamesRow(schema, where)
  PROVE  Key(schema, ValueMap(where), table)
           = <<table>> \o Values(schema.partition_key \o schema.range_key, ValueMap(where))
<1>. DEFINE values == ValueMap(where)
            range == schema.range_key
            given == {i \in DOMAIN range : range[i] \in DOMAIN values}
<1>1. given = 1 .. Len(range)
  BY DEF NamesRow, KeyColumns, Range
<1>2. Cardinality(given) = Len(range)
  <2>1. Len(range) \in Nat
    OBVIOUS
  <2>. QED BY <1>1, <2>1, IntervalSize, ZenonT(30)
<1>3. SubSeq(range, 1, Cardinality(given)) = range
  BY <1>2
<1>4. Range(schema.partition_key \o range) \subseteq KeyColumns(schema)
  BY KeyRange, ZenonT(30) DEF Range
<1>. QED BY <1>1, <1>2, <1>3, <1>4, ZenonT(30) DEF Key, NamesRow, KeyColumns

\* Statements that name the same row have the same hash, whatever else they ask for: the DEL
\* of an INSERT or UPDATE reaches all that build_valkey_key_from_cql3 cached for its row.
THEOREM SameRowSameHash ==
  ASSUME NEW schemas, NEW s1, NEW s2, NEW Columns,
         s1.table \in DOMAIN schemas, s2.table = s1.table,
         schemas[s1.table].partition_key \in Seq(Columns),
         schemas[s1.table].range_key \in Seq(Columns),
         NamesRow(schemas[s1.table], s1.where), NamesRow(schemas[s1.table], s2.where),
         SameRow(schemas[s1.table], s1.where, s2.where)
  PROVE  HashAddress(schemas, s1).key = HashAddress(schemas, s2).key
<1>. DEFINE schema == schemas[s1.table]
            key == schema.partition_key \o schema.range_key
            v1 == ValueMap(s1.where)
            v2 == ValueMap(s2.where)
<1>1. /\ Key(schema, v1, s1.table) = <<s1.table>> \o Values(key, v1)
      /\ Key(schema, v2, s1.table) = <<s1.table>> \o Values(key, v2)
  BY KeyOfRow, ZenonT(30)
<1>2. Values(key, v1) = Values(key, v2)
  <2>1. \A i \in DOMAIN key : key[i] \in KeyColumns(schema)
    BY KeyRange, ZenonT(30)
  <2>. QED BY <2>1, ZenonT(30) DEF Values, SameRow
<1>3. HashAddress(schemas, s1).key = Key(schema, v1, s1.table)
  BY DEF HashAddress, NoAddress
<1>4. HashAddress(schemas, s2).key = Key(schema, v2, s1.table)
  BY DEF HashAddress, NoAddress
<1>. QED BY <1>1, <1>2, <1>3, <1>4, ZenonT(30)

\* After DEL nothing is found under the key, and the rest is as before.
LEMMA DelForgets ==
  ASSUME NEW cache, NEW key, NEW address
  PROVE  HGet(Apply(cache, [name |-> "DEL", key |-> key]), address)
           = IF address.key = key THEN <<>> ELSE HGet(cache, address)
BY DEF HGet, Apply, Restrict

\* The length of a sequence, by its domain.
LEMMA LengthOfDomain == ASSUME NEW f, NEW n \in Nat, DOMAIN f = 1 .. n PROVE Len(f) = n
OBVIOUS

\* A statement that names a row has an address.
LEMMA RowHasAddress ==
  ASSUME NEW schemas, NEW st, NEW Columns, st.table \in DOMAIN schemas,
         schemas[st.table].partition_key \in Seq(Columns),
         schemas[st.table].range_key \in Seq(Columns),
         NamesRow(schemas[st.table], st.where)
  PROVE  HashAddress(schemas, st) # NoAddress
<1>. DEFINE schema == schemas[st.table]
            all == schema.partition_key \o schema.range_key
            key == Key(schema, ValueMap(st.where), st.table)
<1>1. key = <<st.table>> \o Values(all, ValueMap(st.where))
  BY KeyOfRow, ZenonT(30)
<1>2. all \in Seq(Columns)
  OBVIOUS
<1>3. PICK n \in Nat : DOMAIN all = 1 .. n
  <2>. HIDE DEF all
  <2>1. Len(all) \in Nat /\ DOMAIN all = 1 .. Len(all)
    BY <1>2
  <2>. QED BY <2>1, Zenon
<1>4. Len(Values(all, ValueMap(st.where))) = n
  <2>1. DOMAIN Values(all, ValueMap(st.where)) = DOMAIN all
    BY Zenon DEF Values
  <2>. HIDE DEF all
  <2>. QED BY <1>3, <2>1, LengthOfDomain
<1>5. key # IncompleteKey
  <2>. HIDE DEF all, key
  <2>. QED BY <1>1, <1>4 DEF IncompleteKey
<1>6. HashAddress(schemas, st).key = key
  BY <1>5 DEF HashAddress
<1>. QED BY <1>5, <1>6 DEF NoAddress

\* delete_row: for an INSERT or UPDATE and a SELECT that name the same row, whatever else they
\* say, the write sends one command, after which nothing is found in the cache for that SELECT
\* nor for any other with its hash, and what is cached under other hashes is still there.
THEOREM WriteClearsRow ==
  ASSUME NEW schemas, NEW cache, NEW write, NEW select, NEW response, NEW Columns,
         write.type \in {"insert", "update"},
         write.table \in DOMAIN schemas, select.table = write.table,
         schemas[write.table].partition_key \in Seq(Columns),
         schemas[write.table].range_key \in Seq(Columns),
         NamesRow(schemas[write.table], write.where),
         NamesRow(schemas[write.table], select.where),
         SameRow(schemas[write.table], write.where, select.where)
  PROVE  LET commands == CacheMessage(schemas, write, response)
         IN /\ Len(commands) = 1
            /\ \A address :
                 HGet(Apply(cache, commands[1]), address)
                   = IF address.key = HashAddress(schemas, select).key
                     THEN <<>> ELSE HGet(cache, address)
<1>. DEFINE key == HashAddress(schemas, write).key
<1>1. IsCacheable(write) = "DeleteRow"
  BY DEF IsCacheable
<1>2. HashAddress(schemas, write) # NoAddress
  BY RowHasAddress, ZenonT(30)
<1>3. CacheMessage(schemas, write, response) = <<[name |-> "DEL", key |-> key]>>
  BY <1>1, <1>2 DEF CacheMessage
<1>4. HashAddress(schemas, select).key = key
  BY SameRowSameHash, ZenonT(30)
<1>. HIDE DEF key
<1>. QED BY <1>3, <1>4, DelForgets
=============================================================================
