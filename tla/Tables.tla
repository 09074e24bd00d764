------------------------------- MODULE Tables -------------------------------
(* Hash tables (nod-runtime, tables.rs): open addressing with linear probing,*)
(* tombstones and doubling.  One table, whose hash function is arbitrary,    *)
(* but fixed: a key keeps its hash, and stays equal to itself alone, while   *)
(* it is in the table.  (A byte string that is changed there would not.)     *)
EXTENDS Naturals, Sequences, SequencesExt, FiniteSets

CONSTANTS
    Keys, Values,
    Absent,              \* what `element` returns by default
    Hashes,              \* the values that hashing may give
    InitialCapacity,     \* INITIAL_CAPACITY, 8 in the code
    Hints,               \* the capacities asked for
    MaxCapacity          \* bounds the doublings

ASSUME TablesAssumption ==
    /\ InitialCapacity \in Nat \ {0}
    /\ \E n \in 1 .. 10 : InitialCapacity = 2 ^ n      \* so h & mask is h % n
    /\ MaxCapacity \in Nat /\ Hashes \subseteq Nat /\ Hints \subseteq Nat
    /\ Absent \notin Values

VARIABLES
    hash,                \* object_hash
    table,               \* its slots: capacity, size, tombstones, buckets
    contents             \* ghost: the finite map

tableVars == <<hash, table, contents>>

Vacant == [state |-> "empty"]
Tombstone == [state |-> "tombstone"]
Cold(n) == [i \in 0 .. n - 1 |-> Vacant]
EmptyTable(n) ==
    [capacity |-> n, size |-> 0, tombstones |-> 0, buckets |-> Cold(n)]

Least(set) == CHOOSE i \in set : \A j \in set : i <= j

\* make_table: doubled until it is at least the hint.
Capacity(hint) ==
    LET doubled[n \in 0 .. hint] ==
            IF n = 0 THEN InitialCapacity ELSE 2 * doubled[n - 1]
    IN doubled[Least({n \in 0 .. hint : hint <= doubled[n]})]

TableInit ==
    /\ hash \in [Keys -> Hashes]
    /\ \E hint \in Hints : table = EmptyTable(Capacity(hint))
    /\ contents = [k \in Keys |-> Absent]

-----------------------------------------------------------------------------
\* The buckets in the order in which a key's probe looks at them.
Path(k, n) == [i \in 1 .. n |-> ((hash[k] % n) + i - 1) % n]

Holds(b, k) == b.state = "occupied" /\ b.key = k

\* Mutant: a probe ends at a tombstone.
EndsAtGrave(b, k) == b.state # "occupied" \/ Holds(b, k)

EndsProbe(b, k) == b = Vacant \/ Holds(b, k)

\* probe: the key's bucket, or the bucket where it is to be put: the first
\* tombstone before an empty bucket, or that bucket.
Probe(t, k) ==
    LET path == Path(k, t.capacity)
        stops == {i \in DOMAIN path : EndsProbe(t.buckets[path[i]], k)}
        end == IF stops = {} THEN t.capacity + 1 ELSE Least(stops)
        graves == {i \in 1 .. end - 1 : t.buckets[path[i]] = Tombstone}
    IN IF stops # {} /\ Holds(t.buckets[path[end]], k)
       THEN [hit |-> TRUE, at |-> path[end]]
       ELSE [hit |-> FALSE, at |-> IF graves # {} THEN path[Least(graves)]
                                   ELSE IF stops # {} THEN path[end] ELSE 0]

Element(k) ==
    IF Probe(table, k).hit THEN table.buckets[Probe(table, k).at].value
    ELSE Absent

\* Mutant: the tombstones are not counted.
GrowBySize(t) == (t.size + 1) * 10 > t.capacity * 7

\* The load may not exceed 70%.
ShouldGrow(t) == (t.size + t.tombstones + 1) * 10 > t.capacity * 7

\* An occupied bucket goes to the first empty place on its key's path.
Placed(buckets, b, n) ==
    LET path == Path(b.key, n)
        free == {j \in DOMAIN path : buckets[path[j]] = Vacant}
    IN IF b.state = "occupied" THEN [buckets EXCEPT ![path[Least(free)]] = b]
       ELSE buckets

BucketsIn(t, state) == {i \in DOMAIN t.buckets : t.buckets[i].state = state}

\* grow: the occupied buckets, counted, in order, into twice as many.
Grown(t) ==
    LET n == 2 * t.capacity
        after[i \in 0 .. t.capacity] ==
            IF i = 0 THEN Cold(n) ELSE Placed(after[i - 1], t.buckets[i - 1], n)
    IN [capacity |-> n, size |-> Cardinality(BucketsIn(t, "occupied")),
        tombstones |-> 0, buckets |-> after[t.capacity]]

\* Mutant: a tombstone that is put to use is still counted.
StillCounted(t, i) == t.tombstones

LessReused(t, i) ==
    IF t.buckets[i] = Tombstone THEN t.tombstones - 1 ELSE t.tombstones

\* table_element_setter.
Put(k, v) ==
    LET t == IF ShouldGrow(table) THEN Grown(table) ELSE table
        p == Probe(t, k)
        b == [t.buckets EXCEPT ![p.at] =
                 [state |-> "occupied", key |-> k, value |-> v]]
    IN /\ t.capacity <= MaxCapacity
       /\ table' = IF p.hit THEN [t EXCEPT !.buckets = b]
                   ELSE [t EXCEPT !.buckets = b, !.size = @ + 1,
                                  !.tombstones = LessReused(t, p.at)]
       /\ contents' = [contents EXCEPT ![k] = v]
       /\ UNCHANGED hash

\* table_remove_key.
RemoveKey(k) ==
    LET p == Probe(table, k) IN
    /\ p.hit
    /\ table' = [table EXCEPT !.buckets[p.at] = Tombstone, !.size = @ - 1,
                              !.tombstones = @ + 1]
    /\ contents' = [contents EXCEPT ![k] = Absent]
    /\ UNCHANGED hash

TableNext ==
    \/ \E k \in Keys, v \in Values : Put(k, v)
    \/ \E k \in Keys : RemoveKey(k)

TableSpec == TableInit /\ [][TableNext]_tableVars

-----------------------------------------------------------------------------
\* The table is the finite map that its operations describe: a probe finds what
\* was last put under its key, whatever has been removed, reused and rehashed.
TableIsMap == \A k \in Keys : Element(k) = contents[k]

\* The counters are right, so that `keys` and `values` fill the vectors they
\* allocate from `size` exactly, and no key is there twice.
CountsMatch ==
    /\ table.size = Cardinality(BucketsIn(table, "occupied"))
    /\ table.tombstones = Cardinality(BucketsIn(table, "tombstone"))
    /\ table.size = Cardinality({k \in Keys : contents[k] # Absent})

\* Between two operations there is an empty bucket: a probe never falls back on
\* bucket 0, which may be another key's.
ProbesEnd == BucketsIn(table, "empty") # {}
=============================================================================
