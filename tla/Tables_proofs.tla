---------------------------- MODULE Tables_proofs ----------------------------
(***************************************************************************)
(* Proofs about Tables, for any keys, values and hash function, any        *)
(* capacities and any sequence of operations: a probe ends, at its key's   *)
(* bucket or where the key is to be put, and the table is the finite map.  *)
(*                                                                         *)
(* The core is Reachable: no bucket before an occupied one, on its key's   *)
(* path, is empty.  Removal keeps it because it leaves a tombstone, reuse  *)
(* because it takes the first of them, and growth because it puts every    *)
(* entry in the first empty bucket of its new path.                        *)
(***************************************************************************)
EXTENDS Tables, Orders, TLAPS

Bucket ==
    {Vacant, Tombstone} \cup [state : {"occupied"}, key : Keys, value : Values]

IsEntry(b) == b.state = "occupied"

\* No key is twice in the n buckets.
Unique(b, n) ==
    \A x, y \in 0 .. n - 1 :
        /\ IsEntry(b[x]) /\ IsEntry(b[y])
        /\ b[x].key = b[y].key
        => x = y

\* No empty bucket hides another from a probe for it.
ReachableBy(b, n, k, x) ==
    \E i \in 1 .. n : /\ Path(k, n)[i] = x
                      /\ \A j \in 1 .. i - 1 : b[Path(k, n)[j]] # Vacant
Reachable(b, n) ==
    \A x \in 0 .. n - 1 :
        IsEntry(b[x]) => ReachableBy(b, n, b[x].key, x)

Sound(b, n) == /\ n \in Nat \ {0} /\ b \in [0 .. n - 1 -> Bucket]
               /\ Unique(b, n) /\ Reachable(b, n)

Hashed == hash \in [Keys -> Nat]

-----------------------------------------------------------------------------
(* Paths.                                                                    *)

\* What a bucket is.
LEMMA BucketIs ==
    /\ Vacant \in Bucket /\ Tombstone \in Bucket /\ Vacant # Tombstone
    /\ ~IsEntry(Vacant) /\ ~IsEntry(Tombstone)
    /\ \A b \in Bucket :
        /\ b = Vacant \/ b = Tombstone \/ IsEntry(b)
        /\ IsEntry(b) => b.key \in Keys /\ b.value \in Values
BY DEF Bucket, Vacant, Tombstone, IsEntry

\* What its state says.
LEMMA StateIs ==
    /\ Vacant.state = "empty"
    /\ \A b \in Bucket : b = Tombstone <=> b.state = "tombstone"
BY DEF Bucket, Vacant, Tombstone

\* A new entry is a bucket.
LEMMA EntryIs ==
    ASSUME NEW k \in Keys, NEW v \in Values
    PROVE  LET e == [state |-> "occupied", key |-> k, value |-> v]
           IN  e \in Bucket /\ IsEntry(e) /\ e.key = k /\ e.value = v
BY DEF Bucket, IsEntry

\* The least of a set of numbers.
LEMMA LeastIs ==
    ASSUME NEW N \in SUBSET Nat, N # {}
    PROVE  Least(N) \in N /\ \A k \in N : Least(N) <= k
BY SomeLeast DEF Least

\* A path visits buckets only, and every bucket.
LEMMA PathIs ==
    ASSUME Hashed, NEW k \in Keys, NEW n \in Nat \ {0}
    PROVE  /\ Path(k, n) \in [1 .. n -> 0 .. n - 1]
           /\ \A x \in 0 .. n - 1 : \E i \in 1 .. n : Path(k, n)[i] = x
<1>1. PICK s \in 0 .. n - 1 : s = hash[k] % n
  BY DEF Hashed
<1>2. Path(k, n) = [i \in 1 .. n |-> (s + i - 1) % n]
  BY <1>1 DEF Path
<1>3. ASSUME NEW i \in 1 .. n
      PROVE  (s + i - 1) % n = IF s + i - 1 < n THEN s + i - 1 ELSE s + i - 1 - n
  <2>1. PICK a \in Nat : a = s + i - 1
    BY <1>3
  <2>2. CASE a < n
    BY <2>1, <2>2
  <2>3. CASE n <= a
    <3>1. a < n + n
      BY <2>1, <1>3
    <3>2. a % n = a - n
      BY <3>1, <2>3
    <3>3. QED
      BY <3>2, <2>1, <2>3
  <2>4. QED
    BY <2>1, <2>2, <2>3
<1>4. Path(k, n) \in [1 .. n -> 0 .. n - 1]
  <2>1. ASSUME NEW i \in 1 .. n PROVE (s + i - 1) % n \in 0 .. n - 1
    BY <1>3
  <2>2. QED
    BY <1>2, <2>1
<1>5. ASSUME NEW x \in 0 .. n - 1
      PROVE  \E i \in 1 .. n : Path(k, n)[i] = x
  <2>1. CASE s <= x
    <3>1. PICK i \in 1 .. n : i = x - s + 1
      BY <2>1
    <3>2. Path(k, n)[i] = x
      BY <3>1, <1>2, <1>3
    <3>3. QED
      BY <3>2
  <2>2. CASE x < s
    <3>1. PICK i \in 1 .. n : i = x + n - s + 1
      BY <2>2
    <3>2. s + i - 1 = x + n /\ ~(s + i - 1 < n) /\ s + i - 1 - n = x
      BY <3>1, <2>2
    <3>3. (s + i - 1) % n = x
      BY <3>2, <1>3
    <3>4. QED
      BY <3>3, <1>2
  <2>3. QED
    BY <2>1, <2>2
<1>6. QED
  BY <1>4, <1>5

-----------------------------------------------------------------------------
(* Probes.                                                                   *)

\* A probe finds the bucket that holds the key.
LEMMA ProbeHits ==
    ASSUME Hashed, NEW t, Sound(t.buckets, t.capacity), NEW k \in Keys,
           NEW x \in 0 .. t.capacity - 1, Holds(t.buckets[x], k)
    PROVE  Probe(t, k) = [hit |-> TRUE, at |-> x]
<1> DEFINE n == t.capacity
           b == t.buckets
           path == Path(k, n)
           stops == {i \in DOMAIN path : EndsProbe(b[path[i]], k)}
<1>1. n \in Nat \ {0} /\ b \in [0 .. n - 1 -> Bucket]
  BY DEF Sound
<1>2. path \in [1 .. n -> 0 .. n - 1]
  BY <1>1, PathIs
<1>3. PICK i \in 1 .. n : path[i] = x /\ \A j \in 1 .. i - 1 : b[path[j]] # Vacant
  <2>1. IsEntry(b[x]) /\ b[x].key = k
    BY DEF Holds, IsEntry
  <2>2. ReachableBy(b, n, k, x)
    BY <2>1 DEF Sound, Reachable
  <2>3. QED
    BY <2>2 DEF ReachableBy
<1>4. i \in stops /\ stops \subseteq 1 .. n
  BY <1>2, <1>3 DEF EndsProbe
<1> DEFINE end == Least(stops)
<1>5. end \in stops /\ end <= i
  <2>1. stops \in SUBSET Nat /\ stops # {}
    BY <1>4
  <2> HIDE DEF stops
  <2>2. QED
    BY <2>1, <1>4, LeastIs
<1>6. path[end] = x
  <2>1. CASE end = i
    BY <2>1, <1>3
  <2>2. CASE end # i
    <3>1. end \in 1 .. i - 1
      BY <2>2, <1>4, <1>5
    <3>2. b[path[end]] # Vacant /\ EndsProbe(b[path[end]], k)
      BY <3>1, <1>3, <1>5
    <3>3. Holds(b[path[end]], k)
      BY <3>2 DEF EndsProbe
    <3>4. path[end] \in 0 .. n - 1
      BY <1>2, <1>4, <1>5
    <3>5. Unique(b, n)
      BY DEF Sound
    <3>6. QED
      BY <3>3, <3>4, <3>5 DEF Holds, IsEntry, Unique
  <2>3. QED
    BY <2>1, <2>2
<1>7. stops # {} /\ Holds(b[path[end]], k)
  BY <1>4, <1>6
<1>8. QED
  BY <1>6, <1>7 DEF Probe

\* Where a key that is not in the table can be put.
Place(b, n, k, x) ==
    /\ x \in 0 .. n - 1 /\ b[x] \in {Vacant, Tombstone}
    /\ ReachableBy(b, n, k, x)

\* A probe for a key that is not in the table ends, where it can be put.
LEMMA ProbeMisses ==
    ASSUME Hashed, NEW t, NEW k \in Keys, t.capacity \in Nat \ {0},
           t.buckets \in [0 .. t.capacity - 1 -> Bucket],
           \A x \in 0 .. t.capacity - 1 : ~Holds(t.buckets[x], k),
           \E y \in 0 .. t.capacity - 1 : t.buckets[y] = Vacant
    PROVE  Probe(t, k).hit = FALSE /\ Place(t.buckets, t.capacity, k, Probe(t, k).at)
<1> DEFINE n == t.capacity
           b == t.buckets
           path == Path(k, n)
           stops == {i \in DOMAIN path : EndsProbe(b[path[i]], k)}
<1>1. n \in Nat \ {0} /\ b \in [0 .. n - 1 -> Bucket]
  OBVIOUS
<1>2. path \in [1 .. n -> 0 .. n - 1]
      /\ \A x \in 0 .. n - 1 : \E i \in 1 .. n : path[i] = x
  BY <1>1, PathIs
<1>3. stops = {i \in 1 .. n : b[path[i]] = Vacant}
  BY <1>2 DEF EndsProbe
<1>4. stops # {} /\ stops \in SUBSET Nat
  <2>1. PICK y \in 0 .. n - 1 : b[y] = Vacant
    OBVIOUS
  <2>2. PICK i \in 1 .. n : path[i] = y
    BY <1>2
  <2>3. i \in stops
    BY <1>3, <2>1, <2>2
  <2>4. QED
    BY <1>3, <2>3
<1>5. PICK end \in 1 .. n : /\ end = Least(stops) /\ b[path[end]] = Vacant
                            /\ \A j \in 1 .. end - 1 : b[path[j]] # Vacant
  <2>1. Least(stops) \in stops /\ \A j \in stops : Least(stops) <= j
    <3> HIDE DEF stops
    <3> QED BY <1>4, LeastIs
  <2>2. PICK l \in 1 .. n : l = Least(stops)
    BY <2>1, <1>3
  <2>3. ASSUME NEW j \in 1 .. l - 1 PROVE b[path[j]] # Vacant
    <3>1. j \in 1 .. n /\ ~(l <= j)
      BY <2>2
    <3>2. j \notin stops
      <4> HIDE DEF stops
      <4> QED BY <3>1, <2>1, <2>2
    <3>3. QED
      BY <3>1, <3>2, <1>3
  <2>4. QED
    BY <1>3, <2>1, <2>2, <2>3
<1> DEFINE graves == {i \in 1 .. end - 1 : b[path[i]] = Tombstone}
<1>6. ~Holds(b[path[end]], k)
  BY <1>2
<1>7. Probe(t, k) =
        [hit |-> FALSE, at |-> IF graves # {} THEN path[Least(graves)]
                               ELSE path[end]]
  BY <1>4, <1>5, <1>6 DEF Probe
<1>8. CASE graves = {}
  <2>1. Place(b, n, k, path[end])
    BY <1>2, <1>5 DEF Place, ReachableBy
  <2>2. QED
    BY <1>7, <1>8, <2>1
<1>9. CASE graves # {}
  <2>1. graves \in SUBSET Nat
    OBVIOUS
  <2>2. Least(graves) \in graves
    <3> HIDE DEF graves
    <3> QED BY <1>9, <2>1, LeastIs
  <2>3. PICK g \in graves : g = Least(graves)
    BY <2>2
  <2>4. g \in 1 .. n /\ g < end /\ b[path[g]] = Tombstone
    BY <2>3
  <2>5. ReachableBy(b, n, k, path[g])
    BY <2>4, <1>5 DEF ReachableBy
  <2>6. Place(b, n, k, path[g])
    BY <1>2, <2>4, <2>5 DEF Place
  <2>7. QED
    BY <1>7, <1>9, <2>3, <2>6
<1>10. QED
  BY <1>8, <1>9

-----------------------------------------------------------------------------
(* Changes of one bucket.                                                    *)

\* A bucket stays within reach while no bucket becomes empty.
LEMMA StaysReachable ==
    ASSUME Hashed, NEW n \in Nat \ {0}, NEW b, NEW c, NEW k \in Keys, NEW x,
           \A y \in 0 .. n - 1 : c[y] = Vacant => b[y] = Vacant,
           ReachableBy(b, n, k, x)
    PROVE  ReachableBy(c, n, k, x)
<1>1. PICK i \in 1 .. n : /\ Path(k, n)[i] = x
                          /\ \A j \in 1 .. i - 1 : b[Path(k, n)[j]] # Vacant
  BY DEF ReachableBy
<1>2. ASSUME NEW j \in 1 .. i - 1 PROVE c[Path(k, n)[j]] # Vacant
  <2>1. j \in 1 .. n
    OBVIOUS
  <2>2. Path(k, n)[j] \in 0 .. n - 1
    BY <2>1, PathIs
  <2>3. QED
    BY <1>1, <2>2
<1>3. QED
  BY <1>1, <1>2 DEF ReachableBy

\* The key of a bucket, or that of the entry put in its place, stays unique and
\* within reach.
LEMMA EntryFits ==
    ASSUME Hashed, NEW b, NEW n, Sound(b, n), NEW x \in 0 .. n - 1,
           NEW e \in Bucket, IsEntry(e),
           ReachableBy(b, n, e.key, x),
           \A y \in 0 .. n - 1 : Holds(b[y], e.key) => y = x
    PROVE  Sound([b EXCEPT ![x] = e], n)
<1> DEFINE c == [b EXCEPT ![x] = e]
<1>1. n \in Nat \ {0} /\ b \in [0 .. n - 1 -> Bucket] /\ Unique(b, n)
      /\ Reachable(b, n)
  BY DEF Sound
<1>2. /\ c \in [0 .. n - 1 -> Bucket] /\ c[x] = e
      /\ \A y \in 0 .. n - 1 : y # x => c[y] = b[y]
  BY <1>1
<1> HIDE DEF c
<1>3. Unique(c, n)
  <2> SUFFICES ASSUME NEW y \in 0 .. n - 1, NEW z \in 0 .. n - 1,
                      IsEntry(c[y]), IsEntry(c[z]),
                      c[y].key = c[z].key
               PROVE  y = z
    BY DEF Unique
  <2>1. CASE y = x
    BY <2>1, <1>2 DEF Holds, IsEntry
  <2>2. CASE z = x
    BY <2>2, <1>2 DEF Holds, IsEntry
  <2>3. CASE y # x /\ z # x
    BY <2>3, <1>1, <1>2 DEF Unique
  <2>4. QED
    BY <2>1, <2>2, <2>3
<1>4. \A y \in 0 .. n - 1 : c[y] = Vacant => b[y] = Vacant
  BY <1>2, BucketIs
<1>5. Reachable(c, n)
  <2> SUFFICES ASSUME NEW y \in 0 .. n - 1, IsEntry(c[y])
               PROVE  ReachableBy(c, n, c[y].key, y)
    BY DEF Reachable
  <2>1. c[y].key \in Keys
    BY <1>2, BucketIs
  <2>2. ReachableBy(b, n, c[y].key, y)
    <3>1. CASE y = x
      BY <3>1, <1>2
    <3>2. CASE y # x
      BY <3>2, <1>1, <1>2 DEF Reachable
    <3>3. QED
      BY <3>1, <3>2
  <2>3. QED
    BY <1>1, <1>4, <2>1, <2>2, StaysReachable
<1>6. QED
  BY <1>1, <1>2, <1>3, <1>5 DEF Sound, c

\* So does every key when a bucket becomes a tombstone.
LEMMA Buried ==
    ASSUME Hashed, NEW b, NEW n, Sound(b, n), NEW x \in 0 .. n - 1
    PROVE  Sound([b EXCEPT ![x] = Tombstone], n)
<1> DEFINE c == [b EXCEPT ![x] = Tombstone]
<1>1. n \in Nat \ {0} /\ b \in [0 .. n - 1 -> Bucket] /\ Unique(b, n)
      /\ Reachable(b, n)
  BY DEF Sound
<1>2. /\ c \in [0 .. n - 1 -> Bucket] /\ c[x] = Tombstone
      /\ \A y \in 0 .. n - 1 : y # x => c[y] = b[y]
  BY <1>1, BucketIs
<1> HIDE DEF c
<1>3. ASSUME NEW y \in 0 .. n - 1, IsEntry(c[y])
      PROVE  c[y] = b[y] /\ c[y].key \in Keys
  BY <1>2, <1>3, BucketIs
<1>4. Unique(c, n)
  BY <1>1, <1>3 DEF Unique
<1>5. \A y \in 0 .. n - 1 : c[y] = Vacant => b[y] = Vacant
  BY <1>2, BucketIs
<1>6. Reachable(c, n)
  <2> SUFFICES ASSUME NEW y \in 0 .. n - 1, IsEntry(c[y])
               PROVE  ReachableBy(c, n, c[y].key, y)
    BY DEF Reachable
  <2>1. ReachableBy(b, n, c[y].key, y)
    BY <1>1, <1>3 DEF Reachable
  <2>2. QED
    BY <1>1, <1>3, <1>5, <2>1, StaysReachable
<1>7. QED
  BY <1>1, <1>2, <1>4, <1>6 DEF Sound, c

-----------------------------------------------------------------------------
(* Counts.                                                                   *)

Entries(b, n) == {x \in 0 .. n - 1 : IsEntry(b[x])}
Graves(b, n) == {x \in 0 .. n - 1 : b[x] = Tombstone}

\* Buckets are counted by natural numbers.
LEMMA CountsAre ==
    ASSUME NEW n \in Nat, NEW b
    PROVE  /\ IsFiniteSet(Entries(b, n)) /\ Cardinality(Entries(b, n)) \in Nat
           /\ IsFiniteSet(Graves(b, n)) /\ Cardinality(Graves(b, n)) \in Nat
           /\ Cardinality(Entries(b, n)) <= n
<1>1. IsFiniteSet(0 .. n - 1) /\ Cardinality(0 .. n - 1) = n
  BY FS_Interval
<1>2. Entries(b, n) \in SUBSET (0 .. n - 1) /\ Graves(b, n) \in SUBSET (0 .. n - 1)
  BY DEF Entries, Graves
<1>3. QED
  BY <1>1, <1>2, FS_Subset, FS_CardinalityType

\* When fewer buckets are in use than there are, one is empty.
LEMMA SomeVacant ==
    ASSUME NEW n \in Nat, NEW b \in [0 .. n - 1 -> Bucket],
           Cardinality(Entries(b, n)) + Cardinality(Graves(b, n)) < n
    PROVE  \E x \in 0 .. n - 1 : b[x] = Vacant
<1> DEFINE S == Entries(b, n)
           T == Graves(b, n)
<1> SUFFICES ASSUME \A x \in 0 .. n - 1 : b[x] # Vacant PROVE FALSE
  OBVIOUS
<1>1. S \cup T = 0 .. n - 1
  BY BucketIs DEF Entries, Graves
<1>2. S \cap T = {}
  BY BucketIs DEF Entries, Graves
<1>3. IsFiniteSet(S) /\ IsFiniteSet(T)
      /\ Cardinality(S) \in Nat /\ Cardinality(T) \in Nat
  BY CountsAre
<1> HIDE DEF S, T
<1>4. Cardinality(S \cup T) = Cardinality(S) + Cardinality(T) - Cardinality(S \cap T)
  BY <1>3, FS_Union
<1>5. Cardinality(S \cap T) = 0
  BY <1>2, FS_EmptySet
<1>6. Cardinality(0 .. n - 1) = n
  BY FS_Interval
<1>7. Cardinality(S) + Cardinality(T) = n
  <2>1. PICK p \in Nat, q \in Nat : p = Cardinality(S) /\ q = Cardinality(T)
    BY <1>3
  <2>2. n = p + q - 0
    BY <2>1, <1>1, <1>4, <1>5, <1>6
  <2>3. QED
    BY <2>1, <2>2
<1>8. QED
  BY <1>7, <1>3 DEF S, T

\* Two sets that differ in one element at most.
LEMMA OneMoreOrLess ==
    ASSUME NEW S, NEW T, NEW x, IsFiniteSet(S), S \ {x} = T \ {x}
    PROVE  /\ IsFiniteSet(T)
           /\ x \in T /\ x \notin S => Cardinality(T) = Cardinality(S) + 1
           /\ x \notin T /\ x \in S => Cardinality(T) = Cardinality(S) - 1
           /\ (x \in T <=> x \in S) => Cardinality(T) = Cardinality(S)
<1>1. CASE x \in T
  <2>1. T = S \cup {x}
    BY <1>1
  <2>2. QED
    BY <1>1, <2>1, FS_AddElement
<1>2. CASE x \notin T
  <2>1. T = S \ {x}
    BY <1>2
  <2>2. QED
    BY <1>2, <2>1, FS_RemoveElement
<1>3. QED
  BY <1>1, <1>2

\* An entry is put in the place of another bucket.
LEMMA EntryCounts ==
    ASSUME NEW n \in Nat, NEW b \in [0 .. n - 1 -> Bucket], NEW x \in 0 .. n - 1,
           NEW e \in Bucket, IsEntry(e), NEW c, c[x] = e,
           \A y \in 0 .. n - 1 : y # x => c[y] = b[y]
    PROVE  /\ Cardinality(Entries(c, n)) =
                 IF IsEntry(b[x]) THEN Cardinality(Entries(b, n))
                 ELSE Cardinality(Entries(b, n)) + 1
           /\ Cardinality(Graves(c, n)) =
                 IF b[x] = Tombstone THEN Cardinality(Graves(b, n)) - 1
                 ELSE Cardinality(Graves(b, n))
<1>1. IsFiniteSet(Entries(b, n)) /\ IsFiniteSet(Graves(b, n))
  BY CountsAre
<1>2. /\ Entries(b, n) \ {x} = Entries(c, n) \ {x}
      /\ x \in Entries(c, n) /\ (x \in Entries(b, n) <=> IsEntry(b[x]))
  BY DEF Entries
<1>3. /\ Graves(b, n) \ {x} = Graves(c, n) \ {x}
      /\ x \notin Graves(c, n) /\ (x \in Graves(b, n) <=> b[x] = Tombstone)
  BY BucketIs DEF Graves
<1>4. QED
  BY <1>1, <1>2, <1>3, OneMoreOrLess

\* An entry is removed.
LEMMA GraveCounts ==
    ASSUME NEW n \in Nat, NEW b \in [0 .. n - 1 -> Bucket], NEW x \in 0 .. n - 1,
           IsEntry(b[x]), NEW c, c[x] = Tombstone,
           \A y \in 0 .. n - 1 : y # x => c[y] = b[y]
    PROVE  /\ Cardinality(Entries(c, n)) = Cardinality(Entries(b, n)) - 1
           /\ Cardinality(Graves(c, n)) = Cardinality(Graves(b, n)) + 1
<1>1. IsFiniteSet(Entries(b, n)) /\ IsFiniteSet(Graves(b, n))
  BY CountsAre
<1>2. /\ Entries(b, n) \ {x} = Entries(c, n) \ {x}
      /\ x \notin Entries(c, n) /\ x \in Entries(b, n)
  BY BucketIs DEF Entries
<1>3. /\ Graves(b, n) \ {x} = Graves(c, n) \ {x}
      /\ x \in Graves(c, n) /\ x \notin Graves(b, n)
  BY BucketIs DEF Graves
<1>4. QED
  BY <1>1, <1>2, <1>3, OneMoreOrLess

-----------------------------------------------------------------------------
(* Growth.                                                                   *)

\* The buckets b hold what the first i of the old ones do, in n places.
Rehashed(old, i, b, n) ==
    /\ Sound(b, n)
    /\ \A x \in 0 .. n - 1 :
          /\ b[x] # Tombstone
          /\ IsEntry(b[x]) => \E j \in 0 .. i - 1 : old[j] = b[x]
    /\ \A j \in 0 .. i - 1 :
          IsEntry(old[j]) => \E x \in 0 .. n - 1 : b[x] = old[j]
    /\ Cardinality(Entries(b, n)) = Cardinality(Entries(old, i))

\* A new table is empty.
LEMMA ColdIs ==
    ASSUME NEW n \in Nat \ {0}
    PROVE  /\ Sound(Cold(n), n)
           /\ \A x \in 0 .. n - 1 : Cold(n)[x] = Vacant
           /\ Cardinality(Entries(Cold(n), n)) = 0
           /\ Cardinality(Graves(Cold(n), n)) = 0
<1>1. \A x \in 0 .. n - 1 : Cold(n)[x] = Vacant
  BY DEF Cold
<1>2. Cold(n) \in [0 .. n - 1 -> Bucket]
  BY BucketIs DEF Cold
<1>3. \A x \in 0 .. n - 1 :
        ~IsEntry(Cold(n)[x]) /\ Cold(n)[x] # Tombstone
  BY <1>1, BucketIs
<1>4. Sound(Cold(n), n)
  BY <1>2, <1>3 DEF Sound, Unique, Reachable
<1>5. Entries(Cold(n), n) = {} /\ Graves(Cold(n), n) = {}
  BY <1>3 DEF Entries, Graves
<1>6. QED
  BY <1>1, <1>4, <1>5, FS_EmptySet

\* One more bucket is counted if it is occupied.
LEMMA CountsNext ==
    ASSUME NEW b, NEW i \in Nat
    PROVE  Cardinality(Entries(b, i + 1)) =
             IF IsEntry(b[i]) THEN Cardinality(Entries(b, i)) + 1
             ELSE Cardinality(Entries(b, i))
<1>1. 0 .. (i + 1) - 1 = (0 .. i - 1) \cup {i} /\ i \notin 0 .. i - 1
  OBVIOUS
<1>2. /\ Entries(b, i) \ {i} = Entries(b, i + 1) \ {i}
      /\ i \notin Entries(b, i) /\ (i \in Entries(b, i + 1) <=> IsEntry(b[i]))
  BY <1>1 DEF Entries
<1>3. IsFiniteSet(Entries(b, i))
  BY CountsAre
<1>4. QED
  BY <1>2, <1>3, OneMoreOrLess

\* One turn of grow's loop moves one entry.
LEMMA OneMoreRehashed ==
    ASSUME Hashed, NEW n \in Nat \ {0}, NEW m \in Nat, m < n,
           NEW old \in [0 .. m - 1 -> Bucket], Unique(old, m),
           NEW i \in 0 .. m - 1, NEW b, Rehashed(old, i, b, n)
    PROVE  Rehashed(old, i + 1, Placed(b, old[i], n), n)
<1>0. /\ b \in [0 .. n - 1 -> Bucket] /\ i \in Nat /\ i < n
      /\ old[i] \in Bucket
      /\ Cardinality(Entries(b, n)) = Cardinality(Entries(old, i))
  BY DEF Rehashed, Sound
<1>1. \A j \in 0 .. i : j \in 0 .. i - 1 \/ j = i
  OBVIOUS
<1>2. CASE ~IsEntry(old[i])
  <2>1. Placed(b, old[i], n) = b
    BY <1>2 DEF Placed, IsEntry
  <2>2. Cardinality(Entries(old, i + 1)) = Cardinality(Entries(old, i))
    BY <1>0, <1>2, CountsNext
  <2>3. QED
    BY <2>1, <2>2, <1>0, <1>1, <1>2 DEF Rehashed
<1>3. CASE IsEntry(old[i])
  <2> DEFINE e == old[i]
             path == Path(e.key, n)
             free == {j \in DOMAIN path : b[path[j]] = Vacant}
  <2>1. e.key \in Keys
    BY <1>0, <1>3, BucketIs
  <2>2. /\ path \in [1 .. n -> 0 .. n - 1]
        /\ \A x \in 0 .. n - 1 : \E j \in 1 .. n : path[j] = x
    BY <2>1, PathIs
  <2>3. \E x \in 0 .. n - 1 : b[x] = Vacant
    <3>1. Graves(b, n) = {}
      BY DEF Graves, Rehashed
    <3>2. Cardinality(Graves(b, n)) = 0
      BY <3>1, FS_EmptySet
    <3>3. /\ Cardinality(Entries(b, n)) \in Nat
          /\ Cardinality(Entries(b, n)) < n
      BY <1>0, CountsAre
    <3>4. QED
      BY <3>2, <3>3, <1>0, SomeVacant
  <2>4. free # {} /\ free \in SUBSET Nat
    <3>1. PICK x \in 0 .. n - 1 : b[x] = Vacant
      BY <2>3
    <3>2. PICK j \in 1 .. n : path[j] = x
      BY <2>2
    <3>3. DOMAIN path = 1 .. n
      BY <2>2
    <3> HIDE DEF path
    <3>4. j \in free
      BY <3>1, <3>2, <3>3
    <3>5. QED
      BY <3>3, <3>4
  <2>5. PICK l \in 1 .. n : /\ l = Least(free) /\ b[path[l]] = Vacant
                            /\ \A j \in 1 .. l - 1 : b[path[j]] # Vacant
    <3>1. Least(free) \in free /\ \A j \in free : Least(free) <= j
      <4> HIDE DEF free
      <4> QED BY <2>4, LeastIs
    <3>2. PICK l \in 1 .. n : l = Least(free)
      BY <2>2, <3>1
    <3>3. ASSUME NEW j \in 1 .. l - 1 PROVE b[path[j]] # Vacant
      <4>1. j \in 1 .. n /\ ~(l <= j)
        BY <3>2
      <4>2. j \notin free
        <5> HIDE DEF free
        <5> QED BY <4>1, <3>1, <3>2
      <4>3. QED
        BY <4>1, <4>2, <2>2
    <3>4. QED
      BY <3>1, <3>2, <3>3
  <2>6. PICK x \in 0 .. n - 1 : x = path[l]
    BY <2>2
  <2> DEFINE c == [b EXCEPT ![x] = e]
  <2>7. Placed(b, e, n) = c
    BY <2>5, <2>6, <1>3 DEF Placed, IsEntry
  <2>8. c[x] = e /\ \A y \in 0 .. n - 1 : y # x => c[y] = b[y]
    BY <1>0
  <2>9. Sound(c, n)
    <3>1. ReachableBy(b, n, e.key, x)
      BY <2>5, <2>6 DEF ReachableBy
    <3>2. ASSUME NEW y \in 0 .. n - 1, Holds(b[y], e.key) PROVE FALSE
      <4>1. PICK j \in 0 .. i - 1 : old[j] = b[y]
        BY <3>2 DEF Holds, IsEntry, Rehashed
      <4>2. j \in 0 .. m - 1 /\ j # i
        OBVIOUS
      <4>3. QED
        BY <4>1, <4>2, <3>2, <1>3 DEF Holds, IsEntry, Unique
    <3>3. QED
      BY <1>0, <1>3, <3>1, <3>2, EntryFits DEF Rehashed
  <2>10. ASSUME NEW y \in 0 .. n - 1
         PROVE  /\ c[y] # Tombstone
                /\ IsEntry(c[y]) => \E j \in 0 .. i : old[j] = c[y]
    <3>1. CASE y = x
      BY <3>1, <2>8, <1>0, <1>3, BucketIs
    <3>2. CASE y # x
      <4>1. c[y] = b[y]
        BY <3>2, <2>8
      <4>2. QED
        BY <4>1 DEF Rehashed
    <3>3. QED
      BY <3>1, <3>2
  <2>11. ASSUME NEW j \in 0 .. i, IsEntry(old[j])
         PROVE  \E y \in 0 .. n - 1 : c[y] = old[j]
    <3>1. CASE j = i
      BY <3>1, <2>8
    <3>2. CASE j # i
      <4>1. j \in 0 .. i - 1
        BY <3>2
      <4>2. PICK y \in 0 .. n - 1 : b[y] = old[j]
        BY <4>1, <2>11 DEF Rehashed
      <4>3. y # x
        BY <4>2, <2>5, <2>6, <2>11, BucketIs
      <4>4. QED
        BY <4>2, <4>3, <2>8
    <3>3. QED
      BY <3>1, <3>2
  <2>12. Cardinality(Entries(c, n)) = Cardinality(Entries(old, i + 1))
    <3>1. Cardinality(Entries(c, n)) = Cardinality(Entries(b, n)) + 1
      <4>1. ~IsEntry(b[x])
        BY <2>5, <2>6, BucketIs
      <4>2. e \in Bucket /\ n \in Nat /\ b \in [0 .. n - 1 -> Bucket]
        BY <1>0
      <4>3. IsEntry(e) /\ c[x] = e /\ \A y \in 0 .. n - 1 : y # x => c[y] = b[y]
        BY <1>3, <2>8
      <4> HIDE DEF e, c, path, free
      <4>4. Cardinality(Entries(c, n)) =
              IF IsEntry(b[x]) THEN Cardinality(Entries(b, n))
              ELSE Cardinality(Entries(b, n)) + 1
        BY <4>2, <4>3, EntryCounts
      <4>5. QED
        BY <4>1, <4>4
    <3>2. Cardinality(Entries(old, i + 1))
            = Cardinality(Entries(old, i)) + 1
      BY <1>0, <1>3, CountsNext
    <3>3. QED
      BY <3>1, <3>2, <1>0
  <2> HIDE DEF c
  <2>13. i + 1 - 1 = i
    BY <1>0
  <2>14. QED
    BY <2>7, <2>9, <2>10, <2>11, <2>12, <2>13 DEF Rehashed
<1>4. QED
  BY <1>2, <1>3

\* grow rehashes the whole table.
LEMMA GrownIs ==
    ASSUME Hashed, NEW t, Sound(t.buckets, t.capacity)
    PROVE  /\ Grown(t) = [capacity |-> 2 * t.capacity,
                          size |-> Cardinality(BucketsIn(t, "occupied")),
                          tombstones |-> 0, buckets |-> Grown(t).buckets]
           /\ Rehashed(t.buckets, t.capacity, Grown(t).buckets, 2 * t.capacity)
<1> DEFINE m == t.capacity
           n == 2 * t.capacity
           IsAfter(g, i) ==
               g = [j \in 0 .. i |-> IF j = 0 THEN Cold(n)
                                     ELSE Placed(g[j - 1], t.buckets[j - 1], n)]
           after == CHOOSE g : IsAfter(g, m)
<1>0. /\ m \in Nat \ {0} /\ n \in Nat \ {0} /\ m < n
      /\ t.buckets \in [0 .. m - 1 -> Bucket] /\ Unique(t.buckets, m)
  BY DEF Sound
<1>1. \A i \in Nat : \E g : IsAfter(g, i)
  <2> DEFINE N == {i \in Nat : ~\E g : IsAfter(g, i)}
  <2> SUFFICES ASSUME N # {} PROVE FALSE
    OBVIOUS
  <2>1. PICK i \in N : \A j \in N : i <= j
    <3>1. N \in SUBSET Nat
      OBVIOUS
    <3> HIDE DEF N
    <3> QED BY <3>1, SomeLeast
  <2>2. i \in Nat /\ ~\E g : IsAfter(g, i)
    OBVIOUS
  <2>3. CASE i = 0
    <3>1. IsAfter([j \in 0 .. 0 |-> Cold(n)], 0)
      OBVIOUS
    <3>2. QED
      BY <3>1, <2>2, <2>3
  <2>4. CASE i # 0
    <3>1. i - 1 \in Nat /\ ~(i <= i - 1)
      BY <2>2, <2>4
    <3>2. i - 1 \notin N
      <4> HIDE DEF N
      <4> QED BY <3>1, <2>1
    <3>3. PICK g : IsAfter(g, i - 1)
      BY <3>1, <3>2
    <3> DEFINE h == [j \in 0 .. i |-> IF j = i THEN Placed(g[i - 1], t.buckets[i - 1], n)
                                      ELSE g[j]]
    <3>4. IsAfter(h, i)
      <4>1. ASSUME NEW j \in 0 .. i
            PROVE  h[j] = IF j = 0 THEN Cold(n)
                          ELSE Placed(h[j - 1], t.buckets[j - 1], n)
        <5>1. CASE j = i
          BY <5>1, <2>2, <2>4
        <5>2. CASE j # i
          <6>1. j \in 0 .. i - 1 /\ (j # 0 => j - 1 \in 0 .. i /\ j - 1 # i)
            BY <5>2, <2>2
          <6>2. h[j] = g[j]
            BY <5>2
          <6>3. j # 0 => h[j - 1] = g[j - 1]
            BY <6>1
          <6>4. g[j] = IF j = 0 THEN Cold(n)
                       ELSE Placed(g[j - 1], t.buckets[j - 1], n)
            BY <3>3, <6>1
          <6>5. QED
            BY <6>2, <6>3, <6>4
        <5>3. QED
          BY <5>1, <5>2
      <4>2. QED
        BY <4>1
    <3>5. QED
      BY <3>4, <2>2
  <2>5. QED
    BY <2>3, <2>4
<1>2. IsAfter(after, m)
  BY <1>0, <1>1
<1>3. Grown(t) = [capacity |-> n, size |-> Cardinality(BucketsIn(t, "occupied")),
                  tombstones |-> 0, buckets |-> after[m]]
  BY DEF Grown
<1>4. after[0] = Cold(n)
      /\ \A i \in 1 .. m : after[i] = Placed(after[i - 1], t.buckets[i - 1], n)
  <2> DEFINE at(j) == IF j = 0 THEN Cold(n)
                      ELSE Placed(after[j - 1], t.buckets[j - 1], n)
  <2>1. after = [j \in 0 .. m |-> at(j)]
    BY <1>2
  <2>2. \A j \in 0 .. m : after[j] = at(j)
    <3> HIDE DEF at, after
    <3> QED BY <2>1
  <2>3. 0 \in 0 .. m /\ \A i \in 1 .. m : i \in 0 .. m /\ i # 0
    BY <1>0
  <2> HIDE DEF after, m, n
  <2>4. QED
    BY <2>2, <2>3
<1> HIDE DEF after
<1>5. Rehashed(t.buckets, 0, after[0], n)
  <2>1. Entries(t.buckets, 0) = {}
    BY DEF Entries
  <2>2. Cardinality(Entries(t.buckets, 0)) = 0
    BY <2>1, FS_EmptySet
  <2>3. /\ Sound(Cold(n), n) /\ Cardinality(Entries(Cold(n), n)) = 0
        /\ \A x \in 0 .. n - 1 : Cold(n)[x] = Vacant
    BY <1>0, ColdIs
  <2>4. \A x \in 0 .. n - 1 :
            Cold(n)[x] # Tombstone /\ ~IsEntry(Cold(n)[x])
    BY <2>3, BucketIs
  <2>5. 0 .. 0 - 1 = {}
    OBVIOUS
  <2>6. after[0] = Cold(n)
    BY <1>4
  <2> HIDE DEF n
  <2>7. QED
    BY <2>2, <2>3, <2>4, <2>5, <2>6 DEF Rehashed
<1>6. \A i \in 0 .. m : Rehashed(t.buckets, i, after[i], n)
  <2> DEFINE N == {i \in 0 .. m : ~Rehashed(t.buckets, i, after[i], n)}
  <2> SUFFICES ASSUME N # {} PROVE FALSE
    OBVIOUS
  <2>1. PICK i \in N : \A j \in N : i <= j
    <3>1. N \in SUBSET Nat
      BY <1>0
    <3> HIDE DEF N
    <3> QED BY <3>1, SomeLeast
  <2>2. i \in 0 .. m /\ i # 0
    BY <1>5
  <2>3. i - 1 \in 0 .. m - 1 /\ i - 1 \in 0 .. m /\ ~(i <= i - 1) /\ i - 1 + 1 = i
        /\ i \in 1 .. m
    BY <2>2, <1>0
  <2>4. i - 1 \notin N
    <3> HIDE DEF N
    <3> QED BY <2>1, <2>3
  <2>5. Rehashed(t.buckets, i - 1, after[i - 1], n)
    BY <2>3, <2>4
  <2>6. Rehashed(t.buckets, i - 1 + 1, Placed(after[i - 1], t.buckets[i - 1], n), n)
    BY <1>0, <2>3, <2>5, OneMoreRehashed
  <2>7. QED
    BY <1>4, <2>1, <2>3, <2>6
<1>7. m \in 0 .. m
  BY <1>0
<1>8. QED
  BY <1>3, <1>6, <1>7

-----------------------------------------------------------------------------
(* The invariant.                                                            *)

\* The n buckets are those of the map c.
Agrees(b, n, c) ==
    /\ \A x \in 0 .. n - 1 : IsEntry(b[x]) => c[b[x].key] = b[x].value
    /\ \A k \in Keys : c[k] # Absent => \E x \in 0 .. n - 1 : Holds(b[x], k)

\* The keys that the map c has.
Named(c) == {k \in Keys : c[k] # Absent}

\* The counters of t are right, and leave an empty bucket.
Counted(t, c) ==
    /\ t.size = Cardinality(Entries(t.buckets, t.capacity))
    /\ t.tombstones = Cardinality(Graves(t.buckets, t.capacity))
    /\ IsFiniteSet(Named(c)) /\ t.size = Cardinality(Named(c))
    /\ t.size + t.tombstones < t.capacity

\* The table t is sound, and the map c.
Good(t, c) ==
    /\ t = [capacity |-> t.capacity, size |-> t.size,
            tombstones |-> t.tombstones, buckets |-> t.buckets]
    /\ Sound(t.buckets, t.capacity)
    /\ Counted(t, c)
    /\ Agrees(t.buckets, t.capacity, c)

Maps == [Keys -> Values \cup {Absent}]

TableInv == Hashed /\ contents \in Maps /\ Good(table, contents)

\* The numbers of a good table.
LEMMA GoodNumbers ==
    ASSUME NEW t, NEW c, Good(t, c)
    PROVE  /\ t.capacity \in Nat \ {0} /\ t.size \in Nat /\ t.tombstones \in Nat
           /\ t.buckets \in [0 .. t.capacity - 1 -> Bucket]
           /\ \E x \in 0 .. t.capacity - 1 : t.buckets[x] = Vacant
<1>1. /\ t.capacity \in Nat \ {0}
      /\ t.buckets \in [0 .. t.capacity - 1 -> Bucket]
  BY DEF Good, Sound
<1>2. t.size \in Nat /\ t.tombstones \in Nat
  BY <1>1, CountsAre DEF Good, Counted
<1>3. QED
  BY <1>1, <1>2, SomeVacant DEF Good, Counted

\* The least of the numbers that reach the hint is doubled from the first.
LEMMA CapacityIs ==
    ASSUME NEW hint \in Nat
    PROVE  Capacity(hint) \in Nat \ {0}
<1> DEFINE IsDoubled(g, i) ==
               g = [n \in 0 .. i |-> IF n = 0 THEN InitialCapacity ELSE 2 * g[n - 1]]
           doubled == CHOOSE g : IsDoubled(g, hint)
<1>1. \A i \in Nat : \E g : IsDoubled(g, i)
  <2> DEFINE N == {i \in Nat : ~\E g : IsDoubled(g, i)}
  <2> SUFFICES ASSUME N # {} PROVE FALSE
    OBVIOUS
  <2>1. PICK i \in N : \A j \in N : i <= j
    <3>1. N \in SUBSET Nat
      OBVIOUS
    <3> HIDE DEF N
    <3> QED BY <3>1, SomeLeast
  <2>2. i \in Nat /\ ~\E g : IsDoubled(g, i)
    OBVIOUS
  <2>3. CASE i = 0
    <3>1. IsDoubled([n \in 0 .. 0 |-> InitialCapacity], 0)
      OBVIOUS
    <3>2. QED
      BY <3>1, <2>2, <2>3
  <2>4. CASE i # 0
    <3>1. i - 1 \in Nat /\ ~(i <= i - 1)
      BY <2>2, <2>4
    <3>2. i - 1 \notin N
      <4> HIDE DEF N
      <4> QED BY <3>1, <2>1
    <3>3. PICK g : IsDoubled(g, i - 1)
      BY <3>1, <3>2
    <3> DEFINE h == [n \in 0 .. i |-> IF n = i THEN 2 * g[i - 1] ELSE g[n]]
    <3>4. IsDoubled(h, i)
      <4>1. ASSUME NEW n \in 0 .. i
            PROVE  h[n] = IF n = 0 THEN InitialCapacity ELSE 2 * h[n - 1]
        <5>1. CASE n = i
          BY <5>1, <2>2, <2>4
        <5>2. CASE n # i
          <6>1. n \in 0 .. i - 1 /\ (n # 0 => n - 1 \in 0 .. i /\ n - 1 # i)
            BY <5>2, <2>2
          <6>2. h[n] = g[n]
            BY <5>2
          <6>3. n # 0 => h[n - 1] = g[n - 1]
            BY <6>1
          <6>4. g[n] = IF n = 0 THEN InitialCapacity ELSE 2 * g[n - 1]
            BY <3>3, <6>1
          <6>5. QED
            BY <6>2, <6>3, <6>4
        <5>3. QED
          BY <5>1, <5>2
      <4>2. QED
        BY <4>1
    <3>5. QED
      BY <3>4, <2>2
  <2>5. QED
    BY <2>3, <2>4
<1>2. IsDoubled(doubled, hint)
  BY <1>1
<1>3. doubled[0] = InitialCapacity
      /\ \A i \in 1 .. hint : doubled[i] = 2 * doubled[i - 1]
  <2> DEFINE at(j) == IF j = 0 THEN InitialCapacity ELSE 2 * doubled[j - 1]
  <2>1. doubled = [j \in 0 .. hint |-> at(j)]
    BY <1>2
  <2>2. \A j \in 0 .. hint : doubled[j] = at(j)
    <3> HIDE DEF at, doubled
    <3> QED BY <2>1
  <2>3. 0 \in 0 .. hint /\ \A i \in 1 .. hint : i \in 0 .. hint /\ i # 0
    OBVIOUS
  <2> HIDE DEF doubled
  <2>4. QED
    BY <2>2, <2>3
<1>4. Capacity(hint) = doubled[Least({n \in 0 .. hint : hint <= doubled[n]})]
  BY DEF Capacity
<1> HIDE DEF doubled
<1>5. \A i \in 0 .. hint : doubled[i] \in Nat /\ i < doubled[i]
  <2> DEFINE N == {i \in 0 .. hint : ~(doubled[i] \in Nat /\ i < doubled[i])}
  <2> SUFFICES ASSUME N # {} PROVE FALSE
    OBVIOUS
  <2>1. PICK i \in N : \A j \in N : i <= j
    <3>1. N \in SUBSET Nat
      OBVIOUS
    <3> HIDE DEF N
    <3> QED BY <3>1, SomeLeast
  <2>2. i \in 1 .. hint
    <3>1. i # 0
      BY <1>3, TablesAssumption
    <3>2. QED
      BY <3>1
  <2>3. i - 1 \in 0 .. hint /\ ~(i <= i - 1)
    BY <2>2
  <2>4. i - 1 \notin N
    <3> HIDE DEF N
    <3> QED BY <2>1, <2>3
  <2>5. doubled[i - 1] \in Nat /\ i - 1 < doubled[i - 1]
    BY <2>3, <2>4
  <2>6. doubled[i] = 2 * doubled[i - 1]
    BY <1>3, <2>2
  <2>7. doubled[i] \in Nat /\ i < doubled[i]
    BY <2>2, <2>5, <2>6
  <2>8. QED
    BY <2>7
<1> DEFINE S == {n \in 0 .. hint : hint <= doubled[n]}
<1>6. hint \in S /\ S \in SUBSET Nat
  BY <1>5
<1>7. Least(S) \in S
  <2> HIDE DEF S
  <2> QED BY <1>6, LeastIs
<1>8. QED
  BY <1>4, <1>5, <1>7

-----------------------------------------------------------------------------
(* The operations.                                                           *)

\* A table that has grown is as good, with room for more.
LEMMA GrownGood ==
    ASSUME Hashed, NEW t, NEW c \in Maps, Good(t, c)
    PROVE  /\ Good(Grown(t), c)
           /\ Grown(t).size + Grown(t).tombstones + 1 < Grown(t).capacity
<1> DEFINE m == t.capacity
           n == 2 * t.capacity
           old == t.buckets
<1>1. /\ m \in Nat \ {0} /\ t.size \in Nat /\ t.tombstones \in Nat
      /\ old \in [0 .. m - 1 -> Bucket] /\ Sound(old, m)
      /\ n \in Nat \ {0}
  BY GoodNumbers DEF Good
<1>2. PICK b : /\ Rehashed(old, m, b, n)
               /\ Grown(t) = [capacity |-> n,
                              size |-> Cardinality(BucketsIn(t, "occupied")),
                              tombstones |-> 0, buckets |-> b]
  BY <1>1, GrownIs
<1>3. BucketsIn(t, "occupied") = Entries(old, m)
  BY <1>1 DEF BucketsIn, Entries, IsEntry
<1>31. Cardinality(BucketsIn(t, "occupied")) = t.size
  BY <1>3 DEF Good, Counted
<1>4. /\ Grown(t).capacity = n /\ Grown(t).size = t.size
      /\ Grown(t).tombstones = 0 /\ Grown(t).buckets = b
      /\ Grown(t) = [capacity |-> n, size |-> t.size, tombstones |-> 0,
                     buckets |-> b]
  <2> HIDE DEF n
  <2> QED BY <1>2, <1>31
<1>5. t.size + t.tombstones < m
  BY DEF Good, Counted
<1>6. Counted(Grown(t), c)
  <2>1. Cardinality(Entries(b, n)) = t.size
    BY <1>2 DEF Rehashed, Good, Counted
  <2>2. Graves(b, n) = {}
    BY <1>2 DEF Rehashed, Graves
  <2>3. Cardinality(Graves(b, n)) = 0
    BY <2>2, FS_EmptySet
  <2>4. t.size + 0 < n
    BY <1>1, <1>5
  <2>5. IsFiniteSet(Named(c)) /\ t.size = Cardinality(Named(c))
    BY DEF Good, Counted
  <2> HIDE DEF n
  <2>6. QED
    BY <2>1, <2>3, <2>4, <2>5, <1>4 DEF Counted
<1>7. Agrees(b, n, c)
  <2>1. ASSUME NEW x \in 0 .. n - 1, IsEntry(b[x])
        PROVE  c[b[x].key] = b[x].value
    <3>1. PICK j \in 0 .. m - 1 : old[j] = b[x]
      BY <1>2, <2>1 DEF Rehashed
    <3>2. QED
      BY <3>1, <2>1 DEF Good, Agrees
  <2>2. ASSUME NEW k \in Keys, c[k] # Absent
        PROVE  \E x \in 0 .. n - 1 : Holds(b[x], k)
    <3>1. PICK j \in 0 .. m - 1 : Holds(old[j], k)
      BY <2>2 DEF Good, Agrees
    <3>2. IsEntry(old[j])
      BY <3>1 DEF Holds, IsEntry
    <3>3. PICK x \in 0 .. n - 1 : b[x] = old[j]
      BY <3>2, <1>2 DEF Rehashed
    <3>4. QED
      BY <3>1, <3>3
  <2> HIDE DEF n
  <2>3. QED
    BY <2>1, <2>2 DEF Agrees
<1>8. Sound(b, n)
  BY <1>2 DEF Rehashed
<1>9. t.size + 0 + 1 < n
  BY <1>1, <1>5
<1> HIDE DEF n
<1>10. QED
  BY <1>4, <1>6, <1>7, <1>8, <1>9 DEF Good

\* Putting an entry in the place that the probe gives.
PutIn(t, k, v) ==
    LET p == Probe(t, k)
        b == [t.buckets EXCEPT ![p.at] =
                 [state |-> "occupied", key |-> k, value |-> v]]
    IN IF p.hit THEN [t EXCEPT !.buckets = b]
       ELSE [t EXCEPT !.buckets = b, !.size = @ + 1,
                      !.tombstones = LessReused(t, p.at)]

\* In a good table with room the new entry replaces the key's, or is added.
LEMMA PutGood ==
    ASSUME Hashed, NEW t, NEW c \in Maps, Good(t, c),
           t.size + t.tombstones + 1 < t.capacity,
           NEW k \in Keys, NEW v \in Values
    PROVE  Good(PutIn(t, k, v), [c EXCEPT ![k] = v])
<1> DEFINE n == t.capacity
           b == t.buckets
           d == [c EXCEPT ![k] = v]
<1>1. /\ n \in Nat \ {0} /\ t.size \in Nat /\ t.tombstones \in Nat
      /\ b \in [0 .. n - 1 -> Bucket] /\ Sound(b, n)
      /\ \E x \in 0 .. n - 1 : b[x] = Vacant
  BY GoodNumbers DEF Good
<1>2. PICK e \in Bucket : /\ e = [state |-> "occupied", key |-> k, value |-> v]
                          /\ IsEntry(e) /\ e.key = k /\ e.value = v
  BY EntryIs
<1>3. v # Absent /\ d[k] = v /\ \A l \in Keys : l # k => d[l] = c[l]
  BY TablesAssumption DEF Maps
<1>4. /\ IsFiniteSet(Named(c)) /\ t.size = Cardinality(Named(c))
      /\ Named(c) \ {k} = Named(d) \ {k} /\ k \in Named(d)
  BY <1>3 DEF Named, Good, Counted
<1>5. t = [capacity |-> n, size |-> t.size, tombstones |-> t.tombstones,
           buckets |-> b]
  BY DEF Good
<1>6. t.size = Cardinality(Entries(b, n)) /\ t.tombstones = Cardinality(Graves(b, n))
      /\ t.size + t.tombstones < n
  BY DEF Good, Counted
<1> HIDE DEF d
<1>7. ASSUME NEW x \in 0 .. n - 1, NEW a,
             a = [b EXCEPT ![x] = e], Holds(b[x], k) \/ ~IsEntry(b[x]),
             \A y \in 0 .. n - 1 : Holds(b[y], k) => y = x
      PROVE  Agrees(a, n, d)
  <2>1. a[x] = e /\ \A y \in 0 .. n - 1 : y # x => a[y] = b[y]
    BY <1>1, <1>7
  <2>2. ASSUME NEW y \in 0 .. n - 1, IsEntry(a[y])
        PROVE  d[a[y].key] = a[y].value
    <3>1. CASE y = x
      BY <3>1, <2>1, <1>2, <1>3
    <3>2. CASE y # x
      <4>1. a[y] = b[y] /\ b[y].key \in Keys
        BY <3>2, <2>1, <2>2, <1>1, BucketIs
      <4>2. b[y].key # k
        BY <3>2, <4>1, <2>2, <1>7 DEF Holds, IsEntry
      <4>3. c[b[y].key] = b[y].value
        BY <4>1, <2>2 DEF Good, Agrees
      <4>4. QED
        BY <4>1, <4>2, <4>3, <1>3
    <3>3. QED
      BY <3>1, <3>2
  <2>3. ASSUME NEW l \in Keys, d[l] # Absent
        PROVE  \E y \in 0 .. n - 1 : Holds(a[y], l)
    <3>1. CASE l = k
      <4>1. Holds(a[x], k)
        BY <2>1, <1>2 DEF Holds, IsEntry
      <4>2. QED
        BY <3>1, <4>1
    <3>2. CASE l # k /\ ~Holds(b[x], l)
      <4>1. PICK y \in 0 .. n - 1 : Holds(b[y], l)
        BY <3>2, <2>3, <1>3 DEF Good, Agrees
      <4>2. y # x
        BY <4>1, <3>2
      <4>3. QED
        BY <4>1, <4>2, <2>1
    <3>3. CASE l # k /\ Holds(b[x], l)
      BY <3>3, <1>7 DEF Holds, IsEntry
    <3>4. QED
      BY <3>1, <3>2, <3>3
  <2>4. QED
    BY <2>2, <2>3 DEF Agrees
<1> DEFINE p == Probe(t, k)
           a == [b EXCEPT ![p.at] = e]
<1>8. PutIn(t, k, v) =
        IF p.hit THEN [t EXCEPT !.buckets = a]
        ELSE [t EXCEPT !.buckets = a, !.size = @ + 1,
                       !.tombstones = LessReused(t, p.at)]
  BY <1>2 DEF PutIn
<1>9. CASE \E x \in 0 .. n - 1 : Holds(b[x], k)
  <2>1. PICK x \in 0 .. n - 1 : Holds(b[x], k)
    BY <1>9
  <2>2. p.hit /\ p.at = x
    BY <1>1, <2>1, ProbeHits
  <2>3. IsEntry(b[x]) /\ b[x].key = k
    BY <2>1 DEF Holds, IsEntry
  <2>4. \A y \in 0 .. n - 1 : Holds(b[y], k) => y = x
    BY <2>3, <1>1 DEF Sound, Unique, Holds, IsEntry
  <2>5. a = [b EXCEPT ![x] = e]
    BY <2>2
  <2>6. PutIn(t, k, v) = [capacity |-> n, size |-> t.size,
                          tombstones |-> t.tombstones, buckets |-> a]
    <3> HIDE DEF p, a, n, b
    <3> QED BY <1>8, <2>2, <1>5
  <2>7. Sound(a, n)
    <3>1. ReachableBy(b, n, k, x)
      BY <1>1, <2>3 DEF Sound, Reachable
    <3>2. Sound([b EXCEPT ![x] = e], n)
      BY <1>1, <1>2, <2>4, <3>1, EntryFits
    <3>3. QED
      BY <2>5, <3>2
  <2>8. Agrees(a, n, d)
    <3> HIDE DEF a
    <3> QED BY <1>7, <2>1, <2>4, <2>5
  <2>9. a[x] = e /\ \A y \in 0 .. n - 1 : y # x => a[y] = b[y]
    BY <1>1, <2>5
  <2>10. /\ Cardinality(Entries(a, n)) = t.size
         /\ Cardinality(Graves(a, n)) = t.tombstones
    <3>1. b[x] # Tombstone
      BY <2>3, BucketIs
    <3> HIDE DEF a
    <3>2. /\ Cardinality(Entries(a, n)) =
                IF IsEntry(b[x]) THEN Cardinality(Entries(b, n))
                ELSE Cardinality(Entries(b, n)) + 1
          /\ Cardinality(Graves(a, n)) =
                IF b[x] = Tombstone THEN Cardinality(Graves(b, n)) - 1
                ELSE Cardinality(Graves(b, n))
      <4>1. n \in Nat /\ b \in [0 .. n - 1 -> Bucket] /\ IsEntry(e)
        BY <1>1, <1>2
      <4> HIDE DEF b, n
      <4>2. QED
        BY <4>1, <2>9, EntryCounts
    <3>3. QED
      BY <1>6, <2>3, <3>1, <3>2
  <2>11. IsFiniteSet(Named(d)) /\ Cardinality(Named(d)) = t.size
    <3>1. k \in Named(c)
      BY <2>3, <1>2, <1>1, BucketIs, TablesAssumption DEF Named, Good, Agrees
    <3>2. QED
      BY <3>1, <1>4, OneMoreOrLess
  <2> HIDE DEF a, n, b, p
  <2>12. QED
    BY <2>6, <2>7, <2>8, <2>10, <2>11, <1>6 DEF Good, Counted, d
<1>10. CASE \A x \in 0 .. n - 1 : ~Holds(b[x], k)
  <2>1. p.hit = FALSE /\ Place(b, n, k, p.at)
    BY <1>1, <1>10, ProbeMisses
  <2>2. PICK x \in 0 .. n - 1 : p.at = x
    BY <2>1 DEF Place
  <2>3. /\ b[x] \in {Vacant, Tombstone} /\ ~IsEntry(b[x])
        /\ ReachableBy(b, n, k, x)
    BY <2>1, <2>2, BucketIs DEF Place
  <2>4. a = [b EXCEPT ![x] = e]
    BY <2>2
  <2>5. PICK g \in Nat : /\ g = LessReused(t, x) /\ g <= t.tombstones
                         /\ g = IF b[x] = Tombstone THEN t.tombstones - 1
                                ELSE t.tombstones
    <3>1. CASE b[x] = Tombstone
      <4>1. x \in Graves(b, n)
        BY <3>1 DEF Graves
      <4>2. IsFiniteSet(Graves(b, n))
        BY <1>1, CountsAre
      <4>3. t.tombstones # 0
        BY <4>1, <4>2, <1>6, FS_EmptySet
      <4>4. LessReused(t, x) = t.tombstones - 1
        BY <3>1, <4>3 DEF LessReused
      <4>5. t.tombstones \in Nat
        BY <1>1
      <4>6. t.tombstones - 1 \in Nat /\ t.tombstones - 1 <= t.tombstones
        BY <4>3, <4>5
      <4> HIDE DEF b
      <4>7. QED
        BY <3>1, <4>4, <4>6
    <3>2. CASE b[x] # Tombstone
      BY <1>1, <3>2 DEF LessReused
    <3>3. QED
      BY <3>1, <3>2
  <2>6. PutIn(t, k, v) = [capacity |-> n, size |-> t.size + 1,
                          tombstones |-> g, buckets |-> a]
    <3> HIDE DEF p, a, n, b
    <3>1. PutIn(t, k, v) = [t EXCEPT !.buckets = a, !.size = t.size + 1,
                                     !.tombstones = g]
      BY <1>8, <2>1, <2>2, <2>5
    <3>2. PICK u, s : u = PutIn(t, k, v) /\ s = t.size + 1
      OBVIOUS
    <3>3. u = [t EXCEPT !.buckets = a, !.size = s, !.tombstones = g]
      BY <3>1, <3>2
    <3>4. t \in [capacity : {n}, size : {t.size}, tombstones : {t.tombstones},
                 buckets : {b}]
      BY <1>5
    <3>5. u = [capacity |-> n, size |-> s, tombstones |-> g, buckets |-> a]
      BY <3>3, <3>4
    <3>6. QED
      BY <3>2, <3>5
  <2>7. Sound(a, n)
    <3>1. Sound([b EXCEPT ![x] = e], n)
      BY <1>1, <1>2, <1>10, <2>3, EntryFits
    <3>2. QED
      BY <2>4, <3>1
  <2>8. Agrees(a, n, d)
    <3> HIDE DEF a
    <3> QED BY <1>7, <1>10, <2>3, <2>4
  <2>9. a[x] = e /\ \A y \in 0 .. n - 1 : y # x => a[y] = b[y]
    BY <1>1, <2>4
  <2>10. /\ Cardinality(Entries(a, n)) = t.size + 1
         /\ Cardinality(Graves(a, n)) = g
    <3> HIDE DEF a
    <3>1. /\ Cardinality(Entries(a, n)) =
                IF IsEntry(b[x]) THEN Cardinality(Entries(b, n))
                ELSE Cardinality(Entries(b, n)) + 1
          /\ Cardinality(Graves(a, n)) =
                IF b[x] = Tombstone THEN Cardinality(Graves(b, n)) - 1
                ELSE Cardinality(Graves(b, n))
      <4>1. n \in Nat /\ b \in [0 .. n - 1 -> Bucket] /\ IsEntry(e)
        BY <1>1, <1>2
      <4> HIDE DEF b, n
      <4>2. QED
        BY <4>1, <2>9, EntryCounts
    <3>2. QED
      BY <1>6, <2>3, <2>5, <3>1
  <2>11. IsFiniteSet(Named(d)) /\ Cardinality(Named(d)) = t.size + 1
    <3>1. k \notin Named(c)
      BY <1>10 DEF Named, Good, Agrees
    <3>2. QED
      BY <3>1, <1>4, OneMoreOrLess
  <2>12. t.size + 1 + g < n
    BY <1>1, <2>5
  <2> HIDE DEF a, n, b, p
  <2>13. QED
    BY <2>6, <2>7, <2>8, <2>10, <2>11, <2>12 DEF Good, Counted, d
<1>11. QED
  BY <1>9, <1>10

\* Making a tombstone of the key's bucket.
TakenOut(t, x) ==
    [t EXCEPT !.buckets[x] = Tombstone, !.size = @ - 1, !.tombstones = @ + 1]

\* A good table without one of its keys is good.
LEMMA RemoveGood ==
    ASSUME Hashed, NEW t, NEW c \in Maps, Good(t, c), NEW k \in Keys,
           NEW x \in 0 .. t.capacity - 1, Holds(t.buckets[x], k)
    PROVE  Good(TakenOut(t, x), [c EXCEPT ![k] = Absent])
<1> DEFINE n == t.capacity
           b == t.buckets
           d == [c EXCEPT ![k] = Absent]
           a == [b EXCEPT ![x] = Tombstone]
<1>1. /\ n \in Nat \ {0} /\ t.size \in Nat /\ t.tombstones \in Nat
      /\ b \in [0 .. n - 1 -> Bucket] /\ Sound(b, n)
  BY GoodNumbers DEF Good
<1>2. IsEntry(b[x]) /\ b[x].key = k
  BY DEF Holds, IsEntry
<1>3. d[k] = Absent /\ \A l \in Keys : l # k => d[l] = c[l]
  BY DEF Maps
<1>4. a[x] = Tombstone /\ \A y \in 0 .. n - 1 : y # x => a[y] = b[y]
  BY <1>1
<1>5. t = [capacity |-> n, size |-> t.size, tombstones |-> t.tombstones,
           buckets |-> b]
  BY DEF Good
<1>6. t.size = Cardinality(Entries(b, n)) /\ t.tombstones = Cardinality(Graves(b, n))
      /\ t.size + t.tombstones < n
  BY DEF Good, Counted
<1> HIDE DEF d
<1>7. TakenOut(t, x) = [capacity |-> n, size |-> t.size - 1,
                        tombstones |-> t.tombstones + 1, buckets |-> a]
  <2>1. TakenOut(t, x) = [t EXCEPT !.buckets = a, !.size = t.size - 1,
                                   !.tombstones = t.tombstones + 1]
    BY DEF TakenOut
  <2> HIDE DEF a, n, b
  <2>2. PICK u, s, g : /\ u = TakenOut(t, x)
                       /\ s = t.size - 1 /\ g = t.tombstones + 1
    OBVIOUS
  <2>3. u = [t EXCEPT !.buckets = a, !.size = s, !.tombstones = g]
    BY <2>1, <2>2
  <2>4. t \in [capacity : {n}, size : {t.size}, tombstones : {t.tombstones},
               buckets : {b}]
    BY <1>5
  <2>5. u = [capacity |-> n, size |-> s, tombstones |-> g, buckets |-> a]
    BY <2>3, <2>4
  <2>6. QED
    BY <2>2, <2>5
<1>8. Sound(a, n)
  BY <1>1, Buried
<1>9. Agrees(a, n, d)
  <2>1. ASSUME NEW y \in 0 .. n - 1, IsEntry(a[y])
        PROVE  d[a[y].key] = a[y].value
    <3>1. y # x /\ a[y] = b[y]
      BY <2>1, <1>4, BucketIs
    <3>2. b[y].key \in Keys
      BY <3>1, <2>1, <1>1, BucketIs
    <3>3. b[y].key # k
      BY <3>1, <2>1, <1>1, <1>2 DEF Sound, Unique
    <3>4. c[b[y].key] = b[y].value
      BY <3>1, <2>1 DEF Good, Agrees
    <3>5. QED
      BY <3>1, <3>2, <3>3, <3>4, <1>3
  <2>2. ASSUME NEW l \in Keys, d[l] # Absent
        PROVE  \E y \in 0 .. n - 1 : Holds(a[y], l)
    <3>1. l # k /\ c[l] # Absent
      BY <2>2, <1>3
    <3>2. PICK y \in 0 .. n - 1 : Holds(b[y], l)
      BY <3>1 DEF Good, Agrees
    <3>3. y # x
      BY <3>1, <3>2, <1>2 DEF Holds
    <3>4. QED
      BY <3>2, <3>3, <1>4
  <2> HIDE DEF a, b, n
  <2>3. QED
    BY <2>1, <2>2 DEF Agrees
<1>10. /\ Cardinality(Entries(a, n)) = t.size - 1
       /\ Cardinality(Graves(a, n)) = t.tombstones + 1
  <2>1. /\ n \in Nat /\ b \in [0 .. n - 1 -> Bucket] /\ IsEntry(b[x])
        /\ x \in 0 .. n - 1
    BY <1>1, <1>2
  <2> HIDE DEF a, b, n
  <2>2. /\ Cardinality(Entries(a, n)) = Cardinality(Entries(b, n)) - 1
        /\ Cardinality(Graves(a, n)) = Cardinality(Graves(b, n)) + 1
    BY <2>1, <1>4, GraveCounts
  <2>3. QED
    BY <2>2, <1>6
<1>11. IsFiniteSet(Named(d)) /\ Cardinality(Named(d)) = t.size - 1
  <2>1. c[k] = b[x].value /\ b[x].value \in Values
    BY <1>1, <1>2, BucketIs DEF Good, Agrees
  <2>2. k \in Named(c) /\ k \notin Named(d) /\ Named(c) \ {k} = Named(d) \ {k}
    BY <2>1, <1>3, TablesAssumption DEF Named
  <2>3. IsFiniteSet(Named(c)) /\ t.size = Cardinality(Named(c))
    BY DEF Good, Counted
  <2>4. QED
    BY <2>2, <2>3, OneMoreOrLess
<1>12. t.size - 1 + (t.tombstones + 1) < n
  BY <1>1, <1>6
<1> HIDE DEF a, b, n
<1>13. QED
  BY <1>7, <1>8, <1>9, <1>10, <1>11, <1>12 DEF Good, Counted, d

\* A probe for a key of the map, and for no other, hits, at the key's bucket.
LEMMA ProbeIs ==
    ASSUME Hashed, NEW t, NEW c \in Maps, Good(t, c), NEW k \in Keys
    PROVE  /\ Probe(t, k).hit \in BOOLEAN
           /\ Probe(t, k).hit <=> c[k] # Absent
           /\ Probe(t, k).hit =>
                /\ Probe(t, k).at \in 0 .. t.capacity - 1
                /\ Holds(t.buckets[Probe(t, k).at], k)
                /\ t.buckets[Probe(t, k).at].value = c[k]
<1> DEFINE n == t.capacity
           b == t.buckets
<1>1. /\ n \in Nat \ {0} /\ b \in [0 .. n - 1 -> Bucket] /\ Sound(b, n)
      /\ \E x \in 0 .. n - 1 : b[x] = Vacant
  BY GoodNumbers DEF Good
<1>2. CASE \E x \in 0 .. n - 1 : Holds(b[x], k)
  <2>1. PICK x \in 0 .. n - 1 : Holds(b[x], k)
    BY <1>2
  <2>2. Probe(t, k).hit = TRUE /\ Probe(t, k).at = x
    BY <1>1, <2>1, ProbeHits
  <2>3. IsEntry(b[x]) /\ b[x].key = k
    BY <2>1 DEF Holds, IsEntry
  <2>4. c[k] = b[x].value /\ b[x].value \in Values
    BY <2>3, <1>1, BucketIs DEF Good, Agrees
  <2>5. QED
    BY <2>1, <2>2, <2>4, TablesAssumption
<1>3. CASE \A x \in 0 .. n - 1 : ~Holds(b[x], k)
  <2>1. Probe(t, k).hit = FALSE
    BY <1>1, <1>3, ProbeMisses
  <2>2. c[k] = Absent
    BY <1>3 DEF Good, Agrees
  <2>3. QED
    BY <2>1, <2>2
<1>4. QED
  BY <1>2, <1>3

-----------------------------------------------------------------------------
(* The theorems.                                                             *)

\* A table begins empty.
LEMMA TableInitInv == TableInit => TableInv
<1> SUFFICES ASSUME TableInit PROVE TableInv
  OBVIOUS
<1>1. Hashed
  BY TablesAssumption DEF TableInit, Hashed
<1>2. contents \in Maps /\ \A k \in Keys : contents[k] = Absent
  BY DEF TableInit, Maps
<1>3. PICK hint \in Hints : table = EmptyTable(Capacity(hint))
  BY DEF TableInit
<1>4. PICK n \in Nat \ {0} : table = EmptyTable(n)
  BY <1>3, CapacityIs, TablesAssumption
<1>5. table = [capacity |-> n, size |-> 0, tombstones |-> 0, buckets |-> Cold(n)]
  BY <1>4 DEF EmptyTable
<1>6. /\ Sound(Cold(n), n)
      /\ \A x \in 0 .. n - 1 : ~IsEntry(Cold(n)[x])
      /\ Cardinality(Entries(Cold(n), n)) = 0 /\ Cardinality(Graves(Cold(n), n)) = 0
  BY ColdIs, BucketIs
<1>7. Named(contents) = {}
  BY <1>2 DEF Named
<1>8. IsFiniteSet(Named(contents)) /\ Cardinality(Named(contents)) = 0
  BY <1>7, FS_EmptySet
<1>9. Agrees(Cold(n), n, contents)
  BY <1>2, <1>6 DEF Agrees
<1>10. Good(table, contents)
  BY <1>5, <1>6, <1>8, <1>9 DEF Good, Counted
<1>11. QED
  BY <1>1, <1>2, <1>10 DEF TableInv

\* A key's path does not change with the table.
LEMMA SamePaths ==
    ASSUME hash' = hash, Sound(table'.buckets, table'.capacity)
    PROVE  Sound(table.buckets, table.capacity)'
<1> DEFINE n == table'.capacity
           b == table'.buckets
<1>2. Reachable(b, n) /\ Unique(b, n) /\ n \in Nat \ {0}
      /\ b \in [0 .. n - 1 -> Bucket]
  BY DEF Sound
<1>3. Reachable(table.buckets, table.capacity)'
  <2> SUFFICES ASSUME NEW x \in 0 .. n - 1, IsEntry(b[x])
               PROVE  \E i \in 1 .. n :
                        /\ [j \in 1 .. n |-> ((hash'[b[x].key] % n) + j - 1) % n][i] = x
                        /\ \A j \in 1 .. i - 1 :
                              b[[l \in 1 .. n |->
                                   ((hash'[b[x].key] % n) + l - 1) % n][j]] # Vacant
    BY DEF Reachable, ReachableBy, Path, IsEntry
  <2>1. ReachableBy(b, n, b[x].key, x)
    BY <1>2 DEF Reachable
  <2>2. QED
    BY <2>1 DEF ReachableBy, Path
<1>4. QED
  BY <1>2, <1>3 DEF Sound, Unique

\* Every operation keeps the invariant.
LEMMA TableStep == TableInv /\ [TableNext]_tableVars => TableInv'
<1> SUFFICES ASSUME TableInv, [TableNext]_tableVars PROVE TableInv'
  OBVIOUS
<1>1. Hashed /\ contents \in Maps /\ Good(table, contents)
  BY DEF TableInv
<1>0. ASSUME hash' = hash, Hashed', contents' \in Maps, Good(table', contents')
      PROVE  TableInv'
  <2>1. Sound(table.buckets, table.capacity)'
    BY <1>0, SamePaths DEF Good
  <2>2. QED
    BY <1>0, <2>1 DEF TableInv, Good, Counted, Agrees, Maps
<1>2. ASSUME NEW k \in Keys, NEW v \in Values, Put(k, v) PROVE TableInv'
  <2>1. PICK t : t = IF ShouldGrow(table) THEN Grown(table) ELSE table
    OBVIOUS
  <2>2. Good(t, contents) /\ t.size + t.tombstones + 1 < t.capacity
    <3>1. CASE ShouldGrow(table)
      BY <3>1, <2>1, <1>1, GrownGood
    <3>2. CASE ~ShouldGrow(table)
      <4>1. ~((table.size + table.tombstones + 1) * 10 > table.capacity * 7)
        BY <3>2 DEF ShouldGrow
      <4>2. /\ table.capacity \in Nat \ {0} /\ table.size \in Nat
            /\ table.tombstones \in Nat
        BY <1>1, GoodNumbers
      <4>3. table.size + table.tombstones + 1 < table.capacity
        BY <4>1, <4>2
      <4>4. QED
        BY <3>2, <4>3, <2>1, <1>1
    <3>3. QED
      BY <3>1, <3>2
  <2>3. /\ table' = PutIn(t, k, v) /\ contents' = [contents EXCEPT ![k] = v]
        /\ hash' = hash
    BY <1>2, <2>1 DEF Put, PutIn
  <2>4. Good(table', contents')
    BY <1>1, <2>2, <2>3, PutGood
  <2>5. Hashed' /\ contents' \in Maps
    BY <1>1, <2>3 DEF Hashed, Maps
  <2>6. QED
    BY <2>3, <2>4, <2>5, <1>0
<1>3. ASSUME NEW k \in Keys, RemoveKey(k) PROVE TableInv'
  <2>1. PICK x : x = Probe(table, k).at
    OBVIOUS
  <2>2. x \in 0 .. table.capacity - 1 /\ Holds(table.buckets[x], k)
    BY <1>1, <1>3, <2>1, ProbeIs DEF RemoveKey
  <2>3. /\ table' = TakenOut(table, x)
        /\ contents' = [contents EXCEPT ![k] = Absent] /\ hash' = hash
    BY <1>3, <2>1 DEF RemoveKey, TakenOut
  <2>4. Good(table', contents')
    BY <1>1, <2>2, <2>3, RemoveGood
  <2>5. Hashed' /\ contents' \in Maps
    BY <1>1, <2>3 DEF Hashed, Maps
  <2>6. QED
    BY <2>3, <2>4, <2>5, <1>0
<1>4. CASE UNCHANGED tableVars
  BY <1>0, <1>1, <1>4 DEF tableVars, Hashed
<1>5. QED
  BY <1>2, <1>3, <1>4 DEF TableNext

\* The invariant of the table, for any hash function and capacities: buckets
\* within reach, unique keys, counters, the map.
THEOREM TableInvariance == TableSpec => []TableInv
BY TableInitInv, TableStep, PTL DEF TableSpec

\* table_element finds what table_element_setter last put under a key, whatever
\* has been removed, reused and rehashed since.
THEOREM TablesAreMaps == TableSpec => []TableIsMap
<1>1. TableInv => TableIsMap
  <2> SUFFICES ASSUME TableInv, NEW k \in Keys PROVE Element(k) = contents[k]
    BY DEF TableIsMap
  <2>1. Hashed /\ contents \in Maps /\ Good(table, contents)
    BY DEF TableInv
  <2>2. /\ Probe(table, k).hit <=> contents[k] # Absent
        /\ Probe(table, k).hit =>
              table.buckets[Probe(table, k).at].value = contents[k]
    BY <2>1, ProbeIs
  <2>3. QED
    BY <2>2 DEF Element
<1>2. QED
  BY <1>1, TableInvariance, PTL

\* The counters of a table are those of its entries, its tombstones and its map:
\* `keys` and `values` fill what they allocate.
THEOREM CountersAreRight == TableSpec => []CountsMatch
<1>1. TableInv => CountsMatch
  <2> SUFFICES ASSUME TableInv PROVE CountsMatch
    OBVIOUS
  <2>1. Counted(table, contents)
    BY DEF TableInv, Good
  <2>2. table.capacity \in Nat \ {0}
        /\ table.buckets \in [0 .. table.capacity - 1 -> Bucket]
    BY DEF TableInv, Good, Sound
  <2>3. BucketsIn(table, "occupied") = Entries(table.buckets, table.capacity)
    BY <2>2 DEF BucketsIn, Entries, IsEntry
  <2>4. BucketsIn(table, "tombstone") = Graves(table.buckets, table.capacity)
    BY <2>2, StateIs DEF BucketsIn, Graves
  <2>5. QED
    BY <2>1, <2>3, <2>4 DEF Counted, Named, CountsMatch
<1>2. QED
  BY <1>1, TableInvariance, PTL

\* There is an empty bucket after any operations, tombstones or not: every probe
\* ends before it has gone around.
THEOREM ProbesAlwaysEnd == TableSpec => []ProbesEnd
<1>1. TableInv => ProbesEnd
  <2> SUFFICES ASSUME TableInv PROVE ProbesEnd
    OBVIOUS
  <2>1. PICK x \in 0 .. table.capacity - 1 : table.buckets[x] = Vacant
    BY GoodNumbers DEF TableInv
  <2>2. DOMAIN table.buckets = 0 .. table.capacity - 1
    BY DEF TableInv, Good, Sound
  <2>3. x \in BucketsIn(table, "empty")
    BY <2>1, <2>2, StateIs DEF BucketsIn
  <2>4. QED
    BY <2>3 DEF ProbesEnd
<1>2. QED
  BY <1>1, TableInvariance, PTL
=============================================================================
