-------------------------- MODULE Dispatch_proofs --------------------------
(***************************************************************************)
(* Proofs about MethodTable and Dispatch, for any classes with the lists   *)
(* of C3, any methods, sealed domains and number of threads: lookup's      *)
(* result, typing, and the three safety invariants of calls.               *)
(*                                                                         *)
(* The core of the invariant is FillInv with AloneInv: unless `disturbed`, *)
(* who loads the cache or fills it is alone with it, so that the words     *)
(* loaded, or stored so far, are those of one entry; and SlotInv: an entry *)
(* of the present generation is what lookup gives in a table whose         *)
(* replacement, if any, has not been announced.                            *)
(***************************************************************************)
EXTENDS Dispatch, Orders

-----------------------------------------------------------------------------
(* Lookup.                                                                 *)

\* cpl_position of a class that is on the list is where it is.
LEMMA Position ==
    ASSUME NEW c \in DOMAIN Cpl, NEW d, IsSubclass(c, d)
    PROVE  /\ CplPosition(c, d) \in DOMAIN Cpl[c]
           /\ CplPosition(c, d) \in Nat
           /\ Cpl[c][CplPosition(c, d)] = d
<1>1. Cpl[c] \in Seq(DOMAIN Cpl)
  BY CplAssumption DEF Linearised
<1>2. \E i \in DOMAIN Cpl[c] : Cpl[c][i] = d
  BY <1>1 DEF IsSubclass, Contains
<1>3. CplPosition(c, d) \in DOMAIN Cpl[c] /\ Cpl[c][CplPosition(c, d)] = d
  BY <1>2 DEF CplPosition
<1>4. QED
  BY <1>1, <1>3

\* Subclassing is transitive.
LEMMA SubclassOfSubclass ==
    ASSUME NEW c \in DOMAIN Cpl, NEW d \in DOMAIN Cpl, NEW z,
           IsSubclass(c, d), IsSubclass(d, z)
    PROVE  IsSubclass(c, z)
<1>1. PICK k \in DOMAIN Cpl[c] : Cpl[c][k] = d
  BY Position
<1>2. PICK l \in DOMAIN Cpl[d] : Cpl[d][l] = z
  BY Position
<1>3. PICK h \in DOMAIN Cpl[c] : Cpl[c][h] = z
  <2>1. d \in ToSet(Cpl[c]) /\ z \in ToSet(Cpl[d])
    BY <1>1, <1>2 DEF ToSet
  <2>2. z \in ToSet(Cpl[c])
    BY <2>1, CplAssumption DEF Linearised
  <2>3. QED
    BY <2>2 DEF ToSet
<1>4. Cpl[c] \in Seq(DOMAIN Cpl)
  BY CplAssumption DEF Linearised
<1>5. QED
  BY <1>3, <1>4 DEF IsSubclass, Contains

\* compare_specificity orders the applicable methods: it is transitive.
LEMMA Specificity ==
    ASSUME NEW a \in Seq(DOMAIN Cpl), NEW m, NEW n, NEW p,
           Covers(m.specialisers, a), Covers(n.specialisers, a),
           Covers(p.specialisers, a),
           MoreSpecific(m, n, a), MoreSpecific(n, p, a)
    PROVE  MoreSpecific(m, p, a)
<1> DEFINE pos(s, i) == CplPosition(a[i], s.specialisers[i])
<1>1. \A i \in DOMAIN a : /\ pos(m, i) \in Nat /\ pos(n, i) \in Nat
                          /\ pos(p, i) \in Nat
  <2>1. ASSUME NEW i \in DOMAIN a
        PROVE  /\ a[i] \in DOMAIN Cpl
               /\ IsSubclass(a[i], m.specialisers[i])
               /\ IsSubclass(a[i], n.specialisers[i])
               /\ IsSubclass(a[i], p.specialisers[i])
    BY DEF Covers
  <2>2. QED
    BY <2>1, Position
<1>2. PICK i \in DOMAIN a :
          /\ \A j \in 1 .. i - 1 : m.specialisers[j] = n.specialisers[j]
          /\ m.specialisers[i] # n.specialisers[i]
          /\ pos(m, i) < pos(n, i)
  BY DEF MoreSpecific
<1>3. PICK k \in DOMAIN a :
          /\ \A j \in 1 .. k - 1 : n.specialisers[j] = p.specialisers[j]
          /\ n.specialisers[k] # p.specialisers[k]
          /\ pos(n, k) < pos(p, k)
  BY DEF MoreSpecific
<1>4. i \in Nat \ {0} /\ k \in Nat \ {0}
  OBVIOUS
<1>5. CASE i < k
  <2>1. i \in 1 .. k - 1 /\ n.specialisers[i] = p.specialisers[i]
    BY <1>3, <1>4, <1>5
  <2>2. \A j \in 1 .. i - 1 : m.specialisers[j] = p.specialisers[j]
    BY <1>2, <1>3, <1>4, <1>5
  <2>3. QED
    BY <1>2, <2>1, <2>2 DEF MoreSpecific
<1>6. CASE k < i
  <2>1. k \in 1 .. i - 1 /\ m.specialisers[k] = n.specialisers[k]
    BY <1>2, <1>4, <1>6
  <2>2. \A j \in 1 .. k - 1 : m.specialisers[j] = p.specialisers[j]
    BY <1>2, <1>3, <1>4, <1>6
  <2>3. QED
    BY <1>3, <2>1, <2>2 DEF MoreSpecific
<1>7. CASE i = k
  <2>1. \A j \in 1 .. i - 1 : m.specialisers[j] = p.specialisers[j]
    BY <1>2, <1>3, <1>7
  <2>2. pos(m, i) < pos(p, i)
    BY <1>1, <1>2, <1>3, <1>7
  <2>3. m.specialisers[i] # p.specialisers[i]
    BY <1>1, <2>2
  <2>4. QED
    BY <2>1, <2>2, <2>3 DEF MoreSpecific
<1>8. QED
  BY <1>4, <1>5, <1>6, <1>7

\* There is a chain of the applicable methods, each once, in which none is more
\* specific than an earlier one; so Chain is one.
LEMMA ChainIsLookup ==
    ASSUME NEW table, IsFiniteSet(table), NEW a \in Seq(DOMAIN Cpl)
    PROVE  /\ Chain(table, a) \in SetToSeqs(Applicable(table, a))
           /\ \A i, j \in DOMAIN Chain(table, a) :
                 i < j => ~MoreSpecific(Chain(table, a)[j], Chain(table, a)[i], a)
<1> DEFINE S == Applicable(table, a)
           R == {q \in S \X S : MoreSpecific(q[1], q[2], a)}
<1>1. IsFiniteSet(S)
  BY FS_Subset DEF Applicable
<1>2. \A m \in S : <<m, m>> \notin R
  BY DEF MoreSpecific
<1>3. \A m, n, p \in S : <<m, n>> \in R /\ <<n, p>> \in R => <<m, p>> \in R
  <2>1. ASSUME NEW m \in S, NEW n \in S, NEW p \in S,
               MoreSpecific(m, n, a), MoreSpecific(n, p, a)
        PROVE  MoreSpecific(m, p, a)
    BY <2>1, Specificity DEF Applicable
  <2>2. QED
    BY <2>1
<1>4. PICK s \in SetToSeqs(S) : Sorted(s, R)
  <2> HIDE DEF S, R
  <2> QED BY <1>1, <1>2, <1>3, SomeSorted
<1>5. \A i \in DOMAIN s : s[i] \in S
  BY <1>4 DEF SetToSeqs
<1>6. \A i, j \in DOMAIN s : i < j => ~MoreSpecific(s[j], s[i], a)
  BY <1>4, <1>5 DEF Sorted
<1>7. QED
  BY <1>6 DEF Chain

\* What lookup finds is a body, or nothing.
LEMMA LookupTyped ==
    ASSUME NEW table \in SUBSET Methods, IsFiniteSet(table),
           NEW a \in Seq(DOMAIN Cpl)
    PROVE  Look(table, a) \in Bodies \cup {Nil}
<1> DEFINE S == Applicable(table, a)
           k == Cardinality(S)
<1>1. Chain(table, a) \in [1 .. k -> S]
  BY ChainIsLookup DEF SetToSeqs
<1>2. k \in Nat
  BY FS_Subset, FS_CardinalityType DEF Applicable
<1>3. CASE Chain(table, a) # <<>>
  <2>1. k # 0
    BY <1>1, <1>3
  <2>2. Chain(table, a)[1] \in S
    BY <1>1, <1>2, <2>1
  <2>3. Chain(table, a)[1].body \in Bodies
    BY <2>2 DEF Applicable, Methods
  <2>4. QED
    BY <2>3 DEF Look, Lookup
<1>4. QED
  BY <1>3 DEF Look, Lookup

\* Two superclasses keep their order in the list of a subclass.
LEMMA SameOrder ==
    ASSUME NEW c \in DOMAIN Cpl, NEW d \in DOMAIN Cpl, IsSubclass(c, d),
           NEW x, NEW y, IsSubclass(d, x), IsSubclass(d, y),
           CplPosition(d, x) < CplPosition(d, y)
    PROVE  CplPosition(c, x) < CplPosition(c, y)
<1>1. PICK k \in DOMAIN Cpl[c] : Cpl[c][k] = d
  BY Position
<1>2. PICK u, v \in DOMAIN Cpl[c] : u < v /\ Cpl[c][u] = x /\ Cpl[c][v] = y
  <2>1. /\ CplPosition(d, x) \in DOMAIN Cpl[d] /\ Cpl[d][CplPosition(d, x)] = x
        /\ CplPosition(d, y) \in DOMAIN Cpl[d] /\ Cpl[d][CplPosition(d, y)] = y
    BY Position
  <2>2. d \in ToSet(Cpl[c]) /\ x \in ToSet(Cpl[d]) /\ y \in ToSet(Cpl[d])
    BY <1>1, <2>1 DEF ToSet
  <2>3. Before(Cpl[d], x, y)
    BY <2>1 DEF Before
  <2>4. Before(Cpl[c], x, y)
    BY <2>2, <2>3, CplAssumption DEF Linearised, Respects
  <2>5. QED
    BY <2>4 DEF Before
<1>3. IsSubclass(c, x) /\ IsSubclass(c, y)
  <2>1. Cpl[c] \in Seq(DOMAIN Cpl)
    BY CplAssumption DEF Linearised
  <2>2. QED
    BY <1>2, <2>1 DEF IsSubclass, Contains
<1>4. CplPosition(c, x) = u /\ CplPosition(c, y) = v
  BY <1>2, <1>3, Position, CplAssumption DEF Linearised, OnceEach
<1>5. QED
  BY <1>2, <1>4

\* Methods that apply to an estimate compare in the same way for any arguments
\* under it: what C3 makes sure of, and the resolver relies on.
LEMMA InheritedSpecificity ==
    ASSUME NEW a \in Seq(DOMAIN Cpl), NEW e \in Seq(DOMAIN Cpl), Covers(e, a),
           NEW m, NEW n, Covers(m.specialisers, e), Covers(n.specialisers, e)
    PROVE  MoreSpecific(m, n, a) <=> MoreSpecific(m, n, e)
<1>1. DOMAIN a = DOMAIN e
  BY DEF Covers
<1>2. ASSUME NEW i \in DOMAIN e
      PROVE  CplPosition(a[i], m.specialisers[i]) < CplPosition(a[i], n.specialisers[i])
             <=> CplPosition(e[i], m.specialisers[i]) < CplPosition(e[i], n.specialisers[i])
  <2>1. /\ a[i] \in DOMAIN Cpl /\ e[i] \in DOMAIN Cpl /\ IsSubclass(a[i], e[i])
        /\ IsSubclass(e[i], m.specialisers[i])
        /\ IsSubclass(e[i], n.specialisers[i])
    BY <1>1 DEF Covers
  <2> DEFINE x == m.specialisers[i]
             y == n.specialisers[i]
  <2> HIDE DEF x, y
  <2>2. CplPosition(e[i], x) < CplPosition(e[i], y)
          => CplPosition(a[i], x) < CplPosition(a[i], y)
    BY <2>1, SameOrder DEF x, y
  <2>3. CplPosition(e[i], y) < CplPosition(e[i], x)
          => CplPosition(a[i], y) < CplPosition(a[i], x)
    BY <2>1, SameOrder DEF x, y
  <2>4. CplPosition(e[i], x) = CplPosition(e[i], y) => x = y
    BY <2>1, Position DEF x, y
  <2>5. CplPosition(e[i], x) \in Nat /\ CplPosition(e[i], y) \in Nat
    BY <2>1, Position DEF x, y
  <2>6. CplPosition(a[i], x) \in Nat /\ CplPosition(a[i], y) \in Nat
    <3>1. ASSUME NEW z, IsSubclass(e[i], z) PROVE IsSubclass(a[i], z)
      BY <2>1, <3>1, SubclassOfSubclass
    <3>2. QED
      BY <2>1, <3>1, Position DEF x, y
  <2>7. QED
    BY <2>2, <2>3, <2>4, <2>5, <2>6 DEF x, y
<1>3. QED
  BY <1>1, <1>2 DEF MoreSpecific

\* A sequence of a finite set's members, each once, is of all of them.
LEMMA ChainHasAll ==
    ASSUME NEW T, NEW S \in SUBSET T, IsFiniteSet(S), NEW s \in SetToSeqs(S)
    PROVE  s \in Seq(T) /\ ToSet(s) = S
<1>1. Cardinality(S) \in Nat
  BY FS_CardinalityType
<1>2. s \in [1 .. Cardinality(S) -> S]
  BY DEF SetToSeqs
<1>3. ToSet(s) \subseteq S
  BY <1>2 DEF ToSet
<1>4. s \in Surjection(1 .. Cardinality(S), S)
  <2> DEFINE D == 1 .. Cardinality(S)
  <2>1. s \in Injection(D, S)
    BY <1>2 DEF SetToSeqs, Injection, IsInjective
  <2>2. Cardinality(D) = Cardinality(S)
    BY <1>1, FS_Interval
  <2> HIDE DEF D
  <2>3. QED
    BY <2>1, <2>2, FS_Injection DEF D
<1>5. \A x \in S : \E i \in 1 .. Cardinality(S) : s[i] = x
  BY <1>4 DEF Surjection
<1>6. S \subseteq ToSet(s)
  BY <1>2, <1>5 DEF ToSet
<1>7. s \in Seq(T)
  <2>1. s \in [1 .. Cardinality(S) -> T]
    BY <1>2
  <2>2. QED
    BY <1>1, <2>1
<1>8. QED
  BY <1>3, <1>6, <1>7

\* What applies to an estimate applies to any arguments under it.
LEMMA InheritedMethods ==
    ASSUME NEW a \in Seq(DOMAIN Cpl), NEW e \in Seq(DOMAIN Cpl), Covers(e, a),
           NEW s, Covers(s, e)
    PROVE  Covers(s, a)
<1>1. ASSUME NEW i \in DOMAIN a PROVE IsSubclass(a[i], s[i])
  <2>1. /\ a[i] \in DOMAIN Cpl /\ e[i] \in DOMAIN Cpl
        /\ IsSubclass(a[i], e[i]) /\ IsSubclass(e[i], s[i])
    BY DEF Covers
  <2>2. QED
    BY <2>1, SubclassOfSubclass
<1>2. QED
  BY <1>1 DEF Covers

\* Of two applicable methods with different specialisers one is more specific.
LEMMA SpecificityIsTotal ==
    ASSUME NEW a \in Seq(DOMAIN Cpl), NEW m \in Methods, NEW n \in Methods,
           Covers(m.specialisers, a), Covers(n.specialisers, a),
           m.specialisers # n.specialisers
    PROVE  MoreSpecific(m, n, a) \/ MoreSpecific(n, m, a)
<1> DEFINE ms == m.specialisers
           ns == n.specialisers
           D == {i \in DOMAIN a : ms[i] # ns[i]}
<1>1. /\ ms \in Seq(DOMAIN Cpl) /\ ns \in Seq(DOMAIN Cpl)
      /\ Len(ms) = Len(a) /\ Len(ns) = Len(a)
  BY DispatchAssumption DEF Methods, Covers
<1>2. D # {} /\ D \in SUBSET Nat
  <2>1. \E i \in 1 .. Len(a) : ms[i] # ns[i]
    <3> HIDE DEF ms, ns
    <3>1. SUFFICES ASSUME \A i \in 1 .. Len(a) : ms[i] = ns[i] PROVE ms = ns
      BY DEF ms, ns
    <3>2. DOMAIN ms = 1 .. Len(a) /\ DOMAIN ns = 1 .. Len(a)
      BY <1>1
    <3>3. ms = [i \in DOMAIN ms |-> ms[i]] /\ ns = [i \in DOMAIN ns |-> ns[i]]
      BY <1>1
    <3>4. QED
      BY <3>1, <3>2, <3>3
  <2>2. QED
    BY <2>1
<1>3. PICK i \in D : \A k \in D : i <= k
  <2> HIDE DEF D
  <2> QED BY <1>2, SomeLeast
<1>4. \A k \in 1 .. i - 1 : ms[k] = ns[k]
  BY <1>3
<1>5. /\ a[i] \in DOMAIN Cpl
      /\ IsSubclass(a[i], ms[i]) /\ IsSubclass(a[i], ns[i])
  BY <1>3 DEF Covers
<1>6. /\ CplPosition(a[i], ms[i]) \in Nat /\ CplPosition(a[i], ns[i]) \in Nat
      /\ CplPosition(a[i], ms[i]) # CplPosition(a[i], ns[i])
  <2> HIDE DEF ms, ns
  <2>1. /\ CplPosition(a[i], ms[i]) \in Nat
        /\ Cpl[a[i]][CplPosition(a[i], ms[i])] = ms[i]
    BY <1>5, Position
  <2>2. /\ CplPosition(a[i], ns[i]) \in Nat
        /\ Cpl[a[i]][CplPosition(a[i], ns[i])] = ns[i]
    BY <1>5, Position
  <2>3. ms[i] # ns[i]
    BY <1>3
  <2>4. QED
    BY <2>1, <2>2, <2>3
<1>7. i \in DOMAIN a /\ ms[i] # ns[i]
  BY <1>3
<1>8. QED
  BY <1>4, <1>6, <1>7 DEF MoreSpecific

-----------------------------------------------------------------------------
(* The invariant.                                                          *)
Pcs == {"idle", "loading", "missed", "reading", "filling", "running",
        "bumping", "checked", "resolving"}
Entries == [class : DOMAIN Cpl \cup {Nil}, method : Bodies \cup {Nil},
            generation : Nat]

\* Behind the lock; a change that has begun has a generation left for it.
TableInv ==
    /\ methods \in SUBSET Methods /\ IsFiniteSet(methods)
    /\ \A m, n \in methods : m.specialisers = n.specialisers => m = n
    /\ sealed \in BOOLEAN /\ domains \in SUBSET Domains
    /\ generation \in Nat \ {0}
    /\ generation + Cardinality(Changing) <= MaxGeneration

\* The cache, the resolved call and the threads.
ThreadInv ==
    /\ pc \in [Threads -> Pcs]
    /\ args \in [Threads -> Args \cup {Nil}]
    /\ seen \in [Threads -> Entries]
    /\ step \in [Threads -> 1 .. 4]
    /\ method \in [Threads -> Methods \cup {Nil}]
    /\ called \in [Threads -> Bodies \cup {Nil}]
    /\ DOMAIN allowed = Threads /\ DOMAIN before = Threads
    /\ disturbed \in BOOLEAN
    /\ slot \in Entries
    /\ bypassed \in BOOLEAN
    /\ direct \in [estimate : Args \cup {Nil}, sealed : BOOLEAN,
                   domains : SUBSET Domains, chain : {direct.chain}]
    /\ \A t, u \in At({"resolving"}) : t = u
    /\ At({"resolving"}) # {} => direct.estimate # Nil
    /\ \A t \in Threads :
          /\ args[t] = Nil <=> pc[t] \notin Calling
          /\ pc[t] \notin {"loading", "filling"} => step[t] = 1
          /\ pc[t] = "filling" => step[t] # 4
          /\ pc[t] = "checked" => method[t] \in Methods

\* Nothing recorded is ahead of the generation.
PastInv ==
    /\ slot.generation <= generation
    /\ \A t \in Threads : seen[t].generation <= generation

\* The ghost has what each table that is current gives, and what was found.
AllowedInv ==
    \A t \in At(Calling) :
        /\ \A m \in Current : Look(m, args[t]) \in allowed[t]
        /\ ~disturbed /\ pc[t] \in {"reading", "filling", "running"} =>
              called[t] \in allowed[t]

\* An undisturbed fill is the only use of the cache.
AloneInv ==
    ~disturbed => \A t \in At(Filling) : At(Loading \cup Filling) = {t}

\* It stores what lookup gives now; the words that have been stored, or loaded
\* by another call, are those of the cache.
FillInv ==
    ~disturbed =>
      \A t \in Threads :
        /\ pc[t] \in Filling => called[t] = Look(methods, args[t])
        /\ pc[t] = "filling" =>
             /\ seen[t].class = args[t][1] /\ seen[t].method = called[t]
             /\ \A i \in 1 .. step[t] - 1 : slot[Words[i]] = seen[t][Words[i]]
        /\ pc[t] = "loading" =>
             \A i \in 1 .. step[t] - 1 : seen[t][Words[i]] = slot[Words[i]]

\* A valid entry is what lookup gives in a current table.
SlotInv ==
    /\ ~disturbed /\ At(Filling) = {}
    /\ slot.class # Nil /\ slot.generation = generation
    => \A a \in Args : a[1] = slot.class =>
          \E m \in Current : slot.method = Look(m, a)

\* A seal that the resolver has found is there for good; a resolved call's chain
\* is of methods for its estimate, the most specific first.  Unless it was
\* bypassed, the sheltered methods are those of the chain, and each of the others
\* is still there or has been replaced.
SealInv ==
    /\ direct.sealed => sealed
    /\ direct.domains \subseteq domains
    /\ direct.chain # <<>> =>
          /\ direct.estimate \in Args
          /\ direct.chain \in Seq(Methods)
          /\ \A i \in DOMAIN direct.chain :
                Covers(direct.chain[i].specialisers, direct.estimate)
          /\ \A i, j \in DOMAIN direct.chain :
                i < j => ~MoreSpecific(direct.chain[j], direct.chain[i],
                                       direct.estimate)
    /\ direct.chain # <<>> /\ ~bypassed =>
          /\ \A m \in methods :
                Sheltered(m) /\ Covers(m.specialisers, direct.estimate)
                => m \in ToSet(direct.chain)
          /\ \A m \in ToSet(direct.chain) :
                /\ Sheltered(m) => m \in methods
                /\ \E n \in methods : n.specialisers = m.specialisers

\* Arguments are tuples of classes, the first of which there is.
LEMMA ArgsOK == \A a \in Args : a # Nil /\ a \in Seq(DOMAIN Cpl) /\ a[1] \in DOMAIN Cpl
<1>1. ASSUME NEW a \in Args PROVE a # Nil /\ a \in Seq(DOMAIN Cpl) /\ a # <<>>
  BY DispatchAssumption
<1>2. ASSUME NEW a \in Args PROVE a[1] \in DOMAIN Cpl
  BY <1>1
<1>3. QED
  BY <1>1, <1>2

\* The order in which the words of the cache are loaded and stored.
LEMMA WordsAre ==
    /\ DOMAIN Words = {1, 2, 3} /\ Len(Words) = 3
    /\ Words[1] = "class" /\ Words[2] = "method" /\ Words[3] = "generation"
BY DEF Words

\* add_method replaces the method with the same specialisers.
LEMMA WithKeeps ==
    ASSUME TableInv, NEW m \in Methods
    PROVE  /\ With(methods, m) \in SUBSET Methods
           /\ IsFiniteSet(With(methods, m))
           /\ \A p, q \in With(methods, m) : p.specialisers = q.specialisers => p = q
<1>1. IsFiniteSet(Without(methods, m.specialisers))
  BY FS_Subset DEF TableInv, Without
<1>2. IsFiniteSet(With(methods, m))
  BY <1>1, FS_AddElement DEF With
<1>3. QED
  BY <1>2 DEF TableInv, With, Without

-----------------------------------------------------------------------------
(* Steps.                                                                  *)

\* The cache, the resolved call and the threads keep their types.
LEMMA ThreadStep ==
    TableInv /\ ThreadInv /\ [Next]_vars => ThreadInv'
<1> SUFFICES ASSUME TableInv, ThreadInv, [Next]_vars PROVE ThreadInv'
  OBVIOUS
<1> USE DEF ThreadInv, Goto, At, Disturb, Pcs, Calling, Loading, Filling,
            tableVars, callVars, ghosts
<1>0. ColdSlot \in Entries
  BY DEF ColdSlot, Entries
<1>1. ASSUME NEW t \in Threads, BeginCall(t) PROVE ThreadInv'
  BY <1>1, ArgsOK DEF BeginCall
<1>2. ASSUME NEW t \in Threads, Load(t) PROVE ThreadInv'
  <2>1. step[t] \in {1, 2, 3}
    BY <1>2, WordsAre DEF Load
  <2>2. seen' \in [Threads -> Entries]
    <3>1. seen[t] \in Entries
      OBVIOUS
    <3>2. [seen[t] EXCEPT ![Words[step[t]]] = slot[Words[step[t]]]] \in Entries
      BY <2>1, <3>1, WordsAre DEF Entries
    <3>3. QED
      BY <1>2, <3>2 DEF Load
  <2>3. step' \in [Threads -> 1 .. 4]
    BY <1>2, <2>1 DEF Load
  <2>4. QED
    BY <1>2, <2>2, <2>3 DEF Load
<1>3. ASSUME NEW t \in Threads, FastCall(t) PROVE ThreadInv'
  BY <1>3, <1>0 DEF FastCall, Entries
<1>4. ASSUME NEW t \in Threads, Miss(t) PROVE ThreadInv'
  BY <1>4, <1>0 DEF Miss
<1>5. ASSUME NEW t \in Threads, SlowCall(t) PROVE ThreadInv'
  <2>1. Look(methods, args[t]) \in Bodies \cup {Nil}
    <3>1. args[t] \in Args
      BY <1>5 DEF SlowCall
    <3>2. args[t] \in Seq(DOMAIN Cpl)
      BY <3>1, ArgsOK
    <3>3. QED
      BY <3>2, LookupTyped DEF TableInv
  <2>2. QED
    BY <1>5, <2>1, ZenonT(60) DEF SlowCall
<1>6. ASSUME NEW t \in Threads, ReadGeneration(t) PROVE ThreadInv'
  <2>1. args[t] \in Args
    BY <1>6 DEF ReadGeneration
  <2>2. [class |-> args[t][1], method |-> called[t], generation |-> generation] \in Entries
    BY <1>6, <2>1, ArgsOK DEF ReadGeneration, TableInv, Entries
  <2>3. QED
    BY <1>6, <2>2 DEF ReadGeneration
<1>7. ASSUME NEW t \in Threads, Store(t) PROVE ThreadInv'
  <2>1. slot' \in Entries
    BY <1>7, WordsAre DEF Store, Entries
  <2>2. QED
    BY <1>7, <2>1, <1>0, WordsAre DEF Store
<1>8. ASSUME NEW t \in Threads, Return(t) PROVE ThreadInv'
  BY <1>8 DEF Return
<1>9. ASSUME NEW t \in Threads, AddMethod(t) PROVE ThreadInv'
  BY <1>9 DEF AddMethod, MayChange, Change
<1>10. ASSUME NEW t \in Threads, RemoveMethod(t) PROVE ThreadInv'
  BY <1>10 DEF RemoveMethod, MayChange, Change
<1>11. ASSUME NEW t \in Threads, CheckSealing(t) PROVE ThreadInv'
  BY <1>11 DEF CheckSealing, MayChange
<1>12. ASSUME NEW t \in Threads, AddChecked(t) PROVE ThreadInv'
  BY <1>12 DEF AddChecked, Change
<1>13. ASSUME NEW t \in Threads, BumpGeneration(t) PROVE ThreadInv'
  BY <1>13 DEF BumpGeneration
<1>14. ASSUME NEW t \in Threads, MarkSealed(t) PROVE ThreadInv'
  BY <1>14 DEF MarkSealed
<1>15. ASSUME NEW t \in Threads, RegisterSealedDomain(t) PROVE ThreadInv'
  BY <1>15 DEF RegisterSealedDomain
<1>16. ASSUME NEW t \in Threads, CheckClosure(t) PROVE ThreadInv'
  <2>1. At({"resolving"}) = {}
    BY <1>16 DEF CheckClosure
  <2>2. PICK e \in Args :
           direct' = [estimate |-> e, sealed |-> sealed, domains |-> domains,
                      chain |-> <<>>]
    BY <1>16 DEF CheckClosure
  <2>3. direct' \in [estimate : Args \cup {Nil}, sealed : BOOLEAN,
                     domains : SUBSET Domains, chain : {direct'.chain}]
    BY <2>2 DEF TableInv
  <2>4. direct'.estimate # Nil
    BY <2>2, ArgsOK
  <2>5. pc' \in [Threads -> Pcs] /\ \A u \in At({"resolving"})' : u = t
    BY <1>16, <2>1 DEF CheckClosure
  <2>6. QED
    BY <1>16, <2>3, <2>4, <2>5 DEF CheckClosure
<1>17. ASSUME NEW t \in Threads, Resolve(t) PROVE ThreadInv'
  <2>1. direct' \in [estimate : Args \cup {Nil}, sealed : BOOLEAN,
                     domains : SUBSET Domains, chain : {direct'.chain}]
    <3>1. Unresolved \in [estimate : Args \cup {Nil}, sealed : BOOLEAN,
                          domains : SUBSET Domains, chain : {<<>>}]
      BY Zenon DEF Unresolved
    <3>2. Unresolved.chain = <<>>
      BY DEF Unresolved
    <3>3. direct' = Unresolved
          \/ direct' = [direct EXCEPT !.chain = Chain(methods, direct.estimate)]
      BY <1>17 DEF Resolve
    <3>4. QED
      BY <3>1, <3>2, <3>3
  <2>2. pc' \in [Threads -> Pcs] /\ At({"resolving"})' = {}
    BY <1>17 DEF Resolve
  <2>3. QED
    BY <1>17, <2>1, <2>2 DEF Resolve
<1>18. CASE UNCHANGED vars
  BY <1>18 DEF vars
<1>19. QED
  BY <1>1, <1>2, <1>3, <1>4, <1>5, <1>6, <1>7, <1>8, <1>9, <1>10, <1>11,
     <1>12, <1>13, <1>14, <1>15, <1>16, <1>17, <1>18 DEF Next
\* What is behind the lock and the generation keep their types and bounds.
LEMMA TableStep ==
    TableInv /\ ThreadInv /\ [Next]_vars => TableInv'
<1> SUFFICES ASSUME TableInv, ThreadInv, [Next]_vars PROVE TableInv'
  OBVIOUS
<1> USE DEF TableInv, Goto, At, Disturb, Calling, Loading, Filling, tableVars, callVars, ghosts
<1>0. IsFiniteSet(Changing) /\ Cardinality(Changing) \in Nat
  BY DispatchAssumption, FS_Subset, FS_CardinalityType DEF Changing
<1>a. ASSUME Changing' = Changing, UNCHANGED <<methods, generation>>,
             sealed' \in BOOLEAN, domains' \in SUBSET Domains
      PROVE  TableInv'
  BY <1>a
<1>1. ASSUME NEW t \in Threads, BeginCall(t) PROVE TableInv'
  BY <1>1, <1>a DEF BeginCall, ThreadInv, Changing
<1>2. ASSUME NEW t \in Threads, Load(t) PROVE TableInv'
  BY <1>2, <1>a DEF Load, ThreadInv, Changing
<1>3. ASSUME NEW t \in Threads, FastCall(t) PROVE TableInv'
  BY <1>3, <1>a DEF FastCall, ThreadInv, Changing
<1>4. ASSUME NEW t \in Threads, Miss(t) PROVE TableInv'
  BY <1>4, <1>a DEF Miss, ThreadInv, Changing
<1>5. ASSUME NEW t \in Threads, SlowCall(t) PROVE TableInv'
  BY <1>5, <1>a DEF SlowCall, ThreadInv, Changing
<1>6. ASSUME NEW t \in Threads, ReadGeneration(t) PROVE TableInv'
  BY <1>6, <1>a DEF ReadGeneration, ThreadInv, Changing
<1>7. ASSUME NEW t \in Threads, Store(t) PROVE TableInv'
  BY <1>7, <1>a DEF Store, ThreadInv, Changing
<1>8. ASSUME NEW t \in Threads, Return(t) PROVE TableInv'
  BY <1>8, <1>a DEF Return, ThreadInv, Changing
<1>9. ASSUME NEW t \in Threads, AddMethod(t) PROVE TableInv'
  <2>1. PICK m \in Methods : Change(t, With(methods, m), FALSE)
    BY <1>9 DEF AddMethod
  <2>2. /\ methods' \in SUBSET Methods /\ IsFiniteSet(methods')
        /\ \A p, q \in methods' : p.specialisers = q.specialisers => p = q
    BY <2>1, WithKeeps DEF Change
  <2>3. Changing' = Changing \cup {t} /\ t \notin Changing
    BY <1>9, <2>1 DEF AddMethod, MayChange, Change, ThreadInv, Changing
  <2>4. Cardinality(Changing') = Cardinality(Changing) + 1
    BY <1>0, <2>3, FS_AddElement
  <2>5. QED
    BY <1>9, <1>0, <2>2, <2>3, <2>4, DispatchAssumption
       DEF AddMethod, MayChange
<1>10. ASSUME NEW t \in Threads, RemoveMethod(t) PROVE TableInv'
  <2>1. PICK s \in Signatures : Change(t, Without(methods, s), FALSE)
    BY <1>10 DEF RemoveMethod
  <2>2. /\ methods' \in SUBSET Methods /\ IsFiniteSet(methods')
        /\ \A p, q \in methods' : p.specialisers = q.specialisers => p = q
    BY <2>1, FS_Subset DEF Change, Without
  <2>3. Changing' = Changing \cup {t} /\ t \notin Changing
    BY <1>10, <2>1 DEF RemoveMethod, MayChange, Change, ThreadInv, Changing
  <2>4. Cardinality(Changing') = Cardinality(Changing) + 1
    BY <1>0, <2>3, FS_AddElement
  <2>5. QED
    BY <1>10, <1>0, <2>2, <2>3, <2>4, DispatchAssumption
       DEF RemoveMethod, MayChange
<1>11. ASSUME NEW t \in Threads, CheckSealing(t) PROVE TableInv'
  <2>1. Changing' = Changing \cup {t} /\ t \notin Changing
    BY <1>11 DEF CheckSealing, MayChange, ThreadInv, Changing
  <2>2. Cardinality(Changing') = Cardinality(Changing) + 1
    BY <1>0, <2>1, FS_AddElement
  <2>3. QED
    BY <1>11, <1>0, <2>2, DispatchAssumption
       DEF CheckSealing, MayChange
<1>12. ASSUME NEW t \in Threads, AddChecked(t) PROVE TableInv'
  <2>1. method[t] \in Methods /\ Change(t, With(methods, method[t]), ~Refused(method[t]))
    BY <1>12 DEF AddChecked, ThreadInv, Changing
  <2>2. /\ methods' \in SUBSET Methods /\ IsFiniteSet(methods')
        /\ \A p, q \in methods' : p.specialisers = q.specialisers => p = q
    BY <2>1, WithKeeps DEF Change
  <2>3. Changing' = Changing
    BY <1>12, <2>1 DEF AddChecked, Change, ThreadInv, Changing
  <2>4. QED
    BY <1>12, <2>2, <2>3 DEF AddChecked
<1>13. ASSUME NEW t \in Threads, BumpGeneration(t) PROVE TableInv'
  <2>1. Changing' = Changing \ {t} /\ t \in Changing
    BY <1>13 DEF BumpGeneration, ThreadInv, Changing
  <2>2. Cardinality(Changing') = Cardinality(Changing) - 1
    BY <1>0, <2>1, FS_RemoveElement
  <2>3. QED
    BY <1>13, <1>0, <2>2 DEF BumpGeneration, Bumped
<1>14. ASSUME NEW t \in Threads, MarkSealed(t) PROVE TableInv'
  BY <1>14, <1>a DEF MarkSealed, ThreadInv, Changing
<1>15. ASSUME NEW t \in Threads, RegisterSealedDomain(t) PROVE TableInv'
  BY <1>15, <1>a DEF RegisterSealedDomain, ThreadInv, Changing
<1>16. ASSUME NEW t \in Threads, CheckClosure(t) PROVE TableInv'
  BY <1>16, <1>a DEF CheckClosure, ThreadInv, Changing
<1>17. ASSUME NEW t \in Threads, Resolve(t) PROVE TableInv'
  BY <1>17, <1>a DEF Resolve, ThreadInv, Changing
<1>18. CASE UNCHANGED vars
  BY <1>18, <1>a DEF vars, Changing
<1>19. QED
  BY <1>1, <1>2, <1>3, <1>4, <1>5, <1>6, <1>7, <1>8, <1>9, <1>10, <1>11,
     <1>12, <1>13, <1>14, <1>15, <1>16, <1>17, <1>18 DEF Next

\* No cache has a generation that is still to come.
LEMMA PastStep ==
    TableInv /\ ThreadInv /\ PastInv /\ [Next]_vars => PastInv'
<1> SUFFICES ASSUME TableInv, ThreadInv, PastInv, [Next]_vars PROVE PastInv'
  OBVIOUS
<1> USE DEF PastInv, TableInv, ThreadInv, Goto, At, Disturb, Calling, Loading, Filling, tableVars, callVars, ghosts
<1>1. ASSUME NEW t \in Threads, BeginCall(t) PROVE PastInv'
  BY <1>1 DEF BeginCall
<1>2. ASSUME NEW t \in Threads, Load(t) PROVE PastInv'
  <2>1. step[t] \in {1, 2, 3}
    BY <1>2, WordsAre DEF Load
  <2>2. QED
    BY <1>2, <2>1, WordsAre DEF Load, Entries
<1>3. ASSUME NEW t \in Threads, FastCall(t) PROVE PastInv'
  BY <1>3 DEF FastCall, ColdSlot
<1>4. ASSUME NEW t \in Threads, Miss(t) PROVE PastInv'
  BY <1>4 DEF Miss, ColdSlot
<1>5. ASSUME NEW t \in Threads, SlowCall(t) PROVE PastInv'
  BY <1>5 DEF SlowCall
<1>6. ASSUME NEW t \in Threads, ReadGeneration(t) PROVE PastInv'
  BY <1>6 DEF ReadGeneration
<1>7. ASSUME NEW t \in Threads, Store(t) PROVE PastInv'
  <2>1. step[t] \in {1, 2, 3}
    BY <1>7, WordsAre DEF Store
  <2>2. slot'.generation <= generation
    BY <1>7, <2>1, WordsAre DEF Store, Entries
  <2>3. QED
    BY <1>7, <2>2 DEF Store, ColdSlot
<1>8. ASSUME NEW t \in Threads, Return(t) PROVE PastInv'
  BY <1>8 DEF Return
<1>9. ASSUME NEW t \in Threads, AddMethod(t) PROVE PastInv'
  BY <1>9 DEF AddMethod, MayChange, Change
<1>10. ASSUME NEW t \in Threads, RemoveMethod(t) PROVE PastInv'
  BY <1>10 DEF RemoveMethod, MayChange, Change
<1>11. ASSUME NEW t \in Threads, CheckSealing(t) PROVE PastInv'
  BY <1>11 DEF CheckSealing, MayChange
<1>12. ASSUME NEW t \in Threads, AddChecked(t) PROVE PastInv'
  BY <1>12 DEF AddChecked, Change
<1>13. ASSUME NEW t \in Threads, BumpGeneration(t) PROVE PastInv'
  BY <1>13 DEF BumpGeneration, Bumped, Entries
<1>14. ASSUME NEW t \in Threads, MarkSealed(t) PROVE PastInv'
  BY <1>14 DEF MarkSealed
<1>15. ASSUME NEW t \in Threads, RegisterSealedDomain(t) PROVE PastInv'
  BY <1>15 DEF RegisterSealedDomain
<1>16. ASSUME NEW t \in Threads, CheckClosure(t) PROVE PastInv'
  BY <1>16 DEF CheckClosure
<1>17. ASSUME NEW t \in Threads, Resolve(t) PROVE PastInv'
  BY <1>17 DEF Resolve
<1>18. CASE UNCHANGED vars
  BY <1>18 DEF vars
<1>19. QED
  BY <1>1, <1>2, <1>3, <1>4, <1>5, <1>6, <1>7, <1>8, <1>9, <1>10, <1>11,
     <1>12, <1>13, <1>14, <1>15, <1>16, <1>17, <1>18 DEF Next

\* What lookup gives in a current table is allowed.
LEMMA AllowedStep ==
    TableInv /\ ThreadInv /\ AloneInv /\ FillInv /\ SlotInv /\ AllowedInv
    /\ [Next]_vars => AllowedInv'
<1> SUFFICES ASSUME TableInv, ThreadInv, AloneInv, FillInv, SlotInv, AllowedInv,
                    [Next]_vars
             PROVE AllowedInv'
  OBVIOUS
<1> USE DEF AllowedInv, TableInv, ThreadInv, Current, Goto, At, Disturb, Calling, Loading, Filling, tableVars, callVars, ghosts
<1>1. ASSUME NEW t \in Threads, BeginCall(t) PROVE AllowedInv'
  BY <1>1 DEF BeginCall
<1>2. ASSUME NEW t \in Threads, Load(t) PROVE AllowedInv'
  BY <1>2 DEF Load
<1>3. ASSUME NEW t \in Threads, FastCall(t) PROVE AllowedInv'
  <2>1. ASSUME ~disturbed PROVE seen[t].method \in allowed[t]
    <3>1. step[t] = 4 /\ pc[t] = "loading" /\ Hit(t)
      BY <1>3 DEF FastCall
    <3>2. \A i \in 1 .. 3 : seen[t][Words[i]] = slot[Words[i]]
      BY <2>1, <3>1 DEF FillInv
    <3>3. /\ seen[t].class = slot.class /\ seen[t].method = slot.method
          /\ seen[t].generation = slot.generation
      BY <3>2, WordsAre
    <3>4. At(Filling) = {}
      BY <2>1, <3>1 DEF AloneInv
    <3>5. args[t] \in Args
      BY <3>1
    <3>6. PICK m \in Current : slot.method = Look(m, args[t])
      BY <2>1, <3>1, <3>3, <3>4, <3>5 DEF SlotInv, Hit
    <3>7. QED
      BY <3>1, <3>3, <3>6
  <2>2. QED
    BY <1>3, <2>1 DEF FastCall
<1>4. ASSUME NEW t \in Threads, Miss(t) PROVE AllowedInv'
  BY <1>4 DEF Miss
<1>5. ASSUME NEW t \in Threads, SlowCall(t) PROVE AllowedInv'
  BY <1>5 DEF SlowCall
<1>6. ASSUME NEW t \in Threads, ReadGeneration(t) PROVE AllowedInv'
  BY <1>6 DEF ReadGeneration
<1>7. ASSUME NEW t \in Threads, Store(t) PROVE AllowedInv'
  BY <1>7 DEF Store
<1>8. ASSUME NEW t \in Threads, Return(t) PROVE AllowedInv'
  BY <1>8 DEF Return
<1>9. ASSUME NEW t \in Threads, AddMethod(t) PROVE AllowedInv'
  BY <1>9 DEF AddMethod, MayChange, Change
<1>10. ASSUME NEW t \in Threads, RemoveMethod(t) PROVE AllowedInv'
  BY <1>10 DEF RemoveMethod, MayChange, Change
<1>11. ASSUME NEW t \in Threads, CheckSealing(t) PROVE AllowedInv'
  BY <1>11 DEF CheckSealing, MayChange
<1>12. ASSUME NEW t \in Threads, AddChecked(t) PROVE AllowedInv'
  BY <1>12 DEF AddChecked, Change
<1>13. ASSUME NEW t \in Threads, BumpGeneration(t) PROVE AllowedInv'
  BY <1>13 DEF BumpGeneration
<1>14. ASSUME NEW t \in Threads, MarkSealed(t) PROVE AllowedInv'
  BY <1>14 DEF MarkSealed
<1>15. ASSUME NEW t \in Threads, RegisterSealedDomain(t) PROVE AllowedInv'
  BY <1>15 DEF RegisterSealedDomain
<1>16. ASSUME NEW t \in Threads, CheckClosure(t) PROVE AllowedInv'
  BY <1>16 DEF CheckClosure
<1>17. ASSUME NEW t \in Threads, Resolve(t) PROVE AllowedInv'
  BY <1>17 DEF Resolve
<1>18. CASE UNCHANGED vars
  BY <1>18 DEF vars
<1>19. QED
  BY <1>1, <1>2, <1>3, <1>4, <1>5, <1>6, <1>7, <1>8, <1>9, <1>10, <1>11,
     <1>12, <1>13, <1>14, <1>15, <1>16, <1>17, <1>18 DEF Next

\* Who fills the cache undisturbed is alone with it.
LEMMA AloneStep ==
    TableInv /\ ThreadInv /\ AloneInv /\ [Next]_vars => AloneInv'
<1> SUFFICES ASSUME TableInv, ThreadInv, AloneInv, [Next]_vars PROVE AloneInv'
  OBVIOUS
<1> USE DEF AloneInv, TableInv, ThreadInv, Goto, At, Disturb, Calling, Loading, Filling, tableVars, callVars, ghosts
<1>1. ASSUME NEW t \in Threads, BeginCall(t) PROVE AloneInv'
  BY <1>1 DEF BeginCall
<1>2. ASSUME NEW t \in Threads, Load(t) PROVE AloneInv'
  BY <1>2 DEF Load
<1>3. ASSUME NEW t \in Threads, FastCall(t) PROVE AloneInv'
  BY <1>3 DEF FastCall
<1>4. ASSUME NEW t \in Threads, Miss(t) PROVE AloneInv'
  BY <1>4 DEF Miss
<1>5. ASSUME NEW t \in Threads, SlowCall(t) PROVE AloneInv'
  <2>1. CASE Look(methods, args[t]) = Nil
    BY <1>5, <2>1 DEF SlowCall
  <2>2. CASE Look(methods, args[t]) # Nil
    <3>1. CASE At(Loading \cup Filling) \ {t} = {}
      BY <1>5, <2>2, <3>1 DEF SlowCall
    <3>2. CASE At(Loading \cup Filling) \ {t} # {}
      BY <1>5, <2>2, <3>2 DEF SlowCall
    <3>3. QED
      BY <3>1, <3>2
  <2>3. QED
    BY <2>1, <2>2
<1>6. ASSUME NEW t \in Threads, ReadGeneration(t) PROVE AloneInv'
  BY <1>6 DEF ReadGeneration
<1>7. ASSUME NEW t \in Threads, Store(t) PROVE AloneInv'
  BY <1>7 DEF Store
<1>8. ASSUME NEW t \in Threads, Return(t) PROVE AloneInv'
  BY <1>8 DEF Return
<1>9. ASSUME NEW t \in Threads, AddMethod(t) PROVE AloneInv'
  BY <1>9 DEF AddMethod, MayChange, Change
<1>10. ASSUME NEW t \in Threads, RemoveMethod(t) PROVE AloneInv'
  BY <1>10 DEF RemoveMethod, MayChange, Change
<1>11. ASSUME NEW t \in Threads, CheckSealing(t) PROVE AloneInv'
  BY <1>11 DEF CheckSealing, MayChange
<1>12. ASSUME NEW t \in Threads, AddChecked(t) PROVE AloneInv'
  BY <1>12 DEF AddChecked, Change
<1>13. ASSUME NEW t \in Threads, BumpGeneration(t) PROVE AloneInv'
  BY <1>13 DEF BumpGeneration
<1>14. ASSUME NEW t \in Threads, MarkSealed(t) PROVE AloneInv'
  BY <1>14 DEF MarkSealed
<1>15. ASSUME NEW t \in Threads, RegisterSealedDomain(t) PROVE AloneInv'
  BY <1>15 DEF RegisterSealedDomain
<1>16. ASSUME NEW t \in Threads, CheckClosure(t) PROVE AloneInv'
  BY <1>16 DEF CheckClosure
<1>17. ASSUME NEW t \in Threads, Resolve(t) PROVE AloneInv'
  BY <1>17 DEF Resolve
<1>18. CASE UNCHANGED vars
  BY <1>18 DEF vars
<1>19. QED
  BY <1>1, <1>2, <1>3, <1>4, <1>5, <1>6, <1>7, <1>8, <1>9, <1>10, <1>11,
     <1>12, <1>13, <1>14, <1>15, <1>16, <1>17, <1>18 DEF Next

\* An undisturbed fill goes on with what it looked up, and stores it.
LEMMA FillStep ==
    ASSUME TableInv, ThreadInv, AloneInv, FillInv, [Next]_vars
    PROVE  FillInv'
<1> USE DEF FillInv, AloneInv, ThreadInv, Goto, At, Disturb, Calling, Loading, Filling, tableVars, callVars, ghosts
<1>a. ASSUME NEW t \in Threads, pc[t] \notin Calling, NEW table,
             NEW checked, Change(t, table, checked), UNCHANGED <<slot, callVars>>
      PROVE  FillInv'
  <2>1. ASSUME ~disturbed' PROVE ~disturbed /\ At(Filling) = {}
    BY <1>a, <2>1 DEF Change
  <2>2. ASSUME NEW u \in Threads PROVE pc'[u] = pc[u] \/ pc'[u] = "bumping"
    BY <1>a DEF Change
  <2>3. QED
    BY <1>a, <2>1, <2>2
<1>1. ASSUME NEW t \in Threads, BeginCall(t) PROVE FillInv'
  BY <1>1 DEF BeginCall
<1>2. ASSUME NEW t \in Threads, Load(t) PROVE FillInv'
  <2>1. step[t] \in {1, 2, 3}
    BY <1>2, WordsAre DEF Load
  <2>2. ASSUME ~disturbed
        PROVE  \A i \in 1 .. step'[t] - 1 : seen'[t][Words[i]] = slot[Words[i]]
    BY <1>2, <2>1, <2>2, WordsAre DEF Load, Entries
  <2>3. QED
    BY <1>2, <2>2 DEF Load
<1>3. ASSUME NEW t \in Threads, FastCall(t) PROVE FillInv'
  BY <1>3 DEF FastCall
<1>4. ASSUME NEW t \in Threads, Miss(t) PROVE FillInv'
  BY <1>4 DEF Miss
<1>5. ASSUME NEW t \in Threads, SlowCall(t) PROVE FillInv'
  BY <1>5 DEF SlowCall
<1>6. ASSUME NEW t \in Threads, ReadGeneration(t) PROVE FillInv'
  BY <1>6 DEF ReadGeneration
<1>7. ASSUME NEW t \in Threads, Store(t) PROVE FillInv'
  <2>1. step[t] \in {1, 2, 3}
    BY <1>7 DEF Store
  <2> SUFFICES ASSUME ~disturbed, NEW u \in Threads
               PROVE  /\ pc'[u] \in Filling => called[u] = Look(methods, args[u])
                      /\ pc'[u] = "filling" =>
                           /\ seen'[u].class = args[u][1]
                           /\ seen'[u].method = called[u]
                           /\ \A i \in 1 .. step'[u] - 1 :
                                 slot'[Words[i]] = seen'[u][Words[i]]
                      /\ pc'[u] = "loading" =>
                           \A i \in 1 .. step'[u] - 1 :
                              seen'[u][Words[i]] = slot'[Words[i]]
    BY <1>7 DEF Store
  <2>2. CASE u = t
    BY <1>7, <2>1, <2>2, WordsAre DEF Store, Entries
  <2>3. CASE u # t
    BY <1>7, <2>3 DEF Store
  <2>4. QED
    BY <2>2, <2>3
<1>8. ASSUME NEW t \in Threads, Return(t) PROVE FillInv'
  BY <1>8 DEF Return
<1>9. ASSUME NEW t \in Threads, AddMethod(t) PROVE FillInv'
  BY <1>9, <1>a DEF AddMethod, MayChange
<1>10. ASSUME NEW t \in Threads, RemoveMethod(t) PROVE FillInv'
  BY <1>10, <1>a DEF RemoveMethod, MayChange
<1>11. ASSUME NEW t \in Threads, CheckSealing(t) PROVE FillInv'
  BY <1>11 DEF CheckSealing, MayChange
<1>12. ASSUME NEW t \in Threads, AddChecked(t) PROVE FillInv'
  BY <1>12, <1>a DEF AddChecked
<1>13. ASSUME NEW t \in Threads, BumpGeneration(t) PROVE FillInv'
  BY <1>13 DEF BumpGeneration
<1>14. ASSUME NEW t \in Threads, MarkSealed(t) PROVE FillInv'
  BY <1>14 DEF MarkSealed
<1>15. ASSUME NEW t \in Threads, RegisterSealedDomain(t) PROVE FillInv'
  BY <1>15 DEF RegisterSealedDomain
<1>16. ASSUME NEW t \in Threads, CheckClosure(t) PROVE FillInv'
  BY <1>16 DEF CheckClosure
<1>17. ASSUME NEW t \in Threads, Resolve(t) PROVE FillInv'
  BY <1>17 DEF Resolve
<1>18. CASE UNCHANGED vars
  BY <1>18 DEF vars
<1>19. QED
  BY <1>1, <1>2, <1>3, <1>4, <1>5, <1>6, <1>7, <1>8, <1>9, <1>10, <1>11,
     <1>12, <1>13, <1>14, <1>15, <1>16, <1>17, <1>18 DEF Next

\* The class of the first argument, which is the cache's key, determines the
\* others: so it is for generics of one argument.
Unary == \A a, b \in Args : a[1] = b[1] => a = b

\* A change of the table leaves the replaced one current.
LEMMA CurrentGrows ==
    ASSUME ThreadInv, NEW t \in Threads, pc[t] # "bumping", NEW table,
           NEW checked, Change(t, table, checked)
    PROVE  Current \subseteq Current'
BY DEF ThreadInv, Change, Current, At, Goto

\* A valid cache holds what lookup gives in a current table.
LEMMA SlotStep ==
    ASSUME Unary, TableInv, ThreadInv, PastInv, AloneInv, FillInv, SlotInv, [Next]_vars
    PROVE  SlotInv'
<1> USE DEF SlotInv, ThreadInv, Goto, At, Disturb, Calling, Loading, Filling, tableVars, callVars, ghosts
<1>1. ASSUME NEW t \in Threads, BeginCall(t) PROVE SlotInv'
  BY <1>1 DEF BeginCall, Current
<1>2. ASSUME NEW t \in Threads, Load(t) PROVE SlotInv'
  BY <1>2 DEF Load, Current
<1>3. ASSUME NEW t \in Threads, FastCall(t) PROVE SlotInv'
  BY <1>3 DEF FastCall, Current
<1>4. ASSUME NEW t \in Threads, Miss(t) PROVE SlotInv'
  BY <1>4 DEF Miss, Current
<1>5. ASSUME NEW t \in Threads, SlowCall(t) PROVE SlotInv'
  BY <1>5 DEF SlowCall, Current
<1>6. ASSUME NEW t \in Threads, ReadGeneration(t) PROVE SlotInv'
  BY <1>6 DEF ReadGeneration, Current
<1>7. ASSUME NEW t \in Threads, Store(t) PROVE SlotInv'
  <2> SUFFICES ASSUME ~disturbed, At(Filling)' = {}, NEW a \in Args,
                      a[1] = slot'.class
               PROVE  slot'.method = Look(methods, a)
    BY <1>7 DEF Store, Current
  <2>1. step[t] = 3 /\ pc[t] = "filling"
    BY <1>7, WordsAre DEF Store
  <2>2. /\ slot'.class = slot.class
        /\ slot'.method = slot.method
    BY <1>7, <2>1, WordsAre DEF Store, Entries
  <2>3. /\ slot.class = args[t][1] /\ slot.method = called[t]
        /\ called[t] = Look(methods, args[t])
    BY <2>1, WordsAre DEF FillInv
  <2>4. a = args[t]
    BY <2>1, <2>2, <2>3 DEF Unary
  <2>5. QED
    BY <2>2, <2>3, <2>4
<1>8. ASSUME NEW t \in Threads, Return(t) PROVE SlotInv'
  BY <1>8 DEF Return, Current
<1>9. ASSUME NEW t \in Threads, AddMethod(t) PROVE SlotInv'
  <2>1. Current \subseteq Current'
    BY <1>9, CurrentGrows DEF AddMethod, MayChange
  <2>2. QED
    BY <1>9, <2>1 DEF AddMethod, MayChange, Change
<1>10. ASSUME NEW t \in Threads, RemoveMethod(t) PROVE SlotInv'
  <2>1. Current \subseteq Current'
    BY <1>10, CurrentGrows DEF RemoveMethod, MayChange
  <2>2. QED
    BY <1>10, <2>1 DEF RemoveMethod, MayChange, Change
<1>11. ASSUME NEW t \in Threads, CheckSealing(t) PROVE SlotInv'
  BY <1>11 DEF CheckSealing, MayChange, Current
<1>12. ASSUME NEW t \in Threads, AddChecked(t) PROVE SlotInv'
  <2>1. Current \subseteq Current'
    BY <1>12, CurrentGrows DEF AddChecked, MayChange
  <2>2. QED
    BY <1>12, <2>1 DEF AddChecked, MayChange, Change
<1>13. ASSUME NEW t \in Threads, BumpGeneration(t) PROVE SlotInv'
  BY <1>13 DEF BumpGeneration, Bumped, PastInv, TableInv, Entries
<1>14. ASSUME NEW t \in Threads, MarkSealed(t) PROVE SlotInv'
  BY <1>14 DEF MarkSealed, Current
<1>15. ASSUME NEW t \in Threads, RegisterSealedDomain(t) PROVE SlotInv'
  BY <1>15 DEF RegisterSealedDomain, Current
<1>16. ASSUME NEW t \in Threads, CheckClosure(t) PROVE SlotInv'
  BY <1>16 DEF CheckClosure, Current
<1>17. ASSUME NEW t \in Threads, Resolve(t) PROVE SlotInv'
  BY <1>17 DEF Resolve, Current
<1>18. CASE UNCHANGED vars
  BY <1>18 DEF vars, Current
<1>19. QED
  BY <1>1, <1>2, <1>3, <1>4, <1>5, <1>6, <1>7, <1>8, <1>9, <1>10, <1>11,
     <1>12, <1>13, <1>14, <1>15, <1>16, <1>17, <1>18 DEF Next

\* The seals of a resolved call shelter its methods.
LEMMA SealStep ==
    ASSUME TableInv, ThreadInv, SealInv, [Next]_vars
    PROVE  SealInv'
<1> USE DEF tableVars, callVars, ghosts
<1>a. ASSUME UNCHANGED <<methods, direct, bypassed>>,
             sealed => sealed', domains \subseteq domains'
      PROVE  SealInv'
  BY <1>a DEF SealInv, Sheltered
<1>b. ASSUME NEW t \in Threads, NEW table, Change(t, table, FALSE),
             UNCHANGED <<sealed, domains, direct>>
      PROVE  SealInv'
  <2>1. direct.chain # <<>> => bypassed'
    BY <1>b DEF Change
  <2>2. QED
    BY <1>b, <2>1 DEF SealInv
<1>1. ASSUME NEW t \in Threads, BeginCall(t) PROVE SealInv'
  BY <1>1, <1>a DEF BeginCall
<1>2. ASSUME NEW t \in Threads, Load(t) PROVE SealInv'
  BY <1>2, <1>a DEF Load
<1>3. ASSUME NEW t \in Threads, FastCall(t) PROVE SealInv'
  BY <1>3, <1>a DEF FastCall
<1>4. ASSUME NEW t \in Threads, Miss(t) PROVE SealInv'
  BY <1>4, <1>a DEF Miss
<1>5. ASSUME NEW t \in Threads, SlowCall(t) PROVE SealInv'
  BY <1>5, <1>a DEF SlowCall
<1>6. ASSUME NEW t \in Threads, ReadGeneration(t) PROVE SealInv'
  BY <1>6, <1>a DEF ReadGeneration
<1>7. ASSUME NEW t \in Threads, Store(t) PROVE SealInv'
  BY <1>7, <1>a DEF Store
<1>8. ASSUME NEW t \in Threads, Return(t) PROVE SealInv'
  BY <1>8, <1>a DEF Return
<1>9. ASSUME NEW t \in Threads, AddMethod(t) PROVE SealInv'
  BY <1>9, <1>b DEF AddMethod
<1>10. ASSUME NEW t \in Threads, RemoveMethod(t) PROVE SealInv'
  BY <1>10, <1>b DEF RemoveMethod
<1>11. ASSUME NEW t \in Threads, CheckSealing(t) PROVE SealInv'
  BY <1>11, <1>a DEF CheckSealing
<1>12. ASSUME NEW t \in Threads, AddChecked(t) PROVE SealInv'
  <2> DEFINE m == method[t]
  <2>1. /\ m \in Methods /\ methods' = With(methods, m)
        /\ bypassed' = (bypassed \/ (direct.chain # <<>> /\ Refused(m)))
        /\ UNCHANGED <<sealed, domains, direct>>
    BY <1>12 DEF AddChecked, Change, ThreadInv
  <2>2. CASE direct.chain = <<>> \/ bypassed'
    BY <2>1, <2>2 DEF SealInv
  <2>3. CASE direct.chain # <<>> /\ ~bypassed'
    <3>1. ~Refused(m) /\ ~bypassed
      BY <2>1, <2>3
    <3>2. ~Sheltered(m)
      BY <3>1 DEF SealInv, Sheltered, Refused
    <3>3. \A n \in Methods : n.specialisers = m.specialisers => ~Sheltered(n)
      BY <3>2 DEF Sheltered
    <3>4. \A n \in methods' :
             Sheltered(n) /\ Covers(n.specialisers, direct.estimate)
             => n \in ToSet(direct.chain)
      BY <2>1, <2>3, <3>1, <3>2 DEF SealInv, With, Without
    <3>5. ASSUME NEW n \in ToSet(direct.chain)
          PROVE  /\ Sheltered(n) => n \in methods'
                 /\ \E q \in methods' : q.specialisers = n.specialisers
      <4>1. PICK q \in methods : q.specialisers = n.specialisers
        BY <2>3, <3>1 DEF SealInv
      <4>2. Sheltered(n) => n \in methods /\ n \in Methods
        BY <2>3, <3>1 DEF SealInv, TableInv
      <4>3. CASE n.specialisers = m.specialisers
        BY <2>1, <3>3, <4>2, <4>3 DEF With
      <4>4. CASE n.specialisers # m.specialisers
        BY <2>1, <4>1, <4>2, <4>4 DEF With, Without
      <4>5. QED
        BY <4>3, <4>4
    <3>6. /\ direct' = direct
          /\ \A n : Sheltered(n)' <=> Sheltered(n)
      BY <2>1 DEF Sheltered
    <3>7. QED
      BY <2>1, <2>3, <3>1, <3>4, <3>5, <3>6 DEF SealInv
  <2>4. QED
    BY <2>2, <2>3
<1>13. ASSUME NEW t \in Threads, BumpGeneration(t) PROVE SealInv'
  BY <1>13, <1>a DEF BumpGeneration
<1>14. ASSUME NEW t \in Threads, MarkSealed(t) PROVE SealInv'
  BY <1>14, <1>a DEF MarkSealed
<1>15. ASSUME NEW t \in Threads, RegisterSealedDomain(t) PROVE SealInv'
  BY <1>15, <1>a DEF RegisterSealedDomain
<1>16. ASSUME NEW t \in Threads, CheckClosure(t) PROVE SealInv'
  BY <1>16 DEF CheckClosure, SealInv
<1>17. ASSUME NEW t \in Threads, Resolve(t) PROVE SealInv'
  <2> DEFINE chain == Chain(methods, direct.estimate)
             S == Applicable(methods, direct.estimate)
  <2>1. direct.estimate \in Args /\ direct.estimate \in Seq(DOMAIN Cpl)
    BY <1>17, ArgsOK DEF Resolve, ThreadInv, At
  <2>2. /\ chain \in SetToSeqs(S)
        /\ \A i, j \in DOMAIN chain :
              i < j => ~MoreSpecific(chain[j], chain[i], direct.estimate)
    BY <2>1, ChainIsLookup DEF TableInv
  <2>3. S \subseteq methods /\ S \subseteq Methods
    BY DEF Applicable, TableInv
  <2>4. chain \in Seq(Methods) /\ ToSet(chain) = S
    <3>1. IsFiniteSet(S)
      BY <2>3, FS_Subset DEF TableInv
    <3> HIDE DEF S, chain
    <3>2. QED
      BY <2>2, <2>3, <3>1, ChainHasAll
  <2>5. CASE chain = <<>>
    BY <1>17, <2>5 DEF Resolve, SealInv, Unresolved
  <2>6. CASE chain # <<>>
    <3>1. /\ direct'.chain = chain /\ direct'.estimate = direct.estimate
          /\ direct'.sealed = direct.sealed /\ direct'.domains = direct.domains
          /\ UNCHANGED <<methods, sealed, domains, bypassed>>
      BY <1>17, <2>6 DEF Resolve, ThreadInv
    <3>2. \A i \in DOMAIN chain : Covers(chain[i].specialisers, direct.estimate)
      BY <2>4 DEF ToSet, Applicable
    <3>3. \A m \in methods : Covers(m.specialisers, direct.estimate) => m \in ToSet(chain)
      BY <2>4 DEF Applicable
    <3>4. QED
      BY <2>1, <2>2, <2>3, <2>4, <3>1, <3>2, <3>3 DEF SealInv, Sheltered
  <2>7. QED
    BY <2>5, <2>6
<1>18. CASE UNCHANGED vars
  BY <1>18, <1>a DEF vars
<1>19. QED
  BY <1>1, <1>2, <1>3, <1>4, <1>5, <1>6, <1>7, <1>8, <1>9, <1>10, <1>11,
     <1>12, <1>13, <1>14, <1>15, <1>16, <1>17, <1>18 DEF Next

-----------------------------------------------------------------------------
\* What holds of every generic.
BaseInv == /\ TableInv /\ ThreadInv /\ PastInv /\ AloneInv /\ FillInv
           /\ SealInv

\* What holds of a generic of one argument besides.
CacheInv == SlotInv /\ AllowedInv

\* The initial state: no methods, a cold cache, no calls.
LEMMA InitInv == Init => BaseInv /\ CacheInv
<1> SUFFICES ASSUME Init PROVE BaseInv /\ CacheInv
  OBVIOUS
<1> USE DEF Init, At, Calling, Loading, Filling
<1>1. Changing = {} /\ IsFiniteSet({}) /\ Cardinality({}) = 0
  BY FS_EmptySet DEF Changing
<1>2. TableInv
  <2>1. generation + Cardinality(Changing) <= MaxGeneration
    BY <1>1, DispatchAssumption
  <2>2. methods \in SUBSET Methods /\ IsFiniteSet(methods)
    BY <1>1
  <2>3. /\ generation \in Nat \ {0}
        /\ sealed \in BOOLEAN
        /\ domains \in SUBSET Domains
    <3>1. generation \in Nat \ {0}
      OBVIOUS
    <3>2. sealed \in BOOLEAN
      BY Zenon
    <3>3. domains \in SUBSET Domains
      OBVIOUS
    <3>4. QED
      BY <3>1, <3>2, <3>3
  <2>4. \A m, n \in methods : m.specialisers = n.specialisers => m = n
    OBVIOUS
  <2> HIDE DEF Init
  <2>5. QED
    BY <2>1, <2>2, <2>3, <2>4 DEF TableInv
<1>3. ThreadInv
  <2>1. ColdSlot \in Entries
    BY DEF Entries, ColdSlot
  <2>2. /\ seen \in [Threads -> Entries] /\ slot \in Entries
        /\ step \in [Threads -> 1 .. 4]
    BY <2>1
  <2>3. /\ direct \in [estimate : Args \cup {Nil}, sealed : BOOLEAN,
                        domains : SUBSET Domains, chain : {direct.chain}]
        /\ At({"resolving"}) = {}
    BY Zenon DEF Unresolved
  <2>4. \A t \in Threads : args[t] = Nil /\ pc[t] = "idle" /\ step[t] = 1
    OBVIOUS
  <2>5. QED
    BY <2>2, <2>3, <2>4 DEF ThreadInv, Pcs
<1>4. PastInv /\ AloneInv /\ FillInv /\ SealInv
  BY DEF PastInv, AloneInv, FillInv, SealInv, ColdSlot, Unresolved
<1>5. CacheInv
  BY DEF CacheInv, SlotInv, AllowedInv, ColdSlot
<1>6. QED
  BY <1>2, <1>3, <1>4, <1>5 DEF BaseInv

\* The invariant of the protocol, whatever the arguments of the generic.
THEOREM Invariance == Spec => []BaseInv
<1>1. Init => BaseInv
  BY InitInv
<1>2. BaseInv /\ [Next]_vars => BaseInv'
  BY TableStep, ThreadStep, PastStep, AloneStep, FillStep, SealStep
     DEF BaseInv
<1>3. QED
  BY <1>1, <1>2, PTL DEF Spec

\* And that of a cached call, where the cache's key is all of the arguments.
THEOREM CacheInvariance == ASSUME Unary PROVE Spec => []CacheInv
<1>1. Init => CacheInv
  BY InitInv
<1>2. BaseInv /\ CacheInv /\ [Next]_vars => CacheInv'
  BY Unary, SlotStep, AllowedStep DEF BaseInv, CacheInv
<1>3. QED
  BY <1>1, <1>2, Invariance, PTL DEF Spec

\* The types of the method table, the cache and the threads; in particular no two
\* methods of the table have the same specialisers, and the generation stays
\* within its bound.
THEOREM TypeCorrectness == Spec => []TypeOK
<1>1. ASSUME BaseInv PROVE TypeOK
  <2> USE <1>1 DEF BaseInv, TableInv, ThreadInv
  <2>1. IsFiniteSet(Changing) /\ Cardinality(Changing) \in Nat
    BY DispatchAssumption, FS_Subset, FS_CardinalityType DEF Changing, At
  <2>2. generation \in 1 .. MaxGeneration
    BY <2>1, DispatchAssumption
  <2>3. QED
    BY <2>2 DEF TypeOK, Entries
<1>2. QED
  BY <1>1, Invariance, PTL

\* A call that was resolved under a seal, on the generic or on a domain, keeps
\* the methods that the seal shelters, whatever is added afterwards through
\* try_add_method and however many methods there are, for any classes, numbers of
\* arguments and of threads: where the dispatcher would run a sheltered method,
\* the compiled call, which asks nobody, runs the same one.
THEOREM SealedCallsStayResolved == Spec => []SealedCallsKeepTheirMethods
<1>1. ASSUME BaseInv PROVE SealedCallsKeepTheirMethods
  <2> USE <1>1 DEF BaseInv
  <2> DEFINE e == direct.estimate
             kept(a) == {m \in Applicable(methods, a) : Sheltered(m)}
  <2> SUFFICES ASSUME direct.chain # <<>>, ~bypassed, NEW a \in Args,
                      Covers(e, a), \A m \in kept(a) : Covers(m.specialisers, e)
               PROVE  /\ kept(a) = {m \in ToSet(direct.chain) : Sheltered(m)}
                      /\ Chain(methods, a) # <<>> /\ Chain(methods, a)[1] \in kept(a)
                         => Chain(methods, a)[1] = direct.chain[1]
    BY DEF SealedCallsKeepTheirMethods
  <2>1. a \in Seq(DOMAIN Cpl) /\ e \in Seq(DOMAIN Cpl)
    BY ArgsOK DEF SealInv
  <2>2. \A m \in ToSet(direct.chain) : /\ m \in Methods
                                      /\ Covers(m.specialisers, e)
                                      /\ Covers(m.specialisers, a)
    BY <2>1, InheritedMethods DEF SealInv, ToSet
  <2>3. kept(a) = {m \in ToSet(direct.chain) : Sheltered(m)}
    BY <2>2 DEF SealInv, Applicable
  <2>4. ASSUME Chain(methods, a) # <<>>, Chain(methods, a)[1] \in kept(a)
        PROVE  Chain(methods, a)[1] = direct.chain[1]
    <3> DEFINE c == Chain(methods, a)
               first == c[1]
               head == direct.chain[1]
    <3>1. /\ 1 \in DOMAIN c /\ c \in Seq(Methods)
          /\ ToSet(c) = Applicable(methods, a)
          /\ \A i, j \in DOMAIN c : i < j => ~MoreSpecific(c[j], c[i], a)
      <4>1. c \in SetToSeqs(Applicable(methods, a))
        BY <2>1, ChainIsLookup DEF TableInv
      <4>2. c \in Seq(Methods) /\ ToSet(c) = Applicable(methods, a)
        <5>1. IsFiniteSet(Applicable(methods, a)) /\ Applicable(methods, a) \subseteq Methods
          BY FS_Subset DEF TableInv, Applicable
        <5> HIDE DEF c
        <5>2. QED
          BY <4>1, <5>1, ChainHasAll
      <4>3. \A i, j \in DOMAIN c : i < j => ~MoreSpecific(c[j], c[i], a)
        BY <2>1, ChainIsLookup DEF TableInv
      <4>4. 1 \in DOMAIN c
        <5> HIDE DEF c
        <5> QED BY <2>4, <4>2 DEF c
      <4>5. QED
        BY <4>2, <4>3, <4>4
    <3>2. 1 \in DOMAIN direct.chain /\ head \in ToSet(direct.chain)
      BY DEF SealInv, ToSet
    <3>3. first \in methods /\ first \in Methods /\ Sheltered(first)
      BY <2>4 DEF Applicable, TableInv
    <3>4. first \in ToSet(direct.chain)
      BY <2>3, <2>4
    <3>5. ~MoreSpecific(first, head, e)
      <4>1. PICK k \in DOMAIN direct.chain : first = direct.chain[k]
        BY <3>4 DEF ToSet
      <4>2. CASE k = 1
        BY <4>1, <4>2 DEF MoreSpecific
      <4>3. CASE k > 1
        BY <3>2, <4>1, <4>3 DEF SealInv
      <4>4. k = 1 \/ k > 1
        BY DEF SealInv
      <4>5. QED
        BY <4>2, <4>3, <4>4
    <3>6. PICK now \in methods : now.specialisers = head.specialisers
      BY <3>2 DEF SealInv
    <3>7. ~MoreSpecific(now, first, a)
      <4>1. now \in ToSet(c)
        BY <2>2, <3>1, <3>2, <3>6 DEF Applicable
      <4>2. PICK k \in DOMAIN c : now = c[k]
        BY <4>1 DEF ToSet
      <4>3. CASE k = 1
        BY <4>2, <4>3 DEF MoreSpecific
      <4>4. CASE k > 1
        BY <3>1, <4>2, <4>4
      <4>5. k = 1 \/ k > 1
        BY <3>1
      <4>6. QED
        BY <4>3, <4>4, <4>5
    <3>8. ~MoreSpecific(head, first, a)
      BY <3>6, <3>7 DEF MoreSpecific
    <3>9. ~MoreSpecific(head, first, e)
      BY <2>1, <2>2, <3>2, <3>4, <3>8, InheritedSpecificity
    <3>10. head.specialisers = first.specialisers
      BY <2>1, <2>2, <3>2, <3>4, <3>5, <3>9, SpecificityIsTotal
    <3>11. head \in methods
      BY <3>2, <3>3, <3>10 DEF SealInv, Sheltered
    <3>12. QED
      BY <3>3, <3>10, <3>11 DEF TableInv
  <2>5. QED
    BY <2>3, <2>4
<1>2. QED
  BY <1>1, Invariance, PTL

\* With one argument, a cache that compares as valid holds what lookup gives.
THEOREM CachedEntriesAreCurrent == ASSUME Unary PROVE Spec => []CacheIsCurrent
<1>1. ASSUME CacheInv PROVE CacheIsCurrent
  BY <1>1 DEF CacheInv, SlotInv, CacheIsCurrent, Current, At
<1>2. QED
  BY <1>1, CacheInvariance, PTL

\* With one argument, every call, cached or not, runs a method that lookup gives
\* for its arguments at some time of the call.
THEOREM CallsRunCurrentMethods ==
    ASSUME Unary PROVE Spec => []CallsCurrentMethod
<1>1. ASSUME BaseInv, CacheInv PROVE CallsCurrentMethod
  BY <1>1 DEF CacheInv, AllowedInv, CallsCurrentMethod, At, Calling
<1>2. QED
  BY <1>1, Invariance, CacheInvariance, PTL
=============================================================================
