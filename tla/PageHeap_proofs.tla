--------------------------- MODULE PageHeap_proofs ---------------------------
(***************************************************************************)
(* Proofs about PageHeap.  Typing holds for every heap and for objects of  *)
(* all sizes.  HeapInvariance, and the four properties that follow from    *)
(* it, are for small objects (SmallOnly): the runs MCPageHeapPinned and    *)
(* MCPageHeapRuns show that large ones can lose what a pin holds and a     *)
(* run's continuation pages.  They are for behaviours in which             *)
(* ReferencesRewritten holds, which MCPageHeapChunks shows that it does    *)
(* not in all: a pass of several chunks may erase the markers that a later *)
(* chunk's objects still refer to.  So the theorems say that among small   *)
(* objects nothing goes wrong but that, in a heap of any size, with any    *)
(* pins and thresholds.                                                    *)
(***************************************************************************)
EXTENDS PageHeap, Orders

-----------------------------------------------------------------------------
(* The invariant.                                                          *)

\* The pages that are still to be evacuated, in this chunk or a later one.
Sources == todo \cup chunk

\* Where the collector is between marking and the end of a pass.
Evacuating == phase \in {"chunk", "copy", "reclaim", "stalled"}

\* What this pass keeps.
Survives(a) == IsObject(a) /\ (PageOf(a) \in Sources => a \in marked)

KindInv ==
    \A p \in Pages : /\ page[p].kind \in {"Free", "Small"}
                     /\ page[p].kind = "Free" <=> page[p].gen = "Free"

CounterInv ==
    /\ promotes < G1Threshold
    /\ minors < G0Threshold \/ /\ phase \notin {"mutator", "exhausted"}
                               /\ pass.cycle = "minor"
                               /\ pass.from = "G0" /\ pass.dest = "G1"

\* The passes of a cycle.
CycleInv ==
    /\ phase \in {"mutator", "exhausted"} <=> pass.cycle = "none"
    /\ pass.cycle = "minor" => <<pass.from, pass.dest>> \in
          {<<"G0", "G0">>, <<"G0", "G1">>, <<"G1", "Tenured">>}
    /\ pass.cycle = "full" => <<pass.from, pass.dest>> \in
          {<<"G0", "G1">>, <<"G1", "Tenured">>, <<"Tenured", "Tenured">>}

\* What the passes before this one have emptied, and what its snapshot shows.
PassInv ==
    /\ pass.cycle = "none" => pass.from = "G0"
    /\ pass.from # "G0" => PagesIn("G0") = {}
    /\ pass.from = "Tenured" => PagesIn("G1") = {}
    /\ request # Nil /\ request.attempt = 3 =>
          IF pass.cycle = "none" THEN PagesIn("G0") = {} /\ PagesIn("G1") = {}
          ELSE pass.cycle = "full"
    /\ pass.cycle = "minor" /\ pass.from = "G0" /\ pass.dest = "G1" =>
          \A p \in PagesIn("Tenured") : pass.scan[p] = "Tenured"

SourceInv ==
    /\ Sources \subseteq PagesIn(pass.from)
    /\ todo \cap chunk = {}
    /\ ~Evacuating => Sources = {}
    /\ phase = "chunk" => chunk = {}
    /\ \A g \in Gens : region[g].page \notin Sources
    /\ Evacuating /\ pass.from # pass.dest => PagesIn(pass.from) \subseteq Sources

\* A forwarding marker is in a source page and leads to a copy.
MarkerInv ==
    \A a \in Addresses :
        /\ heap[a].id = Nil => heap[a].next = Nil
        /\ heap[a].to # Nil =>
              /\ phase \in {"copy", "reclaim", "stalled"}
              /\ heap[a].id = Nil /\ PageOf(a) \in chunk
              /\ IsObject(heap[a].to) /\ GenOf(heap[a].to) = pass.dest
              /\ PageOf(heap[a].to) \notin Sources

PinInv ==
    /\ \A a \in ExplicitPins : IsObject(a)
    /\ Evacuating => /\ ExplicitPins \subseteq pinned
                     /\ \A a \in pinned : Survives(a)
    /\ phase = "reclaim" =>
          \A a \in marked : IsObject(a) /\ PageOf(a) \in chunk => a \in pinned

\* What survives refers only to what survives.
PointerInv ==
    /\ \A a \in RootTargets : Survives(Resolve(a))
    /\ \A a \in Addresses : Survives(a) /\ heap[a].next # Nil
                               => Survives(Resolve(heap[a].next))
    /\ phase = "reclaim" =>
          /\ \A a \in RootTargets : heap[a].to = Nil
          /\ \A a \in Addresses : Survives(a) /\ heap[a].next # Nil
                                     => heap[heap[a].next].to = Nil

\* The cards, and what they are for.
CardInv ==
    /\ \A a \in Addresses :
          Survives(a) /\ heap[a].next # Nil
          /\ Age(GenOf(heap[a].next)) < Age(GenOf(a)) => a \in dirty
    /\ phase = "mark" =>
          \A a \in Addresses :
              IsObject(a) /\ heap[a].next # Nil
              /\ GenOf(heap[a].next) = pass.from /\ GenOf(a) # pass.from
                 => a \in OnScannedCard
    /\ Evacuating =>
          \A a \in Addresses :
              IsObject(a) /\ heap[a].next # Nil
              /\ PageOf(heap[a].next) \in Sources /\ PageOf(a) \notin Sources
              /\ GenOf(a) # pass.dest => a \in OnScannedCard

Types == TypeOK /\ CounterInv /\ CycleInv

HeapInv ==
    /\ KindInv /\ AllocatorInOrder /\ PassInv /\ SourceInv
    /\ MarkerInv /\ PinInv /\ PointerInv /\ CardInv

\* What Reclaim keeps and releases of a chunk.
Heads == {p \in chunk : page[p].kind \in {"Small", "Head"}}
Kept == UNION {RunOf(p) : p \in {q \in Heads : HasPins(q)}}
Released == UNION {RunOf(p) : p \in {q \in Heads : ~HasPins(q)}}

-----------------------------------------------------------------------------
(* Addresses.                                                              *)

\* A page and an offset make an address.
LEMMA AddressOf ==
    ASSUME NEW p \in Pages, NEW o \in 0 .. PageSlots - 1
    PROVE  /\ p * PageSlots + o \in Addresses
           /\ PageOf(p * PageSlots + o) = p
           /\ (p * PageSlots + o) % PageSlots = o
<1>1. /\ NumPages \in Nat \ {0} /\ PageSlots \in Nat \ {0}
      /\ p \in Nat /\ p < NumPages /\ o \in Nat /\ o < PageSlots
  BY SizesAssumption DEF Pages
<1>2. p * PageSlots + PageSlots <= NumPages * PageSlots
  BY <1>1
<1>3. p * PageSlots \in Nat /\ NumPages * PageSlots \in Nat
  BY <1>1
<1>4. p * PageSlots + o \in Addresses
  BY <1>1, <1>2, <1>3 DEF Addresses
<1>5. /\ (p * PageSlots + o) \div PageSlots = p
      /\ (p * PageSlots + o) % PageSlots = o
  BY <1>1
<1>6. QED
  BY <1>4, <1>5 DEF PageOf

\* An address is made of them.
LEMMA AddressIs ==
    ASSUME NEW a \in Addresses
    PROVE  /\ PageOf(a) \in Pages
           /\ a % PageSlots \in 0 .. PageSlots - 1
           /\ a = PageOf(a) * PageSlots + (a % PageSlots)
           /\ a \in Nat
<1>1. /\ NumPages \in Nat \ {0} /\ PageSlots \in Nat \ {0}
      /\ a \in Nat /\ a < NumPages * PageSlots
  <2>1. NumPages \in Nat \ {0} /\ PageSlots \in Nat \ {0}
    BY SizesAssumption
  <2>2. NumPages * PageSlots \in Nat
    BY <2>1
  <2>3. QED
    BY <2>1, <2>2 DEF Addresses
<1>2. /\ a % PageSlots \in 0 .. PageSlots - 1
      /\ a \div PageSlots \in Nat
      /\ a = (a \div PageSlots) * PageSlots + (a % PageSlots)
  BY <1>1
<1>3. a \div PageSlots < NumPages
  <2> DEFINE p == a \div PageSlots
  <2>1. p \in Nat /\ p * PageSlots < NumPages * PageSlots
    <3>1. p \in Nat /\ p * PageSlots \in Nat /\ NumPages * PageSlots \in Nat
      BY <1>1, <1>2
    <3>2. QED
      BY <1>1, <1>2, <3>1
  <2> HIDE DEF p
  <2>2. p < NumPages
    BY <1>1, <2>1
  <2>3. QED
    BY <2>2 DEF p
<1>4. QED
  BY <1>1, <1>2, <1>3 DEF PageOf, Pages

\* Nil is neither.
LEMMA NilIs ==
    /\ Nil \notin Objects /\ Nil \notin Addresses /\ Nil \notin Pages
BY NilAssumption

\* Where an object is put: at the region's offset, or on a free page.
LEMMA RoomIs ==
    ASSUME TypeOK, NEW g \in Gens, NEW a,
           a = Room(g, TRUE) \/ a = Room(g, FALSE), a # Nil
    PROVE  /\ a \in Addresses /\ PageOf(a) \in Pages
           /\ (a % PageSlots) + 1 \in 1 .. PageSlots
           /\ \/ /\ region[g].page = PageOf(a) /\ region[g].offset = a % PageSlots
              \/ GenOf(a) = "Free" /\ a % PageSlots = 0
<1>1. /\ PageSlots \in Nat \ {0}
      /\ region[g].page \in Pages \cup {Nil} /\ region[g].offset \in 0 .. PageSlots
  BY SizesAssumption DEF TypeOK
<1>2. CASE region[g].page # Nil /\ region[g].offset < PageSlots
  <2>1. region[g].page \in Pages /\ region[g].offset \in 0 .. PageSlots - 1
    BY <1>1, <1>2
  <2>2. a = region[g].page * PageSlots + region[g].offset
    BY <1>2 DEF Room
  <2>3. /\ a \in Addresses /\ PageOf(a) = region[g].page
        /\ a % PageSlots = region[g].offset
    BY <2>1, <2>2, AddressOf
  <2>4. (a % PageSlots) + 1 \in 1 .. PageSlots
    BY <1>1, <2>1, <2>3
  <2>5. QED
    BY <2>1, <2>3, <2>4
<1>3. CASE ~(region[g].page # Nil /\ region[g].offset < PageSlots)
  <2>1. PagesIn("Free") # {} /\ a = Least(PagesIn("Free")) * PageSlots
    BY <1>3 DEF Room
  <2> DEFINE p == Least(PagesIn("Free"))
  <2>2. PagesIn("Free") \in SUBSET Nat
    BY SizesAssumption DEF PagesIn, Pages
  <2>3. \E q \in PagesIn("Free") : \A k \in PagesIn("Free") : q <= k
    BY <2>1, <2>2, SomeLeast
  <2>4. p \in PagesIn("Free")
    BY <2>3 DEF Least
  <2>5. p \in Pages /\ page[p].gen = "Free"
    BY <2>4 DEF PagesIn
  <2>6. p \in Nat /\ 0 \in 0 .. PageSlots - 1
    BY <1>1, <2>2, <2>4
  <2>7. a = p * PageSlots + 0
    BY <1>1, <2>1, <2>6
  <2> HIDE DEF p
  <2>8. a \in Addresses /\ PageOf(a) = p /\ a % PageSlots = 0
    BY <2>5, <2>6, <2>7, AddressOf
  <2>9. (a % PageSlots) + 1 \in 1 .. PageSlots
    BY <1>1, <2>8
  <2>10. QED
    BY <2>5, <2>8, <2>9 DEF GenOf
<1>4. QED
  BY <1>2, <1>3

-----------------------------------------------------------------------------
(* Types, for all sizes of objects.                                        *)

Memory == [Addresses -> Cell]

LEMMA CellsAre ==
    /\ EmptyCell \in Cell
    /\ \A c \in Cell : /\ c.id \in Objects \cup {Nil}
                       /\ c.next \in Addresses \cup {Nil}
                       /\ c.to \in Addresses \cup {Nil}
    /\ \A o \in Objects \cup {Nil}, n \in Addresses \cup {Nil}, t \in Addresses \cup {Nil} :
          [id |-> o, next |-> n, to |-> t] \in Cell
BY DEF Cell, EmptyCell

\* What an allocation of a small object leaves behind.
LEMMA BumpTypes ==
    ASSUME TypeOK, NEW g \in Gens, NEW a,
           a = Room(g, TRUE) \/ a = Room(g, FALSE), a # Nil, Bump(g, a)
    PROVE  /\ a \in Addresses
           /\ page' \in [Pages -> [gen : Gens \cup {"Free"},
                                   kind : {"Free", "Small", "Head", "Cont"}]]
           /\ region' \in [Gens -> [page : Pages \cup {Nil}, offset : 0 .. PageSlots]]
<1>1. a \in Addresses /\ PageOf(a) \in Pages /\ (a % PageSlots) + 1 \in 0 .. PageSlots
  <2>1. (a % PageSlots) + 1 \in 1 .. PageSlots
    BY RoomIs
  <2>2. PageSlots \in Nat
    BY SizesAssumption
  <2>3. (a % PageSlots) + 1 \in 0 .. PageSlots
    BY <2>1, <2>2
  <2>4. QED
    BY <2>3, RoomIs
<1>2. QED
  BY <1>1 DEF Bump, TypeOK

LEMMA PutTypes ==
    ASSUME TypeOK, NEW a, NEW c \in Cell
    PROVE  Put(a, c) \in Memory
<1>1. \A b \in Addresses : heap[b] \in Cell
  BY DEF TypeOK
<1>2. QED
  BY <1>1, CellsAre DEF Put, Memory

\* An allocation in progress, or a new one.
LEMMA AskedAre ==
    ASSUME TypeOK, NEW q \in Asked
    PROVE  q \in Requests
<1>1. CASE request # Nil
  BY <1>1 DEF Asked, TypeOK
<1>2. CASE request = Nil
  <2>1. q \in [into : Roots, init : Roots \cup {Nil}, size : Sizes, attempt : {1}]
    BY <1>2 DEF Asked
  <2>2. QED
    BY <2>1 DEF Requests
<1>3. QED
  BY <1>1, <1>2

LEMMA InitialiseTypes ==
    ASSUME TypeOK, NEW q \in Requests, NEW a \in Addresses, Initialise(q, a)
    PROVE  /\ heap' \in Memory
           /\ root' \in [Roots -> Addresses \cup {Nil}]
           /\ request' = Nil
           /\ UNCHANGED <<dirty, pins, minors, promotes, phase, pass, marked, pinned,
                          todo, chunk>>
<1>1. q.into \in Roots /\ q.init \in Roots \cup {Nil}
  BY DEF Requests
<1>2. PICK o \in Fresh :
          heap' = Put(a, [id |-> o, to |-> Nil,
                          next |-> IF q.init = Nil THEN Nil ELSE root[q.init]])
  BY DEF Initialise
<1>3. o \in Objects
  BY DEF Fresh
<1>4. (IF q.init = Nil THEN Nil ELSE root[q.init]) \in Addresses \cup {Nil}
  BY <1>1 DEF TypeOK
<1>5. [id |-> o, to |-> Nil, next |-> IF q.init = Nil THEN Nil ELSE root[q.init]] \in Cell
  BY <1>3, <1>4 DEF Cell
<1>6. heap' \in Memory
  BY <1>2, <1>5, PutTypes
<1>7. root' \in [Roots -> Addresses \cup {Nil}]
  BY DEF Initialise, TypeOK
<1>8. QED
  BY <1>6, <1>7 DEF Initialise, counters, gcVars

\* A pass begins.
LEMMA StartTypes ==
    ASSUME TypeOK, NEW cycle \in {"minor", "full"}, NEW from \in Gens, NEW dest \in Gens,
           NEW scan \in [Pages -> Gens \cup {"Free"}],
           StartPass(cycle, from, dest, scan)
    PROVE  /\ phase' = "mark" /\ marked' \subseteq Addresses /\ pinned' \subseteq Addresses
           /\ todo' \subseteq Pages /\ chunk' \subseteq Pages
           /\ pass' \in [cycle : {"none", "minor", "full"}, from : Gens, dest : Gens,
                         scan : [Pages -> Gens \cup {"Free"}]]
           /\ pass'.cycle = cycle /\ pass'.from = from /\ pass'.dest = dest
           /\ pass'.scan = scan
BY DEF StartPass

LEMMA ScansAre ==
    ASSUME TypeOK
    PROVE  /\ Generations \in [Pages -> Gens \cup {"Free"}]
           /\ NoCards \in [Pages -> Gens \cup {"Free"}]
           /\ pass.scan \in [Pages -> Gens \cup {"Free"}]
           /\ NoPass \in [cycle : {"none", "minor", "full"}, from : Gens, dest : Gens,
                          scan : [Pages -> Gens \cup {"Free"}]]
           /\ "G0" \in Gens /\ "G1" \in Gens /\ "Tenured" \in Gens
BY DEF TypeOK, Generations, NoCards, NoPass, Gens

\* A collection begins.
LEMMA BeginTypes ==
    ASSUME Types, phase = "mutator", BeginMinor \/ BeginFull,
           request' \in Requests \cup {Nil}
    PROVE  Types'
<1>1. TypeOK /\ CounterInv /\ CycleInv
  BY DEF Types
<1>2. /\ minors \in Nat /\ minors < G0Threshold /\ promotes < G1Threshold
      /\ G0Threshold \in Nat
  BY <1>1, ThresholdAssumption DEF CounterInv, TypeOK
<1>3. CASE BeginMinor
  <2> DEFINE dest == IF minors + 1 >= G0Threshold THEN "G1" ELSE "G0"
  <2>1. /\ minors' = minors + 1 /\ StartPass("minor", "G0", dest, Generations)
        /\ UNCHANGED <<root, pins, heap, page, region, dirty, promotes>>
    BY <1>3 DEF BeginMinor
  <2>2. minors' \in 0 .. G0Threshold
    BY <1>2, <2>1
  <2>3. dest \in {"G0", "G1"} /\ (minors' < G0Threshold \/ dest = "G1")
    BY <1>2, <2>1
  <2> HIDE DEF dest
  <2>4. dest \in Gens
    BY <2>3 DEF Gens
  <2>5. /\ phase' = "mark" /\ marked' \subseteq Addresses /\ pinned' \subseteq Addresses
        /\ todo' \subseteq Pages /\ chunk' \subseteq Pages
        /\ pass' \in [cycle : {"none", "minor", "full"}, from : Gens, dest : Gens,
                      scan : [Pages -> Gens \cup {"Free"}]]
        /\ pass'.cycle = "minor" /\ pass'.from = "G0" /\ pass'.dest = dest
    BY <1>1, <2>1, <2>4, StartTypes, ScansAre
  <2>6. TypeOK'
    BY <1>1, <2>1, <2>2, <2>5 DEF TypeOK
  <2>7. CounterInv' /\ CycleInv'
    BY <1>2, <2>1, <2>3, <2>5 DEF CounterInv, CycleInv
  <2>8. QED
    BY <2>6, <2>7 DEF Types
<1>4. CASE BeginFull
  <2>1. /\ StartPass("full", "G0", "G1", Generations)
        /\ UNCHANGED <<root, pins, heap, page, region, dirty, minors, promotes>>
    BY <1>4 DEF BeginFull, counters
  <2>2. /\ phase' = "mark" /\ marked' \subseteq Addresses /\ pinned' \subseteq Addresses
        /\ todo' \subseteq Pages /\ chunk' \subseteq Pages
        /\ pass' \in [cycle : {"none", "minor", "full"}, from : Gens, dest : Gens,
                      scan : [Pages -> Gens \cup {"Free"}]]
        /\ pass'.cycle = "full" /\ pass'.from = "G0" /\ pass'.dest = "G1"
    BY <1>1, <2>1, StartTypes, ScansAre
  <2>3. TypeOK'
    BY <1>1, <2>1, <2>2 DEF TypeOK
  <2>4. CounterInv' /\ CycleInv'
    BY <1>2, <2>1, <2>2 DEF CounterInv, CycleInv
  <2>5. QED
    BY <2>3, <2>4 DEF Types
<1>5. QED
  BY <1>3, <1>4

\* A pass ends: the next begins, or the program goes on.
LEMMA EndTypes ==
    ASSUME Types, EndPass
    PROVE  Types'
<1>1. TypeOK /\ CounterInv /\ CycleInv
  BY DEF Types
<1>2. /\ phase = "chunk"
      /\ UNCHANGED <<root, pins, request, heap, page, region>>
  BY DEF EndPass, mutatorVars
<1>3. /\ minors \in Nat /\ promotes \in Nat /\ promotes < G1Threshold
      /\ G0Threshold \in Nat \ {0} /\ G1Threshold \in Nat \ {0}
  BY <1>1, ThresholdAssumption DEF CounterInv, TypeOK
<1>4. pass.cycle \in {"minor", "full"}
  BY <1>1, <1>2 DEF CycleInv, TypeOK
<1>5. ASSUME NEW cycle \in {"minor", "full"}, NEW from \in Gens, NEW dest \in Gens,
             NEW scan \in [Pages -> Gens \cup {"Free"}],
             StartPass(cycle, from, dest, scan), UNCHANGED dirty,
             <<cycle, from, dest>> \in {<<"minor", "G1", "Tenured">>,
                 <<"full", "G1", "Tenured">>, <<"full", "Tenured", "Tenured">>},
             minors' \in 0 .. G0Threshold, minors' < G0Threshold,
             promotes' \in 0 .. G1Threshold, promotes' < G1Threshold
      PROVE  Types'
  <2>1. /\ phase' = "mark" /\ marked' \subseteq Addresses /\ pinned' \subseteq Addresses
        /\ todo' \subseteq Pages /\ chunk' \subseteq Pages
        /\ pass' \in [cycle : {"none", "minor", "full"}, from : Gens, dest : Gens,
                      scan : [Pages -> Gens \cup {"Free"}]]
        /\ pass'.cycle = cycle /\ pass'.from = from /\ pass'.dest = dest
    BY <1>1, <1>5, StartTypes
  <2>2. TypeOK'
    BY <1>1, <1>2, <1>5, <2>1 DEF TypeOK
  <2>3. CounterInv' /\ CycleInv'
    BY <1>5, <2>1 DEF CounterInv, CycleInv
  <2>4. QED
    BY <2>2, <2>3 DEF Types
<1>6. ASSUME Finish, UNCHANGED todo,
             minors' \in 0 .. G0Threshold, minors' < G0Threshold,
             promotes' \in 0 .. G1Threshold, promotes' < G1Threshold
      PROVE  Types'
  <2>1. /\ phase' = "mutator" /\ pass' = NoPass /\ dirty' \subseteq Addresses
        /\ marked' = {} /\ pinned' = {} /\ chunk' = {}
    BY <1>6 DEF Finish
  <2>2. TypeOK'
    BY <1>1, <1>2, <1>6, <2>1, ScansAre DEF TypeOK
  <2>3. CounterInv' /\ CycleInv'
    BY <1>6, <2>1 DEF CounterInv, CycleInv, NoPass
  <2>4. QED
    BY <2>2, <2>3 DEF Types
<1>7. CASE pass.cycle = "minor"
  <2>1. CASE pass.from = "G0" /\ pass.dest = "G1"
    <3>1. minors' = 0
      BY <1>7, <2>1 DEF EndPass
    <3>2. CASE promotes + 1 >= G1Threshold
      <4>1. promotes' = 0 /\ StartPass("minor", "G1", "Tenured", pass.scan) /\ UNCHANGED dirty
        BY <1>7, <2>1, <3>2 DEF EndPass
      <4>2. /\ minors' \in 0 .. G0Threshold /\ minors' < G0Threshold
            /\ promotes' \in 0 .. G1Threshold /\ promotes' < G1Threshold
        BY <1>3, <3>1, <4>1
      <4>3. QED
        BY <1>1, <1>5, <4>1, <4>2, ScansAre
    <3>3. CASE ~(promotes + 1 >= G1Threshold)
      <4>1. promotes' = promotes + 1 /\ Finish /\ UNCHANGED todo
        BY <1>7, <2>1, <3>3 DEF EndPass
      <4>2. /\ minors' \in 0 .. G0Threshold /\ minors' < G0Threshold
            /\ promotes' \in 0 .. G1Threshold /\ promotes' < G1Threshold
        BY <1>3, <3>1, <3>3, <4>1
      <4>3. QED
        BY <1>6, <4>1, <4>2
    <3>4. QED
      BY <3>2, <3>3
  <2>2. CASE ~(pass.from = "G0" /\ pass.dest = "G1")
    <3>1. Finish /\ UNCHANGED <<minors, promotes, todo>>
      BY <1>7, <2>2 DEF EndPass, counters
    <3>2. minors < G0Threshold
      BY <1>1, <2>2 DEF CounterInv
    <3>3. QED
      BY <1>1, <1>3, <1>6, <3>1, <3>2 DEF TypeOK
  <2>3. QED
    BY <2>1, <2>2
<1>8. CASE pass.cycle = "full"
  <2>0. minors < G0Threshold
    BY <1>1, <1>8 DEF CounterInv
  <2>1. CASE pass.from = "G0"
    <3>1. /\ StartPass("full", "G1", "Tenured", Generations)
          /\ UNCHANGED <<minors, promotes, dirty>>
      BY <1>8, <2>1 DEF EndPass, counters
    <3>2. QED
      BY <1>1, <1>3, <1>5, <2>0, <3>1, ScansAre DEF TypeOK
  <2>2. CASE pass.from = "G1"
    <3>1. /\ StartPass("full", "Tenured", "Tenured", NoCards)
          /\ UNCHANGED <<minors, promotes, dirty>>
      BY <1>8, <2>2 DEF EndPass, counters
    <3>2. QED
      BY <1>1, <1>3, <1>5, <2>0, <3>1, ScansAre DEF TypeOK
  <2>3. CASE pass.from = "Tenured"
    <3>1. minors' = 0 /\ promotes' = 0 /\ Finish /\ UNCHANGED todo
      BY <1>8, <2>3 DEF EndPass
    <3>2. /\ minors' \in 0 .. G0Threshold /\ minors' < G0Threshold
          /\ promotes' \in 0 .. G1Threshold /\ promotes' < G1Threshold
      BY <1>3, <3>1
    <3>3. QED
      BY <1>6, <3>1, <3>2
  <2>4. QED
    BY <1>1, <2>1, <2>2, <2>3 DEF TypeOK, Gens
<1>9. QED
  BY <1>4, <1>7, <1>8

\* A step that is not the beginning or the end of a pass.
LEMMA WithinTypes ==
    ASSUME Types, TypeOK', UNCHANGED <<minors, promotes, pass>>,
           phase' \in {"mutator", "exhausted"} <=> phase \in {"mutator", "exhausted"}
    PROVE  Types'
BY DEF Types, CounterInv, CycleInv

\* Every step.
LEMMA TypeStep ==
    ASSUME Types, [Next]_vars
    PROVE  Types'
<1>0. TypeOK /\ CounterInv /\ CycleInv
  BY DEF Types
<1>1. CASE AllocYoung
  <2>1. PICK q \in Asked : /\ Room("G0", TRUE) # Nil
                           /\ Bump("G0", Room("G0", TRUE))
                           /\ Initialise(q, Room("G0", TRUE))
    BY <1>1 DEF AllocYoung
  <2> DEFINE a == Room("G0", TRUE)
  <2>2. q \in Requests /\ a = Room("G0", TRUE) /\ a # Nil /\ "G0" \in Gens
    BY <1>0, <2>1, AskedAre DEF Gens
  <2>3. Bump("G0", a) /\ Initialise(q, a)
    BY <2>1
  <2> HIDE DEF a
  <2>4. /\ a \in Addresses
        /\ page' \in [Pages -> [gen : Gens \cup {"Free"},
                                kind : {"Free", "Small", "Head", "Cont"}]]
        /\ region' \in [Gens -> [page : Pages \cup {Nil}, offset : 0 .. PageSlots]]
    BY <1>0, <2>2, <2>3, BumpTypes
  <2>5. /\ heap' \in Memory
        /\ root' \in [Roots -> Addresses \cup {Nil}]
        /\ request' = Nil
        /\ UNCHANGED <<dirty, pins, minors, promotes, phase, pass, marked, pinned,
                       todo, chunk>>
    BY <1>0, <2>2, <2>3, <2>4, InitialiseTypes
  <2>6. TypeOK'
    BY <1>0, <2>4, <2>5 DEF TypeOK, Memory
  <2>7. QED
    BY <2>5, <2>6, WithinTypes
<1>2. CASE AllocTenured
  <2>1. /\ Room("Tenured", TRUE) # Nil /\ request # Nil
        /\ Bump("Tenured", Room("Tenured", TRUE))
        /\ Initialise(request, Room("Tenured", TRUE))
    BY <1>2 DEF AllocTenured
  <2> DEFINE a == Room("Tenured", TRUE)
  <2>2. request \in Requests /\ a = Room("Tenured", TRUE) /\ a # Nil /\ "Tenured" \in Gens
    BY <1>0, <2>1 DEF TypeOK, Gens
  <2>3. Bump("Tenured", a) /\ Initialise(request, a)
    BY <2>1
  <2> HIDE DEF a
  <2>4. /\ a \in Addresses
        /\ page' \in [Pages -> [gen : Gens \cup {"Free"},
                                kind : {"Free", "Small", "Head", "Cont"}]]
        /\ region' \in [Gens -> [page : Pages \cup {Nil}, offset : 0 .. PageSlots]]
    BY <1>0, <2>2, <2>3, BumpTypes
  <2>5. /\ heap' \in Memory
        /\ root' \in [Roots -> Addresses \cup {Nil}]
        /\ request' = Nil
        /\ UNCHANGED <<dirty, pins, minors, promotes, phase, pass, marked, pinned,
                       todo, chunk>>
    BY <1>0, <2>2, <2>3, <2>4, InitialiseTypes
  <2>6. TypeOK'
    BY <1>0, <2>4, <2>5 DEF TypeOK, Memory
  <2>7. QED
    BY <2>5, <2>6, WithinTypes
<1>3. CASE AllocLarge
  <2> DEFINE p == Least(RunsOfFree)
             a == p * PageSlots
  <2>1. /\ request \in Requests /\ RunsOfFree # {}
        /\ page' = LargeRun(p, "Tenured") /\ Initialise(request, a)
        /\ UNCHANGED region
    BY <1>0, <1>3 DEF AllocLarge, TypeOK
  <2>2. RunsOfFree \in SUBSET Nat
    BY SizesAssumption DEF RunsOfFree, Pages
  <2>3. \E q \in RunsOfFree : \A k \in RunsOfFree : q <= k
    BY <2>1, <2>2, SomeLeast
  <2>4. p \in RunsOfFree
    BY <2>3 DEF Least
  <2>5. p \in Pages /\ p \in Nat /\ PageSlots \in Nat \ {0}
    BY <2>2, <2>4, SizesAssumption DEF RunsOfFree
  <2>6. page' \in [Pages -> [gen : Gens \cup {"Free"},
                             kind : {"Free", "Small", "Head", "Cont"}]]
    BY <1>0, <2>1 DEF LargeRun, TypeOK, Gens
  <2> HIDE DEF p
  <2>7. 0 \in 0 .. PageSlots - 1 /\ a = p * PageSlots + 0
    BY <2>5
  <2>8. a \in Addresses
    BY <2>5, <2>7, AddressOf
  <2> HIDE DEF a
  <2>9. /\ heap' \in Memory
        /\ root' \in [Roots -> Addresses \cup {Nil}]
        /\ request' = Nil
        /\ UNCHANGED <<dirty, pins, minors, promotes, phase, pass, marked, pinned,
                       todo, chunk>>
    BY <1>0, <2>1, <2>8, InitialiseTypes
  <2>10. TypeOK'
    BY <1>0, <2>1, <2>6, <2>9 DEF TypeOK, Memory
  <2>11. QED
    BY <2>9, <2>10, WithinTypes
<1>4. CASE Exhausted
  <2>1. /\ phase = "mutator" /\ phase' = "exhausted"
        /\ UNCHANGED <<root, pins, request, heap, page, region, dirty, minors, promotes,
                       pass, marked, pinned, todo, chunk>>
    BY <1>4 DEF Exhausted, Running, mutatorVars, counters
  <2>2. TypeOK'
    BY <1>0, <2>1 DEF TypeOK
  <2>3. QED
    BY <2>1, <2>2, WithinTypes
<1>5. CASE CollectForRoom
  <2>1. PICK q \in Asked : /\ q.attempt < 3
                           /\ request' = [q EXCEPT !.attempt = @ + 1]
                           /\ BeginMinor \/ BeginFull
    BY <1>5 DEF CollectForRoom
  <2>2. q \in Requests
    BY <1>0, AskedAre
  <2>3. q.attempt + 1 \in 1 .. 3
    BY <2>1, <2>2 DEF Requests
  <2>4. request' \in Requests
    BY <2>1, <2>2, <2>3 DEF Requests
  <2>5. phase = "mutator"
    BY <1>5 DEF CollectForRoom, Running
  <2>6. QED
    BY <2>1, <2>4, <2>5, BeginTypes
<1>6. CASE CollectOnDemand
  <2>1. phase = "mutator" /\ (BeginMinor \/ BeginFull) /\ request' \in Requests \cup {Nil}
    BY <1>0, <1>6 DEF CollectOnDemand, Idle, Running, TypeOK
  <2>2. QED
    BY <2>1, BeginTypes
<1>7. ASSUME NEW r \in Roots, Move(r) PROVE Types'
  <2>1. PICK v \in {Nil} \cup RootTargets \cup {heap[a].next : a \in RootTargets} :
            root' = [root EXCEPT ![r] = v]
    BY <1>7 DEF Move
  <2>2. UNCHANGED <<pins, request, heap, page, region, dirty, minors, promotes, phase,
                    pass, marked, pinned, todo, chunk>>
    BY <1>7 DEF Move, counters, gcVars
  <2>3. RootTargets \subseteq Addresses
    BY <1>0 DEF TypeOK, RootTargets
  <2>4. v \in Addresses \cup {Nil}
    BY <1>0, <2>3, CellsAre DEF TypeOK
  <2>5. TypeOK'
    BY <1>0, <2>1, <2>2, <2>4 DEF TypeOK
  <2>6. QED
    BY <2>2, <2>5, WithinTypes
<1>8. ASSUME NEW r \in Roots, Write(r) PROVE Types'
  <2>1. PICK v \in {Nil} \cup RootTargets : heap' = [heap EXCEPT ![root[r]].next = v]
    BY <1>8 DEF Write
  <2>2. /\ dirty' = dirty \cup {root[r]}
        /\ UNCHANGED <<root, pins, request, page, region, minors, promotes, phase,
                       pass, marked, pinned, todo, chunk>>
    BY <1>8 DEF Write, MarkCard, mutatorVars, counters, gcVars
  <2>3. RootTargets \subseteq Addresses /\ root[r] \in Addresses
    BY <1>0, <1>8 DEF TypeOK, RootTargets, Write
  <2>4. heap' \in [Addresses -> Cell]
    <3>1. v \in Addresses \cup {Nil} /\ heap \in [Addresses -> Cell]
      BY <1>0, <2>3 DEF TypeOK
    <3>2. [heap[root[r]] EXCEPT !.next = v] \in Cell
      BY <2>3, <3>1 DEF Cell
    <3>3. QED
      BY <2>1, <2>3, <3>1, <3>2
  <2>5. TypeOK'
    BY <1>0, <2>2, <2>3, <2>4 DEF TypeOK
  <2>6. QED
    BY <2>2, <2>5, WithinTypes
<1>9. ASSUME NEW r \in Roots, Pin(r) PROVE Types'
  <2>1. /\ pins[root[r]] < MaxPins
        /\ pins' = [pins EXCEPT ![root[r]] = @ + 1]
        /\ UNCHANGED <<root, request, heap, page, region, dirty, minors, promotes, phase,
                       pass, marked, pinned, todo, chunk>>
    BY <1>9 DEF Pin, counters, gcVars
  <2>2. root[r] \in Addresses /\ pins[root[r]] \in 0 .. MaxPins /\ MaxPins \in Nat
    BY <1>0, <1>9, ThresholdAssumption DEF TypeOK, Pin
  <2>3. pins[root[r]] + 1 \in 0 .. MaxPins
    BY <2>1, <2>2
  <2>4. pins' \in [Addresses -> 0 .. MaxPins]
    BY <1>0, <2>1, <2>3 DEF TypeOK
  <2>5. TypeOK'
    BY <1>0, <2>1, <2>4 DEF TypeOK
  <2>6. QED
    BY <2>1, <2>5, WithinTypes
<1>10. ASSUME NEW a \in Addresses, Unpin(a) PROVE Types'
  <2>1. /\ pins[a] > 0
        /\ pins' = [pins EXCEPT ![a] = @ - 1]
        /\ UNCHANGED <<root, request, heap, page, region, dirty, minors, promotes, phase,
                       pass, marked, pinned, todo, chunk>>
    BY <1>10 DEF Unpin, counters, gcVars
  <2>2. pins[a] \in 0 .. MaxPins /\ MaxPins \in Nat
    BY <1>0, ThresholdAssumption DEF TypeOK
  <2>3. pins[a] - 1 \in 0 .. MaxPins
    BY <2>1, <2>2
  <2>4. pins' \in [Addresses -> 0 .. MaxPins]
    BY <1>0, <2>1, <2>3 DEF TypeOK
  <2>5. TypeOK'
    BY <1>0, <2>1, <2>4 DEF TypeOK
  <2>6. QED
    BY <2>1, <2>5, WithinTypes
<1>11. CASE Mark
  <2>1. /\ phase = "mark" /\ phase' = "chunk"
        /\ marked' = MarkedFromRoots \cup MarkedFromPins
        /\ pinned' = PinnedCells /\ todo' = PagesIn(pass.from)
        /\ region' = [region EXCEPT ![pass.from] = EmptyRegion]
        /\ UNCHANGED <<root, pins, request, heap, page, dirty, minors, promotes, pass, chunk>>
    BY <1>11 DEF Mark, ResetRegion, mutatorVars, counters
  <2>2. /\ MarkedFromRoots \subseteq Addresses /\ MarkedFromPins \subseteq Addresses
        /\ PinnedCells \subseteq Addresses
    BY DEF MarkedFromRoots, MarkedFromPins, PinnedCells, LargeIn, ExplicitPins,
           Reachable, ObjectsIn
  <2>3. PagesIn(pass.from) \subseteq Pages
    BY DEF PagesIn
  <2>4. region' \in [Gens -> [page : Pages \cup {Nil}, offset : 0 .. PageSlots]]
    <3>1. EmptyRegion \in [page : Pages \cup {Nil}, offset : 0 .. PageSlots]
      BY SizesAssumption DEF EmptyRegion
    <3>2. QED
      BY <1>0, <2>1, <3>1 DEF TypeOK
  <2>5. TypeOK'
    BY <1>0, <2>1, <2>2, <2>3, <2>4 DEF TypeOK
  <2>6. QED
    BY <2>1, <2>5, WithinTypes
<1>12. CASE NextChunk
  <2>1. /\ phase = "chunk" /\ phase' = "copy"
        /\ chunk' \subseteq todo /\ todo' \subseteq todo
        /\ UNCHANGED <<root, pins, request, heap, page, region, dirty, minors, promotes,
                       pass, marked, pinned>>
    BY <1>12 DEF NextChunk, mutatorVars, counters
  <2>2. TypeOK'
    BY <1>0, <2>1 DEF TypeOK
  <2>3. QED
    BY <2>1, <2>2, WithinTypes
<1>13. CASE CopyObject
  <2> DEFINE src == Least(ToCopy)
             dst == Room(pass.dest, FALSE)
  <2>1. /\ ToCopy # {} /\ dst # Nil /\ Bump(pass.dest, dst)
        /\ heap' = [Put(dst, heap[src]) EXCEPT ![src] = [EmptyCell EXCEPT !.to = dst]]
        /\ dirty' = dirty \cup {dst}
        /\ UNCHANGED <<root, pins, request, minors, promotes, phase,
                       pass, marked, pinned, todo, chunk>>
    BY <1>13 DEF CopyObject, mutatorVars, counters, gcVars
  <2>2. ToCopy \in SUBSET Nat /\ ToCopy \subseteq Addresses
    <3>1. ToCopy \subseteq Addresses
      BY <1>0 DEF ToCopy, TypeOK
    <3>2. QED
      BY <3>1, AddressIs
  <2>3. \E a \in ToCopy : \A k \in ToCopy : a <= k
    BY <2>1, <2>2, SomeLeast
  <2>4. src \in Addresses
    BY <2>2, <2>3 DEF Least
  <2>5. pass.dest \in Gens /\ dst = Room(pass.dest, FALSE)
    BY <1>0 DEF TypeOK
  <2> HIDE DEF src, dst
  <2>6. /\ dst \in Addresses
        /\ page' \in [Pages -> [gen : Gens \cup {"Free"},
                                kind : {"Free", "Small", "Head", "Cont"}]]
        /\ region' \in [Gens -> [page : Pages \cup {Nil}, offset : 0 .. PageSlots]]
    BY <1>0, <2>1, <2>5, BumpTypes
  <2>7. Put(dst, heap[src]) \in Memory
    BY <1>0, <2>4, PutTypes DEF TypeOK
  <2>8. [EmptyCell EXCEPT !.to = dst] \in Cell
    BY <2>6 DEF EmptyCell, Cell
  <2>9. heap' \in [Addresses -> Cell]
    BY <2>1, <2>7, <2>8 DEF Memory
  <2>10. TypeOK'
    BY <1>0, <2>1, <2>6, <2>9 DEF TypeOK
  <2>11. QED
    BY <2>1, <2>10, WithinTypes
<1>14. CASE Stall
  <2>1. /\ phase = "copy" /\ phase' = "stalled"
        /\ UNCHANGED <<root, pins, request, heap, page, region, dirty, minors, promotes,
                       pass, marked, pinned, todo, chunk>>
    BY <1>14 DEF Stall, mutatorVars, counters
  <2>2. TypeOK'
    BY <1>0, <2>1 DEF TypeOK
  <2>3. QED
    BY <2>1, <2>2, WithinTypes
<1>15. CASE Rewrite
  <2>1. /\ phase = "copy" /\ phase' = "reclaim"
        /\ root' = [r \in Roots |-> Follow(root[r])]
        /\ heap' = [a \in Addresses |->
                      IF a \in Rewritten
                      THEN [heap[a] EXCEPT !.next = Follow(@)] ELSE heap[a]]
        /\ UNCHANGED <<pins, request, page, region, dirty, minors, promotes, pass, marked,
                       pinned, todo, chunk>>
    BY <1>15 DEF Rewrite, counters
  <2>2. \A a \in Addresses \cup {Nil} : Follow(a) \in Addresses \cup {Nil}
    BY <1>0, CellsAre DEF Follow, TypeOK
  <2>3. root' \in [Roots -> Addresses \cup {Nil}]
    BY <1>0, <2>1, <2>2 DEF TypeOK
  <2>4. heap' \in [Addresses -> Cell]
    <3>1. ASSUME NEW c \in Cell PROVE [c EXCEPT !.next = Follow(c.next)] \in Cell
      BY <2>2 DEF Cell
    <3>2. QED
      BY <1>0, <2>1, <3>1 DEF TypeOK
  <2>5. TypeOK'
    BY <1>0, <2>1, <2>3, <2>4 DEF TypeOK
  <2>6. QED
    BY <2>1, <2>5, WithinTypes
<1>16. CASE Reclaim
  <2>1. /\ phase = "reclaim" /\ phase' = "chunk" /\ chunk' = {}
        /\ UNCHANGED <<root, pins, request, region, minors, promotes, pass, marked, pinned,
                       todo>>
    BY <1>16 DEF Reclaim, mutatorVars, counters
  <2>2. /\ page' = [p \in Pages |->
                      IF p \in Kept THEN [page[p] EXCEPT !.gen = pass.dest]
                      ELSE IF p \in Released THEN FreePage ELSE page[p]]
        /\ heap' = [a \in Addresses |->
                      IF PageOf(a) \in Released
                         \/ (PageOf(a) \in Kept /\ a \notin pinned)
                      THEN EmptyCell ELSE heap[a]]
    BY <1>16 DEF Reclaim, Heads, Kept, Released
  <2>3. heap' \in [Addresses -> Cell]
    BY <1>0, <2>2, CellsAre DEF TypeOK
  <2>4. page' \in [Pages -> [gen : Gens \cup {"Free"},
                             kind : {"Free", "Small", "Head", "Cont"}]]
    BY <1>0, <2>2 DEF TypeOK, FreePage
  <2>5. dirty' \subseteq Addresses
    BY <1>0, <1>16 DEF Reclaim, TypeOK
  <2>6. TypeOK'
    BY <1>0, <2>1, <2>3, <2>4, <2>5 DEF TypeOK
  <2>7. QED
    BY <2>1, <2>6, WithinTypes
<1>17. CASE EndPass
  BY <1>17, EndTypes
<1>18. CASE UNCHANGED vars
  BY <1>0, <1>18 DEF vars, mutatorVars, counters, gcVars, Types, TypeOK, CounterInv, CycleInv
<1>19. QED
  BY <1>1, <1>2, <1>3, <1>4, <1>5, <1>6, <1>7, <1>8, <1>9, <1>10, <1>11, <1>12,
     <1>13, <1>14, <1>15, <1>16, <1>17, <1>18 DEF Next, Collector, Allocator

\* The heap's tables, counters and phases have their types, for all sizes of
\* objects: the promotion counters stay below their thresholds but in the pass
\* that promotes.
THEOREM Typing == Spec => []Types
<1>1. Init => Types
  <2> SUFFICES ASSUME Init PROVE Types
    OBVIOUS
  <2>1. /\ EmptyCell \in Cell /\ EmptyRegion \in [page : Pages \cup {Nil}, offset : 0 .. PageSlots]
        /\ FreePage \in [gen : Gens \cup {"Free"}, kind : {"Free", "Small", "Head", "Cont"}]
        /\ NoPass \in [cycle : {"none", "minor", "full"}, from : Gens, dest : Gens,
                       scan : [Pages -> Gens \cup {"Free"}]]
    BY SizesAssumption DEF EmptyCell, Cell, EmptyRegion, FreePage, NoPass, Gens
  <2>2. TypeOK
    BY <2>1, ThresholdAssumption DEF Init, TypeOK
  <2>3. CounterInv /\ CycleInv
    BY ThresholdAssumption DEF Init, CounterInv, CycleInv, NoPass
  <2>4. QED
    BY <2>2, <2>3 DEF Types
<1>2. Types /\ [Next]_vars => Types'
  BY TypeStep
<1>3. QED
  BY <1>1, <1>2, PTL DEF Spec

\* Every variable of the page heap keeps its type.
THEOREM TypeCorrectness == Spec => []TypeOK
BY Typing, PTL DEF Types

-----------------------------------------------------------------------------
(* Small objects.                                                          *)

\* No allocation spans pages.
SmallOnly == Sizes \subseteq {"small"}

\* The heap between passes: nothing is moved, all that is referred to is there,
\* and the cards are in order.
Consistent ==
    /\ KindInv /\ AllocatorInOrder /\ Sources = {}
    /\ \A a \in RootTargets \cup ExplicitPins : IsObject(a)
    /\ \A a \in Addresses :
          /\ heap[a].to = Nil
          /\ heap[a].id = Nil => heap[a].next = Nil
          /\ heap[a].next # Nil =>
                /\ IsObject(heap[a].next)
                /\ Age(GenOf(heap[a].next)) < Age(GenOf(a)) => a \in dirty

\* What is not empty is on a page of a generation.
LEMMA Basics ==
    ASSUME Types, KindInv, AllocatorInOrder
    PROVE  /\ pass.from \in Gens /\ pass.dest \in Gens
           /\ "Free" \notin Gens /\ EmptyCell.id = Nil /\ EmptyCell.to = Nil
           /\ EmptyCell.next = Nil
           /\ \A a \in Addresses :
                 /\ heap[a] \in Cell /\ PageOf(a) \in Pages
                 /\ page[PageOf(a)] = [gen |-> GenOf(a), kind |-> page[PageOf(a)].kind]
                 /\ GenOf(a) \in Gens \cup {"Free"}
                 /\ heap[a] # EmptyCell => /\ GenOf(a) \in Gens /\ GenOf(a) # "Free"
                                           /\ page[PageOf(a)].kind = "Small"
           /\ \A a : IsObject(a) => a \in Addresses /\ heap[a] # EmptyCell
<1>1. \A a \in Addresses : PageOf(a) \in Pages
  BY AddressIs
<1>2. TypeOK
  BY DEF Types
<1>3. "Free" \notin Gens /\ EmptyCell.id = Nil /\ EmptyCell.to = Nil /\ EmptyCell.next = Nil
  BY DEF Gens, EmptyCell
<1>4. ASSUME NEW a \in Addresses
      PROVE  /\ heap[a] \in Cell
             /\ page[PageOf(a)] = [gen |-> GenOf(a), kind |-> page[PageOf(a)].kind]
             /\ GenOf(a) \in Gens \cup {"Free"}
             /\ heap[a] # EmptyCell => /\ GenOf(a) \in Gens /\ GenOf(a) # "Free"
                                       /\ page[PageOf(a)].kind = "Small"
  <2>1. heap[a] \in Cell
    BY <1>2 DEF TypeOK
  <2>2. page[PageOf(a)] \in [gen : Gens \cup {"Free"},
                             kind : {"Free", "Small", "Head", "Cont"}]
    BY <1>1, <1>2 DEF TypeOK
  <2>3. heap[a] # EmptyCell => GenOf(a) # "Free"
    BY DEF AllocatorInOrder
  <2>4. /\ page[PageOf(a)].kind \in {"Free", "Small"}
        /\ page[PageOf(a)].kind = "Free" <=> page[PageOf(a)].gen = "Free"
    BY <1>1 DEF KindInv
  <2>5. QED
    BY <2>1, <2>2, <2>3, <2>4 DEF GenOf
<1>5. ASSUME NEW a, IsObject(a) PROVE a \in Addresses /\ heap[a] # EmptyCell
  BY <1>3, <1>5 DEF IsObject
<1>6. pass.from \in Gens /\ pass.dest \in Gens
  BY <1>2 DEF TypeOK
<1>7. QED
  BY <1>1, <1>3, <1>4, <1>5, <1>6

\* Before, after and between passes the invariant is that.
LEMMA AtRest ==
    ASSUME Types, HeapInv,
           phase \in {"mutator", "exhausted", "mark"} \/ (phase = "chunk" /\ todo = {})
    PROVE  Consistent
<1>1. /\ KindInv /\ AllocatorInOrder /\ PassInv /\ SourceInv
      /\ MarkerInv /\ PinInv /\ PointerInv /\ CardInv
  BY DEF HeapInv
<1>2. Sources = {}
  BY <1>1 DEF SourceInv, Sources, Evacuating
<1>3. \A a : Survives(a) <=> IsObject(a)
  BY <1>2 DEF Survives
<1>4. \A a \in Addresses : heap[a].to = Nil
  BY <1>1 DEF MarkerInv
<1>5. \A a \in Addresses \cup {Nil} : Resolve(a) = a
  BY <1>4 DEF Resolve
<1>6. TypeOK
  BY DEF Types
<1>7. ASSUME NEW a \in RootTargets PROVE IsObject(a)
  <2>1. a \in Addresses
    BY <1>6 DEF RootTargets, TypeOK
  <2>2. QED
    BY <1>1, <1>3, <1>5, <2>1 DEF PointerInv
<1>8. \A a \in ExplicitPins : IsObject(a)
  BY <1>1 DEF PinInv
<1>9. ASSUME NEW a \in Addresses
      PROVE  /\ heap[a].id = Nil => heap[a].next = Nil
             /\ heap[a].next # Nil =>
                   /\ IsObject(heap[a].next)
                   /\ Age(GenOf(heap[a].next)) < Age(GenOf(a)) => a \in dirty
  <2>1. heap[a].id = Nil => heap[a].next = Nil
    BY <1>1 DEF MarkerInv
  <2>2. SUFFICES ASSUME heap[a].next # Nil
                 PROVE  /\ IsObject(heap[a].next)
                        /\ Age(GenOf(heap[a].next)) < Age(GenOf(a)) => a \in dirty
    BY <2>1
  <2>3. IsObject(a)
    BY <2>1, <2>2 DEF IsObject
  <2>4. heap[a].next \in Addresses
    <3>1. heap[a] \in Cell
      BY <1>6 DEF TypeOK
    <3>2. QED
      BY <2>2, <3>1, CellsAre
  <2>5. IsObject(heap[a].next)
    BY <1>1, <1>3, <1>5, <2>2, <2>3, <2>4 DEF PointerInv
  <2>6. Age(GenOf(heap[a].next)) < Age(GenOf(a)) => a \in dirty
    BY <1>1, <1>3, <2>2, <2>3 DEF CardInv
  <2>7. QED
    BY <2>5, <2>6
<1>10. QED
  BY <1>1, <1>2, <1>4, <1>7, <1>8, <1>9 DEF Consistent

\* And it is enough, with what the first pass of a collection relies on.
LEMMA FromRest ==
    ASSUME Types', Consistent', PassInv',
           phase' \in {"mutator", "exhausted", "mark"},
           phase' = "mark" =>
              \A a \in Addresses :
                  (IsObject(a) /\ heap[a].next # Nil
                   /\ GenOf(heap[a].next) = pass.from /\ GenOf(a) # pass.from
                      => a \in OnScannedCard)'
    PROVE  HeapInv'
<1>1. Sources' = {} /\ ~Evacuating'
  BY DEF Consistent, Evacuating
<1>2. \A a : (Survives(a) <=> IsObject(a))'
  BY <1>1 DEF Survives
<1>3. \A a \in Addresses \cup {Nil} : Resolve(a)' = a
  BY DEF Resolve, Consistent
<1>4. TypeOK'
  BY DEF Types
<1>5. SourceInv'
  <2>1. todo' = {} /\ chunk' = {}
    BY <1>1 DEF Sources
  <2>2. QED
    BY <1>1, <2>1 DEF SourceInv
<1>6. MarkerInv'
  BY DEF MarkerInv, Consistent
<1>7. PinInv'
  BY <1>1 DEF PinInv, Consistent
<1>8. PointerInv'
  <2>1. ASSUME NEW a \in RootTargets' PROVE Survives(Resolve(a))'
    <3>1. a \in Addresses
      BY <1>4 DEF RootTargets, TypeOK
    <3>2. IsObject(a)'
      BY DEF Consistent
    <3>3. Resolve(a)' = a
      BY <1>3, <3>1
    <3>4. QED
      BY <3>2, <3>3, <1>1 DEF Survives, IsObject
  <2>2. ASSUME NEW a \in Addresses, heap'[a].next # Nil
        PROVE  Survives(Resolve(heap[a].next))'
    <3>1. IsObject(heap[a].next)' /\ heap'[a].next \in Addresses
      BY <2>2 DEF Consistent, IsObject
    <3>2. Resolve(heap[a].next)' = heap'[a].next
      BY <1>3, <3>1 DEF Resolve
    <3>3. QED
      BY <3>1, <3>2, <1>1 DEF Survives, IsObject
  <2>3. phase' # "reclaim"
    OBVIOUS
  <2>4. QED
    BY <2>1, <2>2, <2>3 DEF PointerInv
<1>9. CardInv'
  <2>1. \A a \in Addresses : (heap[a].next # Nil
          /\ Age(GenOf(heap[a].next)) < Age(GenOf(a)) => a \in dirty)'
    BY DEF Consistent
  <2>2. QED
    BY <1>1, <2>1 DEF CardInv
<1>10. QED
  BY <1>5, <1>6, <1>7, <1>8, <1>9 DEF HeapInv, Consistent

\* Put changes no other slot: a page of the free list is empty.
LEMMA PutElsewhere ==
    ASSUME AllocatorInOrder, NEW a, NEW c
    PROVE  \A b \in Addresses : b # a => Put(a, c)[b] = heap[b]
<1>1. ASSUME NEW b \in Addresses, PageOf(b) = PageOf(a), GenOf(a) = "Free"
      PROVE  heap[b] = EmptyCell
  BY <1>1 DEF AllocatorInOrder, GenOf
<1>2. QED
  BY <1>1 DEF Put

\* An allocation, by the program or by the collector, takes an empty slot of a
\* page that is not being evacuated, and keeps regions and free pages in order,
\* whatever else it does to pages that are.
LEMMA AllocStep ==
    ASSUME Types, KindInv, AllocatorInOrder, SourceInv,
           NEW g \in Gens, NEW a, a = Room(g, TRUE) \/ a = Room(g, FALSE), a # Nil,
           Bump(g, a),
           \A b \in Addresses : b = a \/ heap'[b] = heap[b] \/ PageOf(b) \in Sources
    PROVE  /\ a \in Addresses /\ heap[a] = EmptyCell /\ PageOf(a) \notin Sources
           /\ GenOf(a)' = g
           /\ \A p \in Pages : \/ page'[p] = page[p]
                               \/ p = PageOf(a) /\ page[p].gen = "Free" /\ page'[p].gen = g
           /\ \A b \in Addresses : heap[b] # EmptyCell => GenOf(b)' = GenOf(b)
           /\ \A h \in Gens : region'[h].page \notin Sources
           /\ KindInv' /\ AllocatorInOrder'
           /\ \A c : Put(a, c) = [heap EXCEPT ![a] = c]
<1>0. TypeOK /\ "Free" \notin Gens /\ pass.from \in Gens
  BY Basics DEF Types
<1>1. /\ a \in Addresses /\ PageOf(a) \in Pages
      /\ (a % PageSlots) + 1 \in 1 .. PageSlots
      /\ \/ /\ region[g].page = PageOf(a) /\ region[g].offset = a % PageSlots
         \/ GenOf(a) = "Free" /\ a % PageSlots = 0
  BY <1>0, RoomIs
<1>2. /\ page' = [page EXCEPT ![PageOf(a)] = [gen |-> g, kind |-> "Small"]]
      /\ region' = [region EXCEPT ![g] = [page |-> PageOf(a), offset |-> (a % PageSlots) + 1]]
  BY DEF Bump
<1>3. /\ page'[PageOf(a)] = [gen |-> g, kind |-> "Small"]
      /\ \A p \in Pages : p # PageOf(a) => page'[p] = page[p]
      /\ region'[g].page = PageOf(a) /\ region'[g].offset = (a % PageSlots) + 1
      /\ \A h \in Gens : h # g => region'[h] = region[h]
  BY <1>0, <1>1, <1>2 DEF TypeOK
<1>4. /\ PageSlots \in Nat \ {0}
      /\ \A b \in Addresses : b \in Nat /\ PageOf(b) \in Pages /\ b % PageSlots \in 0 .. PageSlots - 1
  BY SizesAssumption, AddressIs
<1>5. CASE region[g].page = PageOf(a) /\ region[g].offset = a % PageSlots
  <2>1. region[g].page # Nil
    BY <1>1, <1>5, NilIs
  <2>2. /\ page[PageOf(a)] = [gen |-> g, kind |-> "Small"]
        /\ \A b \in Slots(PageOf(a)) : b % PageSlots >= a % PageSlots => heap[b] = EmptyCell
    BY <1>5, <2>1 DEF AllocatorInOrder
  <2>3. page' = page
    BY <1>0, <1>2, <2>2 DEF TypeOK
  <2>4. a \in Slots(PageOf(a)) /\ a % PageSlots >= a % PageSlots
    BY <1>1, <1>4 DEF Slots
  <2>5. heap[a] = EmptyCell /\ PageOf(a) \notin Sources
    BY <1>5, <2>2, <2>4 DEF SourceInv
  <2>6. GenOf(a) # "Free"
    BY <1>0, <2>2 DEF GenOf
  <2>7. \A c : Put(a, c) = [heap EXCEPT ![a] = c]
    BY <1>0, <1>1, <2>6 DEF Put, TypeOK
  <2>8. \A h \in Gens : region'[h].page \notin Sources
    BY <1>3, <2>5 DEF SourceInv
  <2>9. KindInv'
    BY <2>3 DEF KindInv
  <2>10. \A b \in Addresses : GenOf(b)' = GenOf(b)
    BY <2>3 DEF GenOf
  <2>11. ASSUME NEW b \in Addresses, GenOf(b)' = "Free" PROVE heap'[b] = EmptyCell
    <3>1. GenOf(b) = "Free" /\ heap[b] = EmptyCell
      BY <2>10, <2>11 DEF AllocatorInOrder
    <3>2. b # a
      BY <2>6, <3>1
    <3>3. PageOf(b) \notin Sources
      BY <1>0, <3>1 DEF SourceInv, PagesIn, GenOf
    <3>4. QED
      BY <3>1, <3>2, <3>3
  <2>12. ASSUME NEW h \in Gens, region'[h].page # Nil
         PROVE  /\ page'[region'[h].page] = [gen |-> h, kind |-> "Small"]
                /\ \A b \in Slots(region'[h].page) :
                      b % PageSlots >= region'[h].offset => heap'[b] = EmptyCell
    <3>1. CASE h = g
      <4>1. ASSUME NEW b \in Slots(PageOf(a)), b % PageSlots >= (a % PageSlots) + 1
            PROVE  heap'[b] = EmptyCell
        <5>1. b \in Addresses /\ PageOf(b) = PageOf(a)
          BY DEF Slots
        <5>2. b # a /\ b % PageSlots >= a % PageSlots
          BY <1>1, <1>4, <4>1, <5>1
        <5>3. heap[b] = EmptyCell
          BY <2>2, <5>2
        <5>4. QED
          BY <2>5, <5>1, <5>2, <5>3
      <4>2. QED
        BY <1>3, <3>1, <4>1
    <3>2. CASE h # g
      <4>1. region'[h] = region[h]
        BY <1>3, <3>2
      <4>2. /\ page[region[h].page] = [gen |-> h, kind |-> "Small"]
            /\ \A b \in Slots(region[h].page) :
                  b % PageSlots >= region[h].offset => heap[b] = EmptyCell
        BY <2>12, <4>1 DEF AllocatorInOrder
      <4>3. region[h].page # PageOf(a)
        BY <2>2, <3>2, <4>2
      <4>4. ASSUME NEW b \in Slots(region[h].page), b % PageSlots >= region[h].offset
            PROVE  heap'[b] = EmptyCell
        <5>1. b \in Addresses /\ PageOf(b) = region[h].page
          BY DEF Slots
        <5>2. b # a /\ PageOf(b) \notin Sources
          BY <4>3, <5>1 DEF SourceInv
        <5>3. QED
          BY <4>2, <4>4, <5>1, <5>2
      <4>5. QED
        BY <2>3, <4>1, <4>2, <4>4
    <3>3. QED
      BY <3>1, <3>2
  <2>13. AllocatorInOrder'
    BY <2>11, <2>12 DEF AllocatorInOrder
  <2>14. GenOf(a)' = g
    BY <1>3 DEF GenOf
  <2>15. QED
    BY <1>1, <2>3, <2>5, <2>7, <2>8, <2>9, <2>10, <2>13, <2>14
<1>6. CASE GenOf(a) = "Free" /\ a % PageSlots = 0
  <2>1. \A b \in Slots(PageOf(a)) : heap[b] = EmptyCell
    BY <1>6 DEF AllocatorInOrder, Slots, GenOf
  <2>2. heap[a] = EmptyCell
    BY <1>1, <2>1 DEF Slots
  <2>3. PageOf(a) \notin Sources
    BY <1>0, <1>6 DEF SourceInv, PagesIn, GenOf
  <2>4. \A c : Put(a, c) = [heap EXCEPT ![a] = c]
    <3>1. \A b \in Addresses : PageOf(b) = PageOf(a) => heap[b] = EmptyCell
      BY <2>1 DEF Slots
    <3>2. heap = [b \in Addresses |-> heap[b]]
      BY <1>0 DEF TypeOK
    <3>3. TAKE c
    <3>4. Put(a, c) = [b \in Addresses |-> IF b = a THEN c ELSE heap[b]]
      BY <3>1 DEF Put
    <3>5. QED
      BY <3>2, <3>4
  <2>5. \A h \in Gens : region'[h].page \notin Sources
    BY <1>3, <2>3 DEF SourceInv
  <2>6. KindInv'
    BY <1>0, <1>3 DEF KindInv
  <2>7. ASSUME NEW b \in Addresses, heap[b] # EmptyCell PROVE GenOf(b)' = GenOf(b)
    <3>1. PageOf(b) # PageOf(a)
      BY <2>1, <2>7 DEF Slots
    <3>2. QED
      BY <1>3, <1>4, <3>1 DEF GenOf
  <2>8. ASSUME NEW b \in Addresses, GenOf(b)' = "Free" PROVE heap'[b] = EmptyCell
    <3>1. PageOf(b) # PageOf(a)
      BY <1>0, <1>3, <2>8 DEF GenOf
    <3>2. GenOf(b) = "Free" /\ b # a
      BY <1>3, <1>4, <2>8, <3>1 DEF GenOf
    <3>3. PageOf(b) \notin Sources
      BY <1>0, <3>2 DEF SourceInv, PagesIn, GenOf
    <3>4. QED
      BY <3>2, <3>3 DEF AllocatorInOrder
  <2>9. ASSUME NEW h \in Gens, region'[h].page # Nil
        PROVE  /\ page'[region'[h].page] = [gen |-> h, kind |-> "Small"]
               /\ \A b \in Slots(region'[h].page) :
                     b % PageSlots >= region'[h].offset => heap'[b] = EmptyCell
    <3>1. CASE h = g
      <4>1. ASSUME NEW b \in Slots(PageOf(a)), b % PageSlots >= (a % PageSlots) + 1
            PROVE  heap'[b] = EmptyCell
        <5>1. b \in Addresses /\ PageOf(b) = PageOf(a) /\ heap[b] = EmptyCell
          BY <2>1 DEF Slots
        <5>2. b # a
          BY <1>1, <1>4, <4>1, <5>1
        <5>3. QED
          BY <2>3, <5>1, <5>2
      <4>2. QED
        BY <1>3, <3>1, <4>1
    <3>2. CASE h # g
      <4>1. region'[h] = region[h]
        BY <1>3, <3>2
      <4>2. /\ page[region[h].page] = [gen |-> h, kind |-> "Small"]
            /\ \A b \in Slots(region[h].page) :
                  b % PageSlots >= region[h].offset => heap[b] = EmptyCell
        BY <2>9, <4>1 DEF AllocatorInOrder
      <4>3. region[h].page # PageOf(a)
        BY <1>0, <1>6, <4>2 DEF GenOf
      <4>4. region[h].page \in Pages
        BY <1>0, <2>9, <4>1 DEF TypeOK
      <4>5. ASSUME NEW b \in Slots(region[h].page), b % PageSlots >= region[h].offset
            PROVE  heap'[b] = EmptyCell
        <5>1. b \in Addresses /\ PageOf(b) = region[h].page
          BY DEF Slots
        <5>2. b # a /\ PageOf(b) \notin Sources
          BY <4>3, <5>1 DEF SourceInv
        <5>3. QED
          BY <4>2, <4>5, <5>1, <5>2
      <4>6. QED
        BY <1>3, <4>1, <4>2, <4>3, <4>4, <4>5
    <3>3. QED
      BY <3>1, <3>2
  <2>10. AllocatorInOrder'
    BY <2>8, <2>9 DEF AllocatorInOrder
  <2>11. /\ GenOf(a)' = g
         /\ \A p \in Pages : \/ page'[p] = page[p]
                             \/ p = PageOf(a) /\ page[p].gen = "Free" /\ page'[p].gen = g
    BY <1>3, <1>6 DEF GenOf
  <2>12. QED
    BY <1>1, <2>2, <2>3, <2>4, <2>5, <2>6, <2>7, <2>10, <2>11
<1>7. QED
  BY <1>1, <1>5, <1>6

-----------------------------------------------------------------------------
(* The program.                                                            *)

LEMMA Ages ==
    /\ Age("G0") = 0 /\ Age("G1") = 1 /\ Age("Tenured") = 2
    /\ \A g : Age(g) \in 0 .. 2
BY DEF Age

\* A pass moves nothing to a younger generation.
LEMMA PassesAge ==
    ASSUME Types, pass.cycle # "none"
    PROVE  Age(pass.from) <= Age(pass.dest)
BY Ages DEF Types, TypeOK, CycleInv

\* The program has the memory that was allocated, and initialises it.
LEMMA InitialiseIs ==
    ASSUME Types, KindInv, AllocatorInOrder, SourceInv,
           NEW g \in Gens, NEW a, a = Room(g, TRUE) \/ a = Room(g, FALSE), a # Nil,
           Bump(g, a), NEW q \in Requests, Initialise(q, a)
    PROVE  /\ a \in Addresses /\ heap[a] = EmptyCell /\ GenOf(a)' = g
           /\ \A b \in Addresses : b # a => heap'[b] = heap[b]
           /\ \A b \in Addresses : heap[b] # EmptyCell => GenOf(b)' = GenOf(b)
           /\ KindInv' /\ AllocatorInOrder'
           /\ \E o \in Fresh, n \in {Nil} \cup RootTargets :
                 /\ o \in Objects /\ o # Nil
                 /\ heap'[a].id = o /\ heap'[a].to = Nil /\ heap'[a].next = n
<1>1. TypeOK
  BY DEF Types
<1>2. PICK n : n = IF q.init = Nil THEN Nil ELSE root[q.init]
  OBVIOUS
<1>3. PICK o \in Fresh : heap' = Put(a, [id |-> o, to |-> Nil, next |-> n])
  BY <1>2 DEF Initialise
<1>5. o \in Objects /\ o # Nil
  BY NilIs DEF Fresh
<1>6. n \in {Nil} \cup RootTargets
  <2>1. q.init \in Roots \cup {Nil}
    BY DEF Requests
  <2>2. QED
    BY <1>2, <2>1 DEF RootTargets
<1>7. \A b \in Addresses : b # a => heap'[b] = heap[b]
  BY <1>3, PutElsewhere
<1>8. /\ a \in Addresses /\ heap[a] = EmptyCell
      /\ GenOf(a)' = g
      /\ \A b \in Addresses : heap[b] # EmptyCell => GenOf(b)' = GenOf(b)
      /\ KindInv' /\ AllocatorInOrder'
  <2>1. \A b \in Addresses : b = a \/ heap'[b] = heap[b] \/ PageOf(b) \in Sources
    BY <1>7
  <2>2. QED
    BY <2>1, AllocStep
<1>9. heap'[a] = [id |-> o, to |-> Nil, next |-> n]
  BY <1>3, <1>8 DEF Put
<1>10. heap'[a].id = o /\ heap'[a].to = Nil /\ heap'[a].next = n
  BY <1>9
<1>11. QED
  BY <1>3, <1>5, <1>6, <1>7, <1>8, <1>10

LEMMA InitialiseStep ==
    ASSUME Types, Types', HeapInv, phase = "mutator",
           NEW g \in Gens, NEW a, a = Room(g, TRUE), a # Nil, Bump(g, a),
           NEW q \in Requests, Initialise(q, a),
           g # "G0" => PagesIn("G0") = {} /\ PagesIn("G1") = {}
    PROVE  HeapInv'
<1>0. /\ Consistent /\ KindInv /\ AllocatorInOrder /\ SourceInv /\ PassInv
  BY AtRest DEF HeapInv
<1>1. TypeOK /\ TypeOK' /\ CycleInv
  BY DEF Types
<1>2. Sources = {}
  BY <1>0 DEF Consistent
<1>4. /\ root' = [root EXCEPT ![q.into] = a] /\ request' = Nil
      /\ UNCHANGED <<dirty, pins, phase, pass, todo, chunk>>
  BY DEF Initialise, counters, gcVars
<1>5. PICK o \in Fresh, n \in {Nil} \cup RootTargets :
         /\ o \in Objects /\ o # Nil
         /\ heap'[a].id = o /\ heap'[a].to = Nil /\ heap'[a].next = n
  BY <1>0, InitialiseIs
<1>8. /\ a \in Addresses /\ heap[a] = EmptyCell /\ GenOf(a)' = g
      /\ \A b \in Addresses : heap[b] # EmptyCell => GenOf(b)' = GenOf(b)
      /\ KindInv' /\ AllocatorInOrder'
  BY <1>0, InitialiseIs
<1>9. \A b \in Addresses : b # a => heap'[b] = heap[b]
  BY <1>0, InitialiseIs
<1>11. EmptyCell.id = Nil
  BY DEF EmptyCell
<1>12. \A b : IsObject(b) => /\ b \in Addresses /\ heap[b] # EmptyCell /\ b # a
                             /\ heap'[b] = heap[b] /\ IsObject(b)' /\ GenOf(b)' = GenOf(b)
  BY <1>8, <1>9, <1>11 DEF IsObject
<1>13. IsObject(a)'
  BY <1>5, <1>8 DEF IsObject
<1>14. n # Nil => IsObject(n)
  BY <1>0, <1>5 DEF Consistent
<1>15. Consistent'
  <2>1. Sources' = {}
    BY <1>2, <1>4 DEF Sources
  <2>2. ASSUME NEW b \in (RootTargets \cup ExplicitPins)' PROVE IsObject(b)'
    <3>1. b = a \/ b \in RootTargets \/ b \in ExplicitPins
      <4>1. ExplicitPins' = ExplicitPins
        BY <1>4 DEF ExplicitPins
      <4>2. \A r \in Roots : root'[r] = a \/ root'[r] = root[r]
        BY <1>1, <1>4 DEF TypeOK
      <4>3. QED
        BY <4>1, <4>2 DEF RootTargets
    <3>2. QED
      BY <1>0, <1>12, <1>13, <3>1 DEF Consistent
  <2>3. ASSUME NEW b \in Addresses
        PROVE  /\ heap'[b].to = Nil
               /\ heap'[b].id = Nil => heap'[b].next = Nil
               /\ heap'[b].next # Nil =>
                     /\ IsObject(heap[b].next)'
                     /\ Age(GenOf(heap[b].next)') < Age(GenOf(b)') => b \in dirty'
    <3>1. CASE b = a
      <4>1. heap'[b].to = Nil /\ heap'[b].id # Nil /\ heap'[b].next = n
        BY <1>5, <3>1
      <4>2. SUFFICES ASSUME n # Nil
                     PROVE  IsObject(n)' /\ ~(Age(GenOf(n)') < Age(GenOf(b)'))
        BY <4>1 DEF IsObject, GenOf
      <4>3. IsObject(n)' /\ GenOf(n)' = GenOf(n) /\ IsObject(n)
        BY <1>12, <1>14, <4>2
      <4>4. GenOf(b)' = g
        BY <1>8, <3>1
      <4>5. n \in Addresses /\ GenOf(n) \in Gens /\ PageOf(n) \in Pages
        BY <1>0, <4>3, Basics
      <4>6. ~(Age(GenOf(n)) < Age(g))
        <5>1. CASE g = "G0"
          BY <5>1, Ages
        <5>2. CASE PagesIn("G0") = {} /\ PagesIn("G1") = {}
          <6>1. GenOf(n) = "Tenured"
            BY <4>5, <5>2 DEF PagesIn, GenOf, Gens
          <6>2. QED
            BY <6>1, Ages
        <5>3. QED
          BY <5>1, <5>2
      <4>7. QED
        BY <4>3, <4>4, <4>6
    <3>2. CASE b # a
      <4>1. heap'[b] = heap[b]
        BY <1>9, <3>2
      <4>2. /\ heap[b].to = Nil
            /\ heap[b].id = Nil => heap[b].next = Nil
            /\ heap[b].next # Nil =>
                  /\ IsObject(heap[b].next)
                  /\ Age(GenOf(heap[b].next)) < Age(GenOf(b)) => b \in dirty
        BY <1>0 DEF Consistent
      <4>3. SUFFICES ASSUME heap[b].next # Nil
                     PROVE  /\ IsObject(heap[b].next)'
                            /\ Age(GenOf(heap[b].next)') < Age(GenOf(b)') => b \in dirty'
        BY <4>1, <4>2
      <4>4. IsObject(b)
        BY <4>2, <4>3 DEF IsObject
      <4>5. /\ GenOf(b)' = GenOf(b) /\ IsObject(heap[b].next)'
            /\ GenOf(heap[b].next)' = page'[PageOf(heap[b].next)].gen
            /\ page'[PageOf(heap[b].next)].gen = GenOf(heap[b].next)
        BY <1>12, <4>1, <4>2, <4>3, <4>4 DEF GenOf
      <4>6. QED
        BY <1>4, <4>1, <4>2, <4>3, <4>5
    <3>3. QED
      BY <3>1, <3>2
  <2>4. QED
    BY <1>8, <2>1, <2>2, <2>3 DEF Consistent
<1>16. PassInv'
  <2>1. pass'.cycle = "none" /\ pass'.from = "G0" /\ request' = Nil
    BY <1>0, <1>1, <1>4 DEF CycleInv, PassInv
  <2>2. QED
    BY <2>1 DEF PassInv
<1>17. QED
  BY <1>4, <1>15, <1>16, FromRest

\* A step of the program that asks for no memory.
LEMMA ProgramStep ==
    ASSUME Types', HeapInv, Consistent', UNCHANGED <<page, pass, request>>,
           phase' \in {"mutator", "exhausted"}
    PROVE  HeapInv'
<1>1. PassInv'
  BY DEF HeapInv, PassInv, PagesIn
<1>2. QED
  BY <1>1, FromRest

\* The program gets memory in G0, or in Tenured after a full collection.
LEMMA AllocIs ==
    ASSUME Types, HeapInv, SmallOnly, AllocYoung \/ AllocTenured \/ AllocLarge
    PROVE  /\ phase = "mutator"
           /\ \E g \in Gens, q \in Requests, a \in {Room("G0", TRUE), Room("Tenured", TRUE)} :
                 /\ a = Room(g, TRUE) /\ a # Nil /\ Bump(g, a) /\ Initialise(q, a)
                 /\ g # "G0" => PagesIn("G0") = {} /\ PagesIn("G1") = {}
<1>0. TypeOK /\ CycleInv /\ PassInv
  BY DEF Types, HeapInv
<1>1. CASE AllocYoung
  <2>1. PICK q \in Asked : /\ Room("G0", TRUE) # Nil
                           /\ Bump("G0", Room("G0", TRUE))
                           /\ Initialise(q, Room("G0", TRUE))
    BY <1>1 DEF AllocYoung
  <2>2. q \in Requests /\ phase = "mutator"
    BY <1>0, <1>1, AskedAre DEF AllocYoung, Running
  <2>3. PICK g \in Gens : g = "G0"
    BY DEF Gens
  <2>4. QED
    BY <2>1, <2>2, <2>3
<1>2. CASE AllocTenured
  <2>1. /\ phase = "mutator" /\ request # Nil /\ request.attempt = 3
        /\ Room("Tenured", TRUE) # Nil
        /\ Bump("Tenured", Room("Tenured", TRUE))
        /\ Initialise(request, Room("Tenured", TRUE))
    BY <1>2 DEF AllocTenured, Running
  <2>2. request \in Requests
    BY <1>0, <2>1 DEF TypeOK
  <2>3. PagesIn("G0") = {} /\ PagesIn("G1") = {}
    BY <1>0, <2>1 DEF CycleInv, PassInv
  <2>4. PICK g \in Gens : g = "Tenured"
    BY DEF Gens
  <2>5. QED
    BY <2>1, <2>2, <2>3, <2>4
<1>3. CASE AllocLarge
  <2>1. request \in Requests /\ request.size = "large"
    BY <1>0, <1>3 DEF AllocLarge, TypeOK
  <2>2. request.size \in Sizes
    BY <2>1 DEF Requests
  <2>3. QED
    BY <2>1, <2>2 DEF SmallOnly
<1>4. QED
  BY <1>1, <1>2, <1>3

LEMMA AllocationSteps ==
    ASSUME Types, Types', HeapInv, SmallOnly,
           AllocYoung \/ AllocTenured \/ AllocLarge \/ Exhausted
    PROVE  HeapInv'
<1>1. CASE AllocYoung \/ AllocTenured \/ AllocLarge
  <2>1. PICK g \in Gens, q \in Requests, a \in {Room("G0", TRUE), Room("Tenured", TRUE)} :
           /\ a = Room(g, TRUE) /\ a # Nil /\ Bump(g, a) /\ Initialise(q, a)
           /\ g # "G0" => PagesIn("G0") = {} /\ PagesIn("G1") = {}
    BY <1>1, AllocIs
  <2>2. phase = "mutator"
    BY <1>1, AllocIs
  <2>3. QED
    BY <2>1, <2>2, InitialiseStep
<1>4. CASE Exhausted
  <2>1. /\ phase = "mutator" /\ phase' = "exhausted"
        /\ UNCHANGED <<root, pins, request, heap, page, region, dirty, pass, todo, chunk>>
    BY <1>4 DEF Exhausted, Running, mutatorVars
  <2>2. Consistent
    BY <2>1, AtRest
  <2>3. Consistent'
    <3>1. KindInv' /\ AllocatorInOrder'
      BY <2>1, <2>2 DEF Consistent, KindInv, AllocatorInOrder, GenOf
    <3>2. QED
      BY <2>1, <2>2, <3>1
      DEF Consistent, Sources, RootTargets, ExplicitPins, IsObject, GenOf
  <2>4. QED
    BY <2>1, <2>3, ProgramStep
<1>5. QED
  BY <1>1, <1>4

LEMMA MutationSteps ==
    ASSUME Types, Types', HeapInv,
           \/ \E r \in Roots : Move(r) \/ Write(r) \/ Pin(r)
           \/ \E a \in Addresses : Unpin(a)
    PROVE  HeapInv'
<1>0. /\ phase = "mutator" /\ phase' = "mutator"
      /\ UNCHANGED <<page, pass, request, region, todo, chunk>>
  BY DEF Move, Write, Pin, Unpin, Idle, Running, gcVars, mutatorVars
<1>1. Consistent /\ TypeOK
  BY <1>0, AtRest DEF Types
<1>2. Sources' = {} /\ KindInv'
  BY <1>0, <1>1 DEF Consistent, Sources, KindInv
<1>3. ASSUME NEW r \in Roots, Move(r) PROVE HeapInv'
  <2>1. UNCHANGED <<pins, heap, dirty>>
    BY <1>3 DEF Move
  <2>2. PICK v \in {Nil} \cup RootTargets \cup {heap[b].next : b \in RootTargets} :
               root' = [root EXCEPT ![r] = v]
    BY <1>3 DEF Move
  <2>3. v = Nil \/ IsObject(v)
    BY <1>1, <2>2 DEF Consistent, IsObject
  <2>4. \A b \in RootTargets' : b \in RootTargets \/ b = v
    BY <1>1, <2>2 DEF RootTargets, TypeOK
  <2>5. \A b \in RootTargets' \cup ExplicitPins' : IsObject(b)'
    <3>1. \A b \in RootTargets' \cup ExplicitPins' : IsObject(b)
      BY <1>1, <2>1, <2>3, <2>4 DEF Consistent, ExplicitPins, RootTargets
    <3>2. QED
      BY <2>1, <3>1 DEF IsObject
  <2>6. AllocatorInOrder'
    BY <1>0, <1>1, <2>1 DEF Consistent, AllocatorInOrder, GenOf
  <2>7. Consistent'
    BY <1>0, <1>1, <1>2, <2>1, <2>5, <2>6 DEF Consistent, IsObject, GenOf
  <2>8. QED
    BY <1>0, <2>7, ProgramStep
<1>4. ASSUME NEW r \in Roots, Write(r) PROVE HeapInv'
  <2>1. /\ UNCHANGED <<root, pins>> /\ root[r] # Nil
        /\ dirty' = dirty \cup {root[r]}
    BY <1>4 DEF Write, MarkCard, mutatorVars
  <2>2. PICK v \in {Nil} \cup RootTargets : heap' = [heap EXCEPT ![root[r]].next = v]
    BY <1>4 DEF Write
  <2>3. PICK s : s = root[r]
    OBVIOUS
  <2>4. s \in Addresses /\ IsObject(s) /\ heap[s].id # Nil
    BY <1>1, <2>1, <2>3 DEF Consistent, RootTargets, IsObject
  <2>5. v = Nil \/ IsObject(v)
    BY <1>1, <2>2 DEF Consistent
  <2>6. /\ heap'[s].id = heap[s].id /\ heap'[s].to = heap[s].to /\ heap'[s].next = v
        /\ \A b \in Addresses : b # s => heap'[b] = heap[b]
    <3>1. heap[s] \in Cell
      BY <1>1, <2>4 DEF TypeOK
    <3>2. QED
      BY <1>1, <2>2, <2>3, <2>4, <3>1 DEF TypeOK, Cell
  <2>7. \A b : IsObject(b)' <=> IsObject(b)
    BY <2>4, <2>6 DEF IsObject
  <2>8. \A b : GenOf(b)' = GenOf(b)
    BY <1>0 DEF GenOf
  <2>9. AllocatorInOrder'
    <3>1. heap[s] # EmptyCell
      BY <2>4 DEF EmptyCell
    <3>2. \A b \in Addresses : heap[b] = EmptyCell => heap'[b] = EmptyCell
      BY <2>6, <3>1
    <3>3. QED
      BY <1>0, <1>1, <3>2 DEF Consistent, AllocatorInOrder, Slots, GenOf
  <2>10. \A b \in RootTargets' \cup ExplicitPins' : IsObject(b)'
    BY <1>1, <2>1, <2>7 DEF Consistent, ExplicitPins, RootTargets
  <2>11. ASSUME NEW b \in Addresses
         PROVE  /\ heap'[b].to = Nil
                /\ heap'[b].id = Nil => heap'[b].next = Nil
                /\ heap'[b].next # Nil =>
                      /\ IsObject(heap[b].next)'
                      /\ Age(GenOf(heap[b].next)') < Age(GenOf(b)') => b \in dirty'
    <3>1. CASE b = s
      <4>1. heap'[b].to = Nil /\ heap'[b].id # Nil /\ heap'[b].next = v /\ b \in dirty'
        BY <1>1, <2>1, <2>3, <2>4, <2>6, <3>1 DEF Consistent
      <4>2. v # Nil => IsObject(v)'
        BY <2>5, <2>7
      <4>3. v # Nil => IsObject(heap[b].next)'
        BY <4>1, <4>2 DEF IsObject
      <4>4. QED
        BY <4>1, <4>3
    <3>2. CASE b # s
      <4>1. heap'[b] = heap[b]
        BY <2>6, <3>2
      <4>2. /\ heap[b].to = Nil
            /\ heap[b].id = Nil => heap[b].next = Nil
            /\ heap[b].next # Nil =>
                  /\ IsObject(heap[b].next)
                  /\ Age(GenOf(heap[b].next)) < Age(GenOf(b)) => b \in dirty
        BY <1>1 DEF Consistent
      <4>3. GenOf(heap[b].next)' = GenOf(heap[b].next) /\ GenOf(b)' = GenOf(b)
        BY <1>0, <4>1 DEF GenOf
      <4>4. heap[b].next # Nil => IsObject(heap[b].next)'
        BY <4>1, <4>2, <2>7 DEF IsObject
      <4>5. QED
        BY <2>1, <4>1, <4>2, <4>3, <4>4
    <3>3. QED
      BY <3>1, <3>2
  <2>12. Consistent'
    BY <1>2, <2>9, <2>10, <2>11 DEF Consistent
  <2>13. QED
    BY <1>0, <2>12, ProgramStep
<1>5. ASSUME UNCHANGED <<root, heap, dirty>>, \A b \in ExplicitPins' : IsObject(b)
      PROVE  HeapInv'
  <2>1. \A b \in RootTargets' \cup ExplicitPins' : IsObject(b)'
    BY <1>1, <1>5 DEF Consistent, RootTargets, IsObject
  <2>2. AllocatorInOrder'
    BY <1>0, <1>1, <1>5 DEF Consistent, AllocatorInOrder, GenOf
  <2>3. Consistent'
    BY <1>0, <1>1, <1>2, <1>5, <2>1, <2>2 DEF Consistent, IsObject, GenOf
  <2>4. QED
    BY <1>0, <2>3, ProgramStep
<1>6. ASSUME NEW r \in Roots, Pin(r) PROVE HeapInv'
  <2>1. /\ UNCHANGED <<root, heap, dirty>> /\ IsObject(root[r])
        /\ pins' = [pins EXCEPT ![root[r]] = @ + 1]
    BY <1>6 DEF Pin
  <2>2. \A b \in ExplicitPins' : b \in ExplicitPins \/ b = root[r]
    BY <1>1, <2>1 DEF ExplicitPins, TypeOK, IsObject
  <2>3. QED
    BY <1>1, <1>5, <2>1, <2>2 DEF Consistent
<1>7. ASSUME NEW a \in Addresses, Unpin(a) PROVE HeapInv'
  <2>1. /\ UNCHANGED <<root, heap, dirty>> /\ pins[a] > 0
        /\ pins' = [pins EXCEPT ![a] = @ - 1]
    BY <1>7 DEF Unpin
  <2>2. \A b \in ExplicitPins' : b \in ExplicitPins
    BY <1>1, <2>1 DEF ExplicitPins, TypeOK
  <2>3. QED
    BY <1>1, <1>5, <2>1, <2>2 DEF Consistent
<1>8. QED
  BY <1>3, <1>4, <1>6, <1>7

-----------------------------------------------------------------------------
(* A pass begins.                                                          *)

\* StartPass, between passes: if all other pages are older and in the snapshot,
\* the cards show every pointer into the pages that will be evacuated.
LEMMA StartStep ==
    ASSUME Types, Types', Consistent, PassInv',
           UNCHANGED <<root, pins, heap, page, region, dirty>>,
           NEW cycle, NEW from \in Gens, NEW dest, NEW scan,
           StartPass(cycle, from, dest, scan),
           \A p \in Pages : \A g \in Gens :
               page[p].gen = g /\ g # from => Age(from) < Age(g) /\ scan[p] = g
    PROVE  HeapInv'
<1>1. /\ phase' = "mark" /\ pass'.from = from /\ pass'.scan = scan
      /\ todo' = {} /\ chunk' = {}
  BY DEF StartPass
<1>2. Consistent'
  <2>1. KindInv' /\ AllocatorInOrder'
    BY DEF Consistent, KindInv, AllocatorInOrder, GenOf
  <2>2. Sources' = {}
    BY <1>1 DEF Sources
  <2>3. QED
    BY <2>1, <2>2 DEF Consistent, RootTargets, ExplicitPins, IsObject, GenOf
<1>3. ASSUME NEW a \in Addresses, IsObject(a), heap[a].next # Nil,
             GenOf(heap[a].next) = from, GenOf(a) # from
      PROVE  a \in dirty /\ scan[PageOf(a)] \notin {"Free", from}
  <2>1. KindInv /\ AllocatorInOrder
    BY DEF Consistent
  <2>2. PageOf(a) \in Pages /\ GenOf(a) \in Gens /\ "Free" \notin Gens
    BY <1>3, <2>1, Basics
  <2>3. PageOf(heap[a].next) \in Pages
    <3>1. heap[a].next \in Addresses
      BY <1>3 DEF Consistent, IsObject
    <3>2. QED
      BY <3>1, AddressIs
  <2>4. page[PageOf(heap[a].next)].gen = from /\ page[PageOf(a)].gen = GenOf(a)
    BY <1>3 DEF GenOf
  <2>5. Age(from) < Age(GenOf(a)) /\ scan[PageOf(a)] = GenOf(a)
    BY <1>3, <2>2, <2>3, <2>4
  <2>6. a \in dirty
    BY <1>3, <2>5 DEF Consistent
  <2>7. QED
    BY <1>3, <2>2, <2>5, <2>6
<1>4. \A a \in Addresses :
         (IsObject(a) /\ heap[a].next # Nil
          /\ GenOf(heap[a].next) = pass.from /\ GenOf(a) # pass.from
             => a \in OnScannedCard)'
  <2>1. SUFFICES ASSUME NEW a \in Addresses, IsObject(a)', heap'[a].next # Nil,
                        GenOf(heap[a].next)' = pass'.from, GenOf(a)' # pass'.from
                 PROVE  (a \in OnScannedCard)'
    OBVIOUS
  <2>2. /\ IsObject(a) /\ heap[a].next # Nil
        /\ GenOf(heap[a].next) = from /\ GenOf(a) # from
    BY <1>1, <2>1 DEF IsObject, GenOf
  <2>3. a \in dirty' /\ scan[PageOf(a)] \notin {"Free", from}
    BY <1>3, <2>2
  <2>4. QED
    BY <1>1, <2>1, <2>3 DEF OnScannedCard
<1>5. QED
  BY <1>1, <1>2, <1>4, FromRest

\* A collection begins: the first pass has nothing younger than what it moves.
LEMMA BeginStep ==
    ASSUME Types, Types', HeapInv, phase = "mutator", BeginMinor \/ BeginFull,
           request' # Nil /\ request'.attempt = 3 => BeginFull
    PROVE  HeapInv'
<1>1. Consistent
  BY AtRest
<1>2. /\ UNCHANGED <<root, pins, heap, page, region, dirty>>
      /\ \E cycle \in {"minor", "full"}, dest \in {"G0", "G1"} :
            StartPass(cycle, "G0", dest, Generations)
  BY DEF BeginMinor, BeginFull, StartPass
<1>3. PICK cycle \in {"minor", "full"}, dest \in {"G0", "G1"} :
         StartPass(cycle, "G0", dest, Generations)
  BY <1>2
<1>4. /\ pass'.cycle = cycle /\ pass'.from = "G0" /\ pass'.dest = dest
      /\ pass'.scan = Generations
  BY <1>3 DEF StartPass
<1>5. request' # Nil /\ request'.attempt = 3 => pass'.cycle = "full"
  BY DEF BeginFull, StartPass
<1>6. PassInv'
  <2>1. \A p \in PagesIn("Tenured")' : pass'.scan[p] = "Tenured"
    BY <1>2, <1>4 DEF PagesIn, Generations
  <2>2. QED
    BY <1>3, <1>4, <1>5, <2>1 DEF PassInv
<1>7. \A p \in Pages : \A g \in Gens :
         page[p].gen = g /\ g # "G0" => Age("G0") < Age(g) /\ Generations[p] = g
  BY Ages DEF Generations, Gens
<1> DEFINE from == "G0"
<1>8. /\ from \in Gens /\ StartPass(cycle, from, dest, Generations)
      /\ \A p \in Pages : \A g \in Gens :
            page[p].gen = g /\ g # from => Age(from) < Age(g) /\ Generations[p] = g
  BY <1>3, <1>7 DEF Gens
<1>9. PICK scan : scan = Generations
  OBVIOUS
<1> HIDE DEF from
<1>10. QED
  BY <1>1, <1>2, <1>6, <1>8, <1>9, StartStep

LEMMA CollectSteps ==
    ASSUME Types, Types', HeapInv, CollectForRoom \/ CollectOnDemand
    PROVE  HeapInv'
<1>0. TypeOK
  BY DEF Types
<1>1. CASE CollectForRoom
  <2>1. phase = "mutator"
    BY <1>1 DEF CollectForRoom, Running
  <2>2. PICK q \in Asked : /\ q.attempt < 3 /\ NeedsRoom(q)
                           /\ request' = [q EXCEPT !.attempt = @ + 1]
                           /\ IF q.attempt = 1 THEN BeginMinor ELSE BeginFull
    BY <1>1 DEF CollectForRoom
  <2>3. q \in Requests
    BY <1>0, AskedAre
  <2>4. request'.attempt = q.attempt + 1 /\ q.attempt \in {1, 2}
    BY <2>2, <2>3 DEF Requests
  <2>5. request'.attempt = 3 => BeginFull
    BY <2>2, <2>4
  <2>6. BeginMinor \/ BeginFull
    BY <2>2
  <2>7. QED
    BY <2>1, <2>5, <2>6, BeginStep
<1>2. CASE CollectOnDemand
  <2>1. phase = "mutator" /\ request' = Nil /\ (BeginMinor \/ BeginFull)
    BY <1>2 DEF CollectOnDemand, Idle, Running
  <2>2. QED
    BY <2>1, BeginStep
<1>3. QED
  BY <1>1, <1>2

\* What is reachable holds the seeds and is closed.
LEMMA ReachableIs ==
    ASSUME NEW seeds, NEW nodes, NEW succ
    PROVE  /\ Reachable(seeds, nodes, succ) \subseteq nodes
           /\ seeds \cap nodes \subseteq Reachable(seeds, nodes, succ)
           /\ \A m \in Reachable(seeds, nodes, succ) :
                 succ[m] \in nodes => succ[m] \in Reachable(seeds, nodes, succ)
BY DEF Reachable

\* Marking: what the roots, the cards and the pins reach in from_gen is marked.
LEMMA MarkStep ==
    ASSUME Types, Types', HeapInv, Mark
    PROVE  HeapInv'
<1>0. /\ phase = "mark" /\ phase' = "chunk"
      /\ marked' = MarkedFromRoots \cup MarkedFromPins
      /\ pinned' = PinnedCells /\ todo' = PagesIn(pass.from)
      /\ region' = [region EXCEPT ![pass.from] = EmptyRegion]
      /\ UNCHANGED <<root, pins, request, heap, page, dirty, pass, chunk>>
  BY DEF Mark, ResetRegion, mutatorVars
<1>1. /\ Consistent /\ TypeOK /\ TypeOK' /\ KindInv /\ AllocatorInOrder /\ PassInv
      /\ CardInv /\ SourceInv
  BY <1>0, AtRest DEF Types, HeapInv
<1>2. /\ pass.from \in Gens /\ pass.dest \in Gens
      /\ \A a : IsObject(a) => /\ a \in Addresses /\ PageOf(a) \in Pages /\ GenOf(a) \in Gens
                               /\ GenOf(a) # "Free" /\ page[PageOf(a)].kind = "Small"
  BY <1>1, Basics
<1>3. chunk = {} /\ Sources' = PagesIn(pass.from)
  <2>1. chunk = {}
    BY <1>1 DEF Consistent, Sources
  <2>2. QED
    BY <1>0, <2>1 DEF Sources
<1>4. \A a : IsObject(a)' <=> IsObject(a)
  BY <1>0 DEF IsObject
<1>5. \A a : GenOf(a)' = GenOf(a)
  BY <1>0 DEF GenOf
<1>6. \A a \in Addresses : PageOf(a) \in Sources' <=> GenOf(a) = pass.from
  BY <1>3, AddressIs DEF PagesIn, GenOf
<1>7. PinnedCells = ExplicitPins
  <2>1. LargeIn(MarkedFromRoots) = {}
    <3>1. MarkedFromRoots \subseteq ObjectsIn(pass.from)
      BY ReachableIs DEF MarkedFromRoots
    <3>2. QED
      BY <1>2, <3>1 DEF LargeIn, ObjectsIn
  <2>2. \A a \in ExplicitPins : GenOf(a) # "Free"
    BY <1>1, <1>2 DEF Consistent
  <2>3. QED
    BY <2>1, <2>2 DEF PinnedCells
<1>8. \A a \in ObjectsIn(pass.from) :
         a \in RootTargets \cup {heap[b].next : b \in OnScannedCard} => a \in marked'
  BY <1>0, ReachableIs DEF MarkedFromRoots
<1>9. \A a \in ObjectsIn(pass.from) : a \in PinnedCells => a \in marked'
  BY <1>0, ReachableIs DEF MarkedFromPins
<1>10. \A a \in marked' : heap[a].next \in ObjectsIn(pass.from) => heap[a].next \in marked'
  <2>1. ASSUME NEW a \in marked', heap[a].next \in ObjectsIn(pass.from)
        PROVE  heap[a].next \in marked'
    <3>1. MarkedFromRoots \subseteq Addresses /\ MarkedFromPins \subseteq Addresses
      BY ReachableIs DEF MarkedFromRoots, MarkedFromPins, ObjectsIn
    <3>2. a \in Addresses /\ NextField[a] = heap[a].next
      BY <1>0, <2>1, <3>1 DEF NextField
    <3>3. CASE a \in MarkedFromRoots
      <4>1. NextField[a] \in MarkedFromRoots
        BY <2>1, <3>2, <3>3, ReachableIs DEF MarkedFromRoots
      <4>2. QED
        BY <1>0, <3>2, <4>1
    <3>4. CASE a \in MarkedFromPins
      <4>1. NextField[a] \in MarkedFromPins
        BY <2>1, <3>2, <3>4, ReachableIs DEF MarkedFromPins
      <4>2. QED
        BY <1>0, <3>2, <4>1
    <3>5. QED
      BY <1>0, <2>1, <3>3, <3>4
  <2>2. QED
    BY <2>1
<1>11. \A a : Survives(a)' <=> IsObject(a) /\ (GenOf(a) = pass.from => a \in marked')
  BY <1>4, <1>6 DEF Survives, IsObject
<1>12. \A a \in Addresses \cup {Nil} : Resolve(a)' = a
  BY <1>0, <1>1 DEF Resolve, Consistent
<1>13. KindInv' /\ PassInv'
  BY <1>0, <1>1 DEF KindInv, PassInv, PagesIn
<1>14. AllocatorInOrder'
  <2>1. \A g \in Gens : region'[g] = region[g] \/ region'[g].page = Nil
    BY <1>0, <1>1 DEF TypeOK, EmptyRegion
  <2>2. QED
    BY <1>0, <1>1, <2>1 DEF AllocatorInOrder, GenOf
<1>15. SourceInv'
  <2>1. Sources' \subseteq PagesIn(pass.from)' /\ PagesIn(pass.from)' \subseteq Sources'
    BY <1>0, <1>3 DEF PagesIn
  <2>2. todo' \cap chunk' = {} /\ chunk' = {}
    BY <1>0, <1>3
  <2>3. Evacuating'
    BY <1>0 DEF Evacuating
  <2>4. ASSUME NEW g \in Gens PROVE region'[g].page \notin Sources'
    <3>1. CASE g = pass.from
      <4>1. region'[g].page = Nil
        BY <1>0, <1>1, <3>1 DEF TypeOK, EmptyRegion
      <4>2. QED
        BY <1>3, <4>1, NilIs DEF PagesIn
    <3>2. CASE g # pass.from
      <4>1. region'[g] = region[g]
        BY <1>0, <1>1, <3>2 DEF TypeOK
      <4>2. region[g].page # Nil => page[region[g].page].gen = g
        <5>1. region[g].page # Nil => page[region[g].page] = [gen |-> g, kind |-> "Small"]
          BY <1>1 DEF AllocatorInOrder
        <5>2. QED
          BY <5>1
      <4>3. QED
        BY <1>3, <3>2, <4>1, <4>2, NilIs DEF PagesIn
    <3>3. QED
      BY <3>1, <3>2
  <2>5. QED
    BY <2>1, <2>2, <2>3, <2>4 DEF SourceInv
<1>16. MarkerInv'
  BY <1>0, <1>1 DEF MarkerInv, Consistent
<1>17. PinInv'
  <2>1. ExplicitPins' = ExplicitPins /\ pinned' = ExplicitPins
    BY <1>0, <1>7 DEF ExplicitPins
  <2>2. ASSUME NEW a \in ExplicitPins PROVE IsObject(a)' /\ Survives(a)'
    <3>1. IsObject(a) /\ a \in Addresses
      BY <1>1, <1>2 DEF Consistent
    <3>2. GenOf(a) = pass.from => a \in marked'
      BY <1>7, <1>9, <3>1 DEF ObjectsIn
    <3>3. QED
      BY <1>4, <1>11, <3>1, <3>2
  <2>3. phase' # "reclaim"
    BY <1>0
  <2>4. QED
    BY <2>1, <2>2, <2>3 DEF PinInv
<1>18. PointerInv'
  <2>1. ASSUME NEW a \in RootTargets' PROVE Survives(Resolve(a))'
    <3>1. a \in RootTargets /\ IsObject(a) /\ a \in Addresses
      BY <1>0, <1>1, <1>2 DEF RootTargets, Consistent
    <3>2. GenOf(a) = pass.from => a \in marked'
      BY <1>8, <3>1 DEF ObjectsIn
    <3>3. Survives(a)' /\ Resolve(a)' = a
      BY <1>11, <1>12, <3>1, <3>2
    <3>4. QED
      BY <3>3 DEF Survives, IsObject
  <2>2. ASSUME NEW a \in Addresses, Survives(a)', heap'[a].next # Nil
        PROVE  Survives(Resolve(heap[a].next))'
    <3>1. PICK n : n = heap[a].next
      OBVIOUS
    <3>2. /\ IsObject(a) /\ n # Nil /\ IsObject(n) /\ n \in Addresses
          /\ GenOf(a) = pass.from => a \in marked'
      BY <1>0, <1>1, <1>2, <1>11, <2>2, <3>1 DEF Consistent
    <3>3. GenOf(n) = pass.from => n \in marked'
      <4>1. SUFFICES ASSUME GenOf(n) = pass.from PROVE n \in marked'
        OBVIOUS
      <4>2. n \in ObjectsIn(pass.from)
        BY <3>2, <4>1 DEF ObjectsIn
      <4>3. CASE GenOf(a) = pass.from
        BY <1>10, <3>1, <3>2, <4>2, <4>3
      <4>4. CASE GenOf(a) # pass.from
        <5>1. a \in OnScannedCard
          BY <1>0, <1>1, <3>1, <3>2, <4>1, <4>4 DEF CardInv
        <5>2. QED
          BY <1>8, <3>1, <4>2, <5>1
      <4>5. QED
        BY <4>3, <4>4
    <3>4. Survives(n)' /\ Resolve(n)' = n /\ heap'[a].next = n
      BY <1>0, <1>11, <1>12, <3>1, <3>2, <3>3
    <3>5. QED
      BY <3>4 DEF Survives, IsObject, Resolve
  <2>3. phase' # "reclaim"
    BY <1>0
  <2>4. QED
    BY <2>1, <2>2, <2>3 DEF PointerInv
<1>19. CardInv'
  <2>1. ASSUME NEW a \in Addresses, Survives(a)', heap'[a].next # Nil,
               Age(GenOf(heap[a].next)') < Age(GenOf(a)')
        PROVE  a \in dirty'
    BY <1>0, <1>1, <2>1 DEF Consistent, GenOf
  <2>2. ASSUME NEW a \in Addresses, IsObject(a)', heap'[a].next # Nil,
               PageOf(heap[a].next)' \in Sources', PageOf(a) \notin Sources'
        PROVE  (a \in OnScannedCard)'
    <3>1. PICK n : n = heap[a].next
      OBVIOUS
    <3>2. IsObject(a) /\ n # Nil /\ IsObject(n) /\ n \in Addresses /\ PageOf(n) \in Sources'
      BY <1>0, <1>1, <1>2, <1>4, <2>2, <3>1 DEF Consistent, PageOf
    <3>3. GenOf(n) = pass.from /\ GenOf(a) # pass.from
      BY <1>6, <2>2, <3>2
    <3>4. a \in OnScannedCard
      BY <1>0, <1>1, <3>1, <3>2, <3>3 DEF CardInv
    <3>5. QED
      BY <1>0, <3>4 DEF OnScannedCard, IsObject
  <2>3. phase' # "mark"
    BY <1>0
  <2>4. QED
    BY <2>1, <2>2, <2>3 DEF CardInv
<1>20. QED
  BY <1>13, <1>14, <1>15, <1>16, <1>17, <1>18, <1>19 DEF HeapInv

\* The next chunk is taken from what is left, and nothing else happens yet.
LEMMA ChunkStep ==
    ASSUME Types, Types', HeapInv, NextChunk \/ Stall
    PROVE  HeapInv'
<1>0. /\ phase \in {"chunk", "copy"} /\ phase' \in {"copy", "stalled"}
      /\ UNCHANGED <<root, pins, request, heap, page, region, dirty, pass, marked, pinned>>
  BY DEF NextChunk, Stall, mutatorVars
<1>1. /\ KindInv /\ AllocatorInOrder /\ PassInv /\ SourceInv
      /\ MarkerInv /\ PinInv /\ PointerInv /\ CardInv
  BY DEF HeapInv
<1>2. Sources' = Sources /\ todo' \cap chunk' = {} /\ chunk \subseteq chunk'
  <2>1. CASE NextChunk
    <3>1. chunk' \subseteq todo /\ todo' = todo \ chunk' /\ chunk = {}
      BY <1>1, <2>1 DEF NextChunk, SourceInv
    <3>2. QED
      BY <3>1 DEF Sources
  <2>2. CASE Stall
    BY <1>1, <2>2 DEF Stall, SourceInv, Sources
  <2>3. QED
    BY <2>1, <2>2
<1>3. /\ \A a : /\ IsObject(a)' <=> IsObject(a)
                /\ GenOf(a)' = GenOf(a)
                /\ Resolve(a)' = Resolve(a)
      /\ RootTargets' = RootTargets /\ ExplicitPins' = ExplicitPins
      /\ \A g : PagesIn(g)' = PagesIn(g)
  BY <1>0 DEF IsObject, GenOf, Resolve, RootTargets, ExplicitPins, PagesIn
<1>4. \A a : Survives(a)' <=> Survives(a)
  BY <1>0, <1>2, <1>3 DEF Survives, IsObject
<1>5. Evacuating /\ Evacuating' /\ phase' # "mark" /\ phase' # "chunk" /\ phase' # "reclaim"
  BY <1>0 DEF Evacuating
<1>6. KindInv' /\ PassInv' /\ AllocatorInOrder'
  BY <1>0, <1>1 DEF KindInv, PassInv, PagesIn, AllocatorInOrder, GenOf
<1>7. SourceInv'
  <2>1. Sources' \subseteq PagesIn(pass.from)'
    BY <1>0, <1>1, <1>2 DEF SourceInv, PagesIn
  <2>2. pass'.from # pass'.dest => PagesIn(pass.from)' \subseteq Sources'
    BY <1>0, <1>1, <1>2, <1>5 DEF SourceInv, PagesIn
  <2>3. QED
    BY <1>0, <1>1, <1>2, <1>5, <2>1, <2>2 DEF SourceInv
<1>8. MarkerInv'
  <2>1. ASSUME NEW a \in Addresses, heap'[a].to # Nil
        PROVE  /\ phase' \in {"copy", "reclaim", "stalled"}
               /\ heap'[a].id = Nil /\ PageOf(a) \in chunk'
               /\ IsObject(heap[a].to)' /\ GenOf(heap[a].to)' = pass'.dest
               /\ PageOf(heap[a].to)' \notin Sources'
    <3>1. /\ heap[a].id = Nil /\ PageOf(a) \in chunk
          /\ IsObject(heap[a].to) /\ GenOf(heap[a].to) = pass.dest
          /\ PageOf(heap[a].to) \notin Sources
      BY <1>0, <1>1, <2>1 DEF MarkerInv
    <3>2. QED
      BY <1>0, <1>2, <3>1 DEF IsObject, GenOf, PageOf
  <2>2. QED
    BY <1>0, <1>1, <2>1 DEF MarkerInv
<1>9. PinInv'
  <2>1. \A a \in ExplicitPins' : IsObject(a)'
    BY <1>1, <1>3 DEF PinInv
  <2>2. ExplicitPins' \subseteq pinned' /\ \A a \in pinned' : Survives(a)'
    BY <1>0, <1>1, <1>3, <1>4, <1>5 DEF PinInv
  <2>3. QED
    BY <1>5, <2>1, <2>2 DEF PinInv
<1>10. PointerInv'
  <2>1. ASSUME NEW a \in RootTargets' PROVE Survives(Resolve(a))'
    <3>1. Survives(Resolve(a))
      BY <1>1, <1>3 DEF PointerInv
    <3>2. QED
      BY <1>0, <1>2, <3>1 DEF Survives, Resolve, IsObject
  <2>2. ASSUME NEW a \in Addresses, Survives(a)', heap'[a].next # Nil
        PROVE  Survives(Resolve(heap[a].next))'
    <3>1. Survives(Resolve(heap[a].next))
      BY <1>0, <1>1, <1>4, <2>2 DEF PointerInv
    <3>2. QED
      BY <1>0, <1>2, <3>1 DEF Survives, Resolve, IsObject
  <2>3. QED
    BY <1>5, <2>1, <2>2 DEF PointerInv
<1>11. CardInv'
  <2>1. ASSUME NEW a \in Addresses, Survives(a)', heap'[a].next # Nil,
               Age(GenOf(heap[a].next)') < Age(GenOf(a)')
        PROVE  a \in dirty'
    <3>1. Survives(a) /\ heap[a].next # Nil /\ Age(GenOf(heap[a].next)) < Age(GenOf(a))
      BY <1>0, <1>4, <2>1 DEF GenOf
    <3>2. QED
      BY <1>0, <1>1, <3>1 DEF CardInv
  <2>2. ASSUME NEW a \in Addresses, IsObject(a)', heap'[a].next # Nil,
               PageOf(heap[a].next)' \in Sources', PageOf(a) \notin Sources',
               GenOf(a)' # pass'.dest
        PROVE  (a \in OnScannedCard)'
    <3>1. /\ IsObject(a) /\ heap[a].next # Nil
          /\ PageOf(heap[a].next) \in Sources /\ PageOf(a) \notin Sources
          /\ GenOf(a) # pass.dest
      BY <1>0, <1>2, <1>3, <2>2 DEF PageOf
    <3>2. a \in OnScannedCard
      BY <1>1, <1>5, <3>1 DEF CardInv
    <3>3. QED
      BY <1>0, <3>2 DEF OnScannedCard, IsObject
  <2>3. QED
    BY <1>5, <2>1, <2>2 DEF CardInv
<1>12. QED
  BY <1>6, <1>7, <1>8, <1>9, <1>10, <1>11 DEF HeapInv

-----------------------------------------------------------------------------
(* A pass.                                                                 *)

\* A cell that is in memory or has been copied: what Resolve finds is not a
\* marker.
LEMMA Resolved ==
    ASSUME Types, HeapInv, NEW b \in Addresses, Survives(Resolve(b))
    PROVE  /\ Resolve(b) \in Addresses /\ heap[Resolve(b)].id # Nil
           /\ heap[Resolve(b)].to = Nil /\ heap[b] # EmptyCell
           /\ b # Resolve(b) => /\ heap[b].to = Resolve(b)
                                /\ GenOf(Resolve(b)) = pass.dest
                                /\ PageOf(Resolve(b)) \notin Sources
                                /\ PageOf(b) \in chunk
<1>1. KindInv /\ AllocatorInOrder /\ MarkerInv
  BY DEF HeapInv
<1>2. Resolve(b) \in Addresses /\ heap[Resolve(b)].id # Nil
  BY DEF Survives, IsObject
<1>3. heap[Resolve(b)].to = Nil
  BY <1>1, <1>2 DEF MarkerInv
<1>4. EmptyCell.to = Nil /\ EmptyCell.id = Nil
  BY DEF EmptyCell
<1>5. CASE heap[b].to = Nil
  <2>1. Resolve(b) = b
    BY <1>5 DEF Resolve
  <2>2. QED
    BY <1>2, <1>3, <1>4, <2>1
<1>6. CASE heap[b].to # Nil
  <2>1. Resolve(b) = heap[b].to
    BY <1>6, NilIs DEF Resolve
  <2>2. QED
    BY <1>1, <1>2, <1>3, <1>4, <1>6, <2>1 DEF MarkerInv
<1>7. QED
  BY <1>5, <1>6

\* The copy of one object: a slot of the destination is taken, and the object's
\* own becomes a marker.
LEMMA CopyIs ==
    ASSUME Types, HeapInv, CopyObject
    PROVE  /\ phase = "copy"
           /\ UNCHANGED <<root, pins, request, phase, pass, marked, pinned, todo, chunk>>
           /\ \E src, dst \in Addresses :
                 /\ src \in marked /\ src \notin pinned /\ PageOf(src) \in chunk
                 /\ GenOf(src) = pass.from /\ heap[src].id # Nil /\ heap[src].to = Nil
                 /\ heap[dst] = EmptyCell /\ PageOf(dst) \notin Sources /\ dst # src
                 /\ GenOf(dst)' = pass.dest /\ dirty' = dirty \cup {dst}
                 /\ \A b \in Addresses : b = dst \/ b = src \/ heap'[b] = heap[b]
                 /\ heap'[dst] = heap[src]
                 /\ heap'[src].id = Nil /\ heap'[src].next = Nil /\ heap'[src].to = dst
                 /\ \A p \in Pages : \/ page'[p] = page[p]
                                     \/ /\ p = PageOf(dst) /\ page[p].gen = "Free"
                                        /\ page'[p].gen = pass.dest
                 /\ \A b \in Addresses : heap[b] # EmptyCell => GenOf(b)' = GenOf(b)
                 /\ \A h \in Gens : region'[h].page \notin Sources
                 /\ KindInv' /\ AllocatorInOrder'
<1>0. /\ TypeOK /\ CycleInv /\ KindInv /\ AllocatorInOrder /\ SourceInv /\ MarkerInv
  BY DEF Types, HeapInv
<1>1. PICK src : src = Least(ToCopy)
  OBVIOUS
<1>2. PICK dst : dst = Room(pass.dest, FALSE)
  OBVIOUS
<1>3. /\ phase = "copy" /\ ToCopy # {} /\ dst # Nil /\ Bump(pass.dest, dst)
      /\ heap' = [Put(dst, heap[src]) EXCEPT ![src] = [EmptyCell EXCEPT !.to = dst]]
      /\ dirty' = dirty \cup {dst}
  BY <1>1, <1>2 DEF CopyObject
<1>4. UNCHANGED <<root, pins, request, phase, pass, marked, pinned, todo, chunk>>
  BY DEF CopyObject, mutatorVars, gcVars
<1>5. src \in ToCopy
  <2>1. ToCopy \in SUBSET Nat
    BY <1>0, AddressIs DEF ToCopy, TypeOK
  <2>2. \E x \in ToCopy : \A y \in ToCopy : x <= y
    BY <1>3, <2>1, SomeLeast
  <2>3. QED
    BY <1>1, <2>2 DEF Least
<1>6. /\ src \in marked /\ src \notin pinned /\ PageOf(src) \in chunk
      /\ GenOf(src) = pass.from /\ IsObject(src) /\ src \in Addresses
      /\ heap[src].id # Nil /\ heap[src].to = Nil /\ PageOf(src) \in Sources
  <2>1. /\ src \in marked /\ src \notin pinned /\ PageOf(src) \in chunk
        /\ GenOf(src) = pass.from /\ IsObject(src)
    BY <1>5 DEF ToCopy
  <2>2. src \in Addresses /\ heap[src].id # Nil
    BY <2>1 DEF IsObject
  <2>3. heap[src].to = Nil
    BY <1>0, <2>2 DEF MarkerInv
  <2>4. QED
    BY <2>1, <2>2, <2>3 DEF Sources
<1>7. /\ pass.from \in Gens /\ pass.dest \in Gens /\ "Free" \notin Gens
      /\ EmptyCell.id = Nil /\ EmptyCell.to = Nil /\ EmptyCell.next = Nil
      /\ \A a \in Addresses : heap[a] \in Cell /\ PageOf(a) \in Pages
  BY <1>0, Basics
<1>8. dst \in Addresses
  BY <1>0, <1>2, <1>3, <1>7, RoomIs
<1>9. \A b \in Addresses : b = dst \/ b = src \/ heap'[b] = heap[b]
  <2>1. ASSUME NEW b \in Addresses, b # dst, b # src PROVE heap'[b] = heap[b]
    <3>1. heap'[b] = Put(dst, heap[src])[b]
      BY <1>3, <1>6, <2>1 DEF Put
    <3>2. QED
      BY <1>0, <2>1, <3>1, PutElsewhere
  <2>2. QED
    BY <2>1
<1>10. /\ heap[dst] = EmptyCell /\ PageOf(dst) \notin Sources
       /\ GenOf(dst)' = pass.dest
       /\ \A p \in Pages : \/ page'[p] = page[p]
                           \/ p = PageOf(dst) /\ page[p].gen = "Free" /\ page'[p].gen = pass.dest
       /\ \A b \in Addresses : heap[b] # EmptyCell => GenOf(b)' = GenOf(b)
       /\ \A h \in Gens : region'[h].page \notin Sources
       /\ KindInv' /\ AllocatorInOrder'
  <2>1. \A b \in Addresses : b = dst \/ heap'[b] = heap[b] \/ PageOf(b) \in Sources
    BY <1>6, <1>9
  <2>2. PICK g \in Gens : g = pass.dest
    BY <1>7
  <2>3. /\ dst = Room(g, TRUE) \/ dst = Room(g, FALSE)
        /\ Bump(g, dst) /\ dst # Nil
    BY <1>2, <1>3, <2>2
  <2>4. /\ heap[dst] = EmptyCell /\ PageOf(dst) \notin Sources
        /\ GenOf(dst)' = g
        /\ \A p \in Pages : \/ page'[p] = page[p]
                            \/ p = PageOf(dst) /\ page[p].gen = "Free" /\ page'[p].gen = g
        /\ \A b \in Addresses : heap[b] # EmptyCell => GenOf(b)' = GenOf(b)
        /\ \A h \in Gens : region'[h].page \notin Sources
        /\ KindInv' /\ AllocatorInOrder'
    BY <1>0, <2>1, <2>3, AllocStep
  <2>5. QED
    BY <2>2, <2>4
<1>11. dst # src
  BY <1>6, <1>7, <1>10
<1>12. /\ heap'[dst] = heap[src]
       /\ heap'[src].id = Nil /\ heap'[src].next = Nil /\ heap'[src].to = dst
  <2>1. heap'[dst] = heap[src]
    BY <1>3, <1>6, <1>8, <1>11 DEF Put
  <2>2. heap'[src] = [EmptyCell EXCEPT !.to = dst]
    BY <1>3, <1>6 DEF Put
  <2>3. QED
    BY <2>1, <2>2 DEF EmptyCell
<1>13. QED
  BY <1>3, <1>4, <1>6, <1>8, <1>9, <1>10, <1>11, <1>12

LEMMA CopyStep ==
    ASSUME Types, Types', HeapInv, CopyObject
    PROVE  HeapInv'
<1>0. /\ TypeOK /\ TypeOK' /\ CycleInv /\ KindInv /\ AllocatorInOrder /\ PassInv /\ SourceInv
      /\ MarkerInv /\ PinInv /\ PointerInv /\ CardInv
  BY DEF Types, HeapInv
<1>3. phase = "copy"
  BY CopyIs
<1>4. UNCHANGED <<root, pins, request, phase, pass, marked, pinned, todo, chunk>>
  BY CopyIs
<1>5. PICK src, dst \in Addresses :
         /\ src \in marked /\ src \notin pinned /\ PageOf(src) \in chunk
         /\ GenOf(src) = pass.from /\ heap[src].id # Nil /\ heap[src].to = Nil
         /\ heap[dst] = EmptyCell /\ PageOf(dst) \notin Sources /\ dst # src
         /\ GenOf(dst)' = pass.dest /\ dirty' = dirty \cup {dst}
         /\ \A b \in Addresses : b = dst \/ b = src \/ heap'[b] = heap[b]
         /\ heap'[dst] = heap[src]
         /\ heap'[src].id = Nil /\ heap'[src].next = Nil /\ heap'[src].to = dst
         /\ \A p \in Pages : \/ page'[p] = page[p]
                             \/ /\ p = PageOf(dst) /\ page[p].gen = "Free"
                                /\ page'[p].gen = pass.dest
         /\ \A b \in Addresses : heap[b] # EmptyCell => GenOf(b)' = GenOf(b)
         /\ \A h \in Gens : region'[h].page \notin Sources
         /\ KindInv' /\ AllocatorInOrder'
  BY CopyIs
<1>6. IsObject(src) /\ PageOf(src) \in Sources
  BY <1>5 DEF IsObject, Sources
<1>7. /\ pass.from \in Gens /\ pass.dest \in Gens /\ "Free" \notin Gens
      /\ EmptyCell.id = Nil /\ EmptyCell.to = Nil /\ EmptyCell.next = Nil
      /\ \A a \in Addresses : heap[a] \in Cell /\ PageOf(a) \in Pages
  BY <1>0, Basics
<1>13. Sources' = Sources
  BY <1>4 DEF Sources
<1>14. /\ IsObject(dst)' /\ ~IsObject(src)' /\ ~IsObject(dst)
       /\ \A b : b # dst /\ b # src => (IsObject(b)' <=> IsObject(b))
  BY <1>5, <1>6, <1>7 DEF IsObject
<1>15. \A b : b # dst /\ b # src => (Survives(b)' <=> Survives(b))
  BY <1>4, <1>13, <1>14 DEF Survives, IsObject
<1>16. Survives(dst)'
  BY <1>4, <1>5, <1>13, <1>14 DEF Survives, IsObject
\* What survived is found again, where it was or where it is now.
<1>17. ASSUME NEW b \in Addresses, Survives(Resolve(b))
       PROVE  Survives(Resolve(b))' /\ heap[b] # EmptyCell
  <2>1. PICK c : c = Resolve(b)
    OBVIOUS
  <2>2. /\ c \in Addresses /\ heap[c].id # Nil /\ heap[c].to = Nil /\ heap[b] # EmptyCell
        /\ b # c => heap[b].to = c /\ PageOf(c) \notin Sources
    BY <1>17, <2>1, Resolved
  <2>3. b # dst /\ c # dst
    BY <1>7, <1>5, <2>2
  <2>4. CASE c = src
    <3>1. b = src
      BY <1>5, <1>6, <2>2, <2>4
    <3>2. Resolve(b)' = dst
      BY <1>5, <3>1, NilIs DEF Resolve
    <3>3. QED
      BY <1>16, <2>2, <3>2 DEF Survives, IsObject
  <2>5. CASE c # src
    <3>1. b # src
      BY <1>5, <1>6, <2>1, <2>5 DEF Resolve
    <3>2. heap'[b] = heap[b]
      BY <1>5, <2>3, <3>1
    <3>3. Resolve(b)' = c
      BY <2>1, <3>2 DEF Resolve
    <3>4. Survives(c)'
      BY <1>15, <1>17, <2>1, <2>3, <2>5
    <3>5. QED
      BY <2>2, <3>3, <3>4 DEF Survives, IsObject
  <2>6. QED
    BY <2>4, <2>5
<1>18. PassInv'
  <2>1. \A g \in Gens : g # pass.dest => PagesIn(g)' \subseteq PagesIn(g)
    BY <1>5 DEF PagesIn
  <2>2. pass.cycle # "none"
    BY <1>0, <1>3, <1>5 DEF CycleInv
  <2>3. \/ pass.from = "G0" /\ pass.dest \in {"G0", "G1"}
        \/ pass.from = "G1" /\ pass.dest = "Tenured"
        \/ pass.from = "Tenured" /\ pass.dest = "Tenured"
    BY <1>0, <2>2 DEF CycleInv, TypeOK
  <2>4. "G0" \in Gens /\ "G1" \in Gens /\ "Tenured" \in Gens
    BY DEF Gens
  <2>5. pass.from # "G0" => PagesIn("G0")' = {}
    BY <1>0, <2>1, <2>3, <2>4 DEF PassInv
  <2>6. pass.from = "Tenured" => PagesIn("G1")' = {}
    BY <1>0, <2>1, <2>3, <2>4 DEF PassInv
  <2>7. pass.cycle = "minor" /\ pass.from = "G0" /\ pass.dest = "G1" =>
            \A p \in PagesIn("Tenured")' : pass.scan[p] = "Tenured"
    BY <1>0, <2>1, <2>4 DEF PassInv
  <2>8. request # Nil /\ request.attempt = 3 => pass.cycle = "full"
    BY <1>0, <2>2 DEF PassInv
  <2>9. QED
    BY <1>4, <2>2, <2>5, <2>6, <2>7, <2>8 DEF PassInv
<1>19. SourceInv'
  <2>1. \A p \in Sources : page'[p] = page[p] /\ p \in Pages
    BY <1>0, <1>5 DEF SourceInv, PagesIn
  <2>2. Sources' \subseteq PagesIn(pass.from)'
    BY <1>0, <1>4, <1>13, <2>1 DEF SourceInv, PagesIn
  <2>3. pass.from # pass.dest => PagesIn(pass.from)' \subseteq PagesIn(pass.from)
    BY <1>4, <1>5 DEF PagesIn
  <2>4. Evacuating /\ Evacuating'
    BY <1>3, <1>5, <1>4 DEF Evacuating
  <2>5. QED
    BY <1>0, <1>3, <1>5, <1>4, <1>13, <2>2, <2>3, <2>4 DEF SourceInv
<1>20. MarkerInv'
  <2>1. ASSUME NEW a \in Addresses
        PROVE  /\ heap'[a].id = Nil => heap'[a].next = Nil
               /\ heap'[a].to # Nil =>
                     /\ heap'[a].id = Nil /\ PageOf(a) \in chunk
                     /\ IsObject(heap[a].to)' /\ GenOf(heap[a].to)' = pass.dest
                     /\ PageOf(heap[a].to)' \notin Sources
    <3>1. CASE a = src
      <4>1. heap'[a].id = Nil /\ heap'[a].next = Nil /\ heap'[a].to = dst
        BY <1>5, <3>1
      <4>2. IsObject(heap[a].to)' /\ GenOf(heap[a].to)' = pass.dest
            /\ PageOf(heap[a].to)' \notin Sources
        BY <1>5, <1>14, <4>1 DEF IsObject, GenOf, PageOf
      <4>3. QED
        BY <1>5, <1>6, <3>1, <4>1, <4>2
    <3>2. CASE a = dst
      BY <1>5, <1>6, <3>2
    <3>3. CASE a # src /\ a # dst
      <4>1. heap'[a] = heap[a]
        BY <1>5, <3>3
      <4>2. heap[a].id = Nil => heap[a].next = Nil
        BY <1>0 DEF MarkerInv
      <4>3. SUFFICES ASSUME heap[a].to # Nil
                     PROVE  /\ heap'[a].id = Nil /\ PageOf(a) \in chunk
                            /\ IsObject(heap[a].to)' /\ GenOf(heap[a].to)' = pass.dest
                            /\ PageOf(heap[a].to)' \notin Sources
        BY <4>1, <4>2
      <4>4. PICK b : b = heap[a].to
        OBVIOUS
      <4>5. /\ heap[a].id = Nil /\ PageOf(a) \in chunk
            /\ IsObject(b) /\ GenOf(b) = pass.dest /\ PageOf(b) \notin Sources
        BY <1>0, <4>3, <4>4 DEF MarkerInv
      <4>6. b # src /\ b # dst /\ b \in Addresses /\ heap[b] # EmptyCell
        BY <1>5, <1>6, <1>7, <1>14, <4>5 DEF IsObject
      <4>7. IsObject(b)' /\ GenOf(b)' = pass.dest /\ heap'[a].to = b
        BY <1>5, <1>14, <4>1, <4>4, <4>5, <4>6
      <4>8. QED
        BY <4>1, <4>5, <4>7 DEF IsObject, GenOf, PageOf
    <3>4. QED
      BY <3>1, <3>2, <3>3
  <2>2. QED
    BY <1>3, <1>5, <1>4, <1>13, <2>1 DEF MarkerInv
<1>21. PinInv'
  <2>1. ExplicitPins' = ExplicitPins /\ Evacuating /\ Evacuating'
    BY <1>3, <1>5, <1>4 DEF ExplicitPins, Evacuating
  <2>2. ExplicitPins \subseteq pinned /\ \A a \in pinned : Survives(a)
    BY <1>0, <2>1 DEF PinInv
  <2>3. \A a \in pinned : a # src /\ a # dst
    BY <1>5, <1>6, <1>14, <2>2 DEF Survives
  <2>4. \A a \in pinned : Survives(a)'
    BY <1>15, <2>2, <2>3
  <2>5. \A a \in ExplicitPins : IsObject(a)'
    BY <2>2, <2>4 DEF Survives
  <2>6. phase' # "reclaim"
    BY <1>3, <1>5, <1>4
  <2>7. QED
    BY <1>4, <2>1, <2>2, <2>4, <2>5, <2>6 DEF PinInv
<1>22. PointerInv'
  <2>1. ASSUME NEW a \in RootTargets' PROVE Survives(Resolve(a))'
    <3>1. a \in RootTargets /\ a \in Addresses
      BY <1>0, <1>4 DEF RootTargets, TypeOK
    <3>2. Survives(Resolve(a))
      BY <1>0, <3>1 DEF PointerInv
    <3>3. QED
      BY <1>17, <3>1, <3>2
  <2>2. ASSUME NEW a \in Addresses, Survives(a)', heap'[a].next # Nil
        PROVE  Survives(Resolve(heap[a].next))'
    <3>1. PICK n : n = heap'[a].next
      OBVIOUS
    <3>2. PICK b \in Addresses : Survives(b) /\ heap[b].next = n
      <4>1. a # src
        BY <1>14, <2>2 DEF Survives
      <4>2. CASE a = dst
        BY <1>5, <1>6, <3>1, <4>2 DEF Survives
      <4>3. CASE a # dst
        BY <1>5, <1>15, <2>2, <3>1, <4>1, <4>3
      <4>4. QED
        BY <4>2, <4>3
    <3>3. Survives(Resolve(n)) /\ n # Nil
      BY <1>0, <2>2, <3>1, <3>2 DEF PointerInv
    <3>4. n \in Addresses
      BY <1>7, <3>2, <3>3, CellsAre
    <3>5. Survives(Resolve(n))'
      BY <1>17, <3>3, <3>4
    <3>6. QED
      BY <3>1, <3>5 DEF Survives, Resolve, IsObject
  <2>3. phase' # "reclaim"
    BY <1>3, <1>5, <1>4
  <2>4. QED
    BY <2>1, <2>2, <2>3 DEF PointerInv
<1>23. CardInv'
  <2>1. ASSUME NEW a \in Addresses, Survives(a)', heap'[a].next # Nil,
               Age(GenOf(heap[a].next)') < Age(GenOf(a)')
        PROVE  a \in dirty'
    <3>1. a # src
      BY <1>14, <2>1 DEF Survives
    <3>2. CASE a = dst
      BY <1>3, <1>5, <3>2
    <3>3. CASE a # dst
      <4>1. PICK n : n = heap[a].next
        OBVIOUS
      <4>2. heap'[a] = heap[a] /\ Survives(a) /\ n # Nil
        BY <1>5, <1>15, <2>1, <3>1, <3>3, <4>1
      <4>3. n \in Addresses /\ Survives(Resolve(n))
        BY <1>0, <1>7, <4>1, <4>2, CellsAre DEF PointerInv
      <4>4. heap[n] # EmptyCell /\ heap[a] # EmptyCell
        BY <1>7, <1>17, <4>2, <4>3 DEF Survives, IsObject
      <4>5. GenOf(n)' = GenOf(n) /\ GenOf(a)' = GenOf(a)
        BY <1>5, <4>3, <4>4
      <4>6. Age(GenOf(heap[a].next)) < Age(GenOf(a))
        BY <2>1, <4>1, <4>2, <4>5 DEF GenOf
      <4>7. QED
        BY <1>0, <1>3, <1>5, <4>1, <4>2, <4>6 DEF CardInv
    <3>4. QED
      BY <3>2, <3>3
  <2>2. ASSUME NEW a \in Addresses, IsObject(a)', heap'[a].next # Nil,
               PageOf(heap[a].next)' \in Sources', PageOf(a) \notin Sources',
               GenOf(a)' # pass'.dest
        PROVE  (a \in OnScannedCard)'
    <3>1. a # src /\ a # dst
      BY <1>4, <1>5, <1>14, <2>2
    <3>2. heap'[a] = heap[a] /\ IsObject(a)
      BY <1>5, <1>14, <2>2, <3>1
    <3>3. GenOf(a)' = GenOf(a)
      BY <1>7, <1>5, <3>2 DEF IsObject
    <3>4. PageOf(heap[a].next) \in Sources /\ PageOf(a) \notin Sources /\ GenOf(a) # pass.dest
      BY <1>4, <1>13, <2>2, <3>2, <3>3 DEF PageOf
    <3>5. a \in OnScannedCard
      BY <1>0, <1>3, <1>5, <2>2, <3>2, <3>4 DEF CardInv, Evacuating
    <3>6. QED
      BY <1>3, <1>5, <1>4, <2>2, <3>5 DEF OnScannedCard
  <2>3. phase' # "mark"
    BY <1>3, <1>5, <1>4
  <2>4. QED
    BY <2>1, <2>2, <2>3 DEF CardInv
<1>24. QED
  BY <1>5, <1>18, <1>19, <1>20, <1>21, <1>22, <1>23 DEF HeapInv

\* All references are rewritten: those of what the pass keeps outside its pages
\* by the roots, the cards, the pins and the destination's pages, those of what
\* it has yet to copy by assumption.
LEMMA RewriteStep ==
    ASSUME Types, Types', HeapInv, ReferencesRewritten', Rewrite
    PROVE  HeapInv'
<1>0. /\ TypeOK /\ CycleInv /\ KindInv /\ AllocatorInOrder /\ PassInv /\ SourceInv
      /\ MarkerInv /\ PinInv /\ PointerInv /\ CardInv
  BY DEF Types, HeapInv
<1>1. /\ phase = "copy" /\ phase' = "reclaim" /\ ToCopy = {}
      /\ root' = [r \in Roots |-> Follow(root[r])]
      /\ heap' = [a \in Addresses |->
                    IF a \in Rewritten THEN [heap[a] EXCEPT !.next = Follow(@)]
                    ELSE heap[a]]
      /\ UNCHANGED <<pins, request, page, region, dirty, pass, marked, pinned, todo, chunk>>
  BY DEF Rewrite
<1>2. /\ pass.from \in Gens /\ pass.dest \in Gens /\ "Free" \notin Gens
      /\ EmptyCell.id = Nil
      /\ \A a \in Addresses :
            /\ heap[a] \in Cell /\ PageOf(a) \in Pages
            /\ heap[a] # EmptyCell => /\ GenOf(a) \in Gens /\ GenOf(a) # "Free"
                                      /\ page[PageOf(a)].kind = "Small"
  BY <1>0, Basics
<1>3. \A a : Follow(a) = Resolve(a)
  BY DEF Follow, Resolve
<1>4. /\ \A a \in Addresses :
            /\ heap'[a].id = heap[a].id /\ heap'[a].to = heap[a].to
            /\ a \in Rewritten => heap'[a].next = Resolve(heap[a].next)
            /\ a \notin Rewritten => heap'[a] = heap[a]
  <2>1. ASSUME NEW a \in Addresses
        PROVE  /\ heap'[a].id = heap[a].id /\ heap'[a].to = heap[a].to
               /\ a \in Rewritten => heap'[a].next = Resolve(heap[a].next)
               /\ a \notin Rewritten => heap'[a] = heap[a]
    <3>1. heap[a] \in Cell
      BY <1>2
    <3>2. CASE a \in Rewritten
      <4>1. heap'[a] = [heap[a] EXCEPT !.next = Follow(@)]
        BY <1>1, <3>2
      <4>2. QED
        BY <1>3, <3>1, <3>2, <4>1 DEF Cell
    <3>3. CASE a \notin Rewritten
      BY <1>1, <3>3
    <3>4. QED
      BY <3>2, <3>3
  <2>2. QED
    BY <2>1
<1>5. /\ Sources' = Sources /\ ExplicitPins' = ExplicitPins
      /\ \A a : /\ IsObject(a)' <=> IsObject(a)
                /\ GenOf(a)' = GenOf(a)
  BY <1>1, <1>4 DEF Sources, ExplicitPins, IsObject, GenOf
<1>6. \A a : Survives(a)' <=> Survives(a)
  BY <1>1, <1>5 DEF Survives, IsObject
<1>7. \A a \in Addresses \cup {Nil} : Resolve(a)' = Resolve(a)
  BY <1>4 DEF Resolve
<1>8. Evacuating /\ Evacuating'
  BY <1>1 DEF Evacuating
\* What is rewritten to is where it is.
<1>9. ASSUME NEW b \in Addresses, Survives(Resolve(b))
      PROVE  /\ Resolve(b) \in Addresses /\ heap'[Resolve(b)].to = Nil
             /\ \A c : c = Resolve(b) => Survives(Resolve(c))'
  <2>1. PICK c : c = Resolve(b)
    OBVIOUS
  <2>2. c \in Addresses /\ heap[c].to = Nil /\ heap[c].id # Nil
    BY <1>9, <2>1, Resolved
  <2>3. heap'[c].to = Nil /\ Survives(c)'
    BY <1>4, <1>6, <1>9, <2>1, <2>2
  <2>4. Resolve(c)' = c
    BY <2>3 DEF Resolve
  <2>5. Survives(Resolve(c))'
    BY <2>2, <2>3, <2>4 DEF Survives, IsObject
  <2>6. QED
    BY <2>1, <2>2, <2>3, <2>5
<1>10. KindInv' /\ PassInv'
  BY <1>0, <1>1 DEF KindInv, PassInv, PagesIn
<1>11. AllocatorInOrder'
  <2>1. \A a \in Rewritten : IsObject(a)
    BY DEF Rewritten, OnScannedCard, ObjectsIn
  <2>2. \A a \in Addresses : heap[a] = EmptyCell => heap'[a] = EmptyCell
    BY <1>2, <1>4, <2>1 DEF IsObject
  <2>3. QED
    BY <1>0, <1>1, <2>2 DEF AllocatorInOrder, Slots, GenOf
<1>12. SourceInv'
  <2>1. Sources' \subseteq PagesIn(pass.from)'
    BY <1>0, <1>1, <1>5 DEF SourceInv, PagesIn
  <2>2. pass'.from # pass'.dest => PagesIn(pass.from)' \subseteq Sources'
    BY <1>0, <1>1, <1>5, <1>8 DEF SourceInv, PagesIn
  <2>3. QED
    BY <1>0, <1>1, <1>5, <1>8, <2>1, <2>2 DEF SourceInv
<1>13. MarkerInv'
  <2>1. ASSUME NEW a \in Addresses, heap'[a].id = Nil PROVE heap'[a].next = Nil
    <3>1. heap[a].id = Nil /\ heap[a].next = Nil
      BY <1>0, <1>4, <2>1 DEF MarkerInv
    <3>2. a \notin Rewritten
      BY <3>1 DEF Rewritten, OnScannedCard, ObjectsIn, IsObject
    <3>3. QED
      BY <1>4, <3>1, <3>2
  <2>2. ASSUME NEW a \in Addresses, heap'[a].to # Nil
        PROVE  /\ heap'[a].id = Nil /\ PageOf(a) \in chunk'
               /\ IsObject(heap[a].to)' /\ GenOf(heap[a].to)' = pass'.dest
               /\ PageOf(heap[a].to)' \notin Sources'
    <3>1. /\ heap[a].id = Nil /\ PageOf(a) \in chunk
          /\ IsObject(heap[a].to) /\ GenOf(heap[a].to) = pass.dest
          /\ PageOf(heap[a].to) \notin Sources /\ heap'[a].to = heap[a].to
      BY <1>0, <1>4, <2>2 DEF MarkerInv
    <3>2. PICK b : b = heap[a].to
      OBVIOUS
    <3>3. IsObject(b)' /\ GenOf(b)' = pass.dest /\ PageOf(b) \notin Sources' /\ heap'[a].to = b
      BY <1>5, <3>1, <3>2
    <3>4. QED
      BY <1>1, <1>4, <3>1, <3>3 DEF IsObject, GenOf, PageOf
  <2>3. QED
    BY <1>1, <2>1, <2>2 DEF MarkerInv
<1>14. PinInv'
  <2>1. ASSUME NEW a \in marked, IsObject(a), PageOf(a) \in chunk PROVE a \in pinned
    <3>1. a \in Addresses /\ heap[a] # EmptyCell
      BY <1>2, <2>1 DEF IsObject
    <3>2. GenOf(a) = pass.from /\ page[PageOf(a)].kind = "Small"
      BY <1>0, <1>2, <2>1, <3>1 DEF SourceInv, Sources, PagesIn, GenOf
    <3>3. QED
      BY <1>1, <2>1, <3>2 DEF ToCopy
  <2>2. ExplicitPins \subseteq pinned /\ \A a \in pinned : Survives(a)'
    BY <1>0, <1>6, <1>8 DEF PinInv
  <2>3. \A a \in ExplicitPins : IsObject(a)'
    BY <1>0, <1>5 DEF PinInv
  <2>4. QED
    BY <1>1, <1>5, <2>1, <2>2, <2>3 DEF PinInv
<1>15. PointerInv'
  <2>1. ASSUME NEW a \in RootTargets' PROVE Survives(Resolve(a))' /\ heap'[a].to = Nil
    <3>1. PICK r \in Roots : a = root'[r]
      BY DEF RootTargets
    <3>2. a # Nil /\ a = Resolve(root[r])
      BY <1>1, <1>3, <3>1 DEF RootTargets
    <3>3. root[r] # Nil
      BY <3>2 DEF Resolve
    <3>4. root[r] \in RootTargets /\ root[r] \in Addresses
      BY <1>0, <3>3 DEF RootTargets, TypeOK
    <3>5. PICK b \in Addresses : b = root[r]
      BY <3>4
    <3>6. Survives(Resolve(b)) /\ a = Resolve(b)
      BY <1>0, <3>2, <3>4, <3>5 DEF PointerInv
    <3>7. QED
      BY <1>9, <3>6
  <2>2. ASSUME NEW a \in Addresses, Survives(a)', heap'[a].next # Nil
        PROVE  Survives(Resolve(heap[a].next))' /\ heap'[heap'[a].next].to = Nil
    <3>1. PICK n : n = heap[a].next
      OBVIOUS
    <3>2. Survives(a) /\ n # Nil
      BY <1>4, <1>6, <2>2, <3>1 DEF Resolve
    <3>3. n \in Addresses /\ Survives(Resolve(n))
      BY <1>0, <1>2, <3>1, <3>2, CellsAre DEF PointerInv
    <3>4. CASE heap[n].to = Nil
      <4>1. Resolve(n) = n
        BY <3>4 DEF Resolve
      <4>2. heap'[a].next = n
        BY <1>4, <3>1, <4>1
      <4>3. Survives(Resolve(n))' /\ heap'[n].to = Nil
        BY <1>9, <3>3, <4>1
      <4>4. QED
        BY <4>2, <4>3 DEF Survives, Resolve, IsObject
    <3>5. CASE heap[n].to # Nil /\ a \in Rewritten
      <4>1. PICK c : c = Resolve(n)
        OBVIOUS
      <4>2. heap'[a].next = c
        BY <1>4, <3>1, <3>5, <4>1
      <4>3. Survives(Resolve(c))' /\ heap'[c].to = Nil
        BY <1>9, <3>3, <4>1
      <4>4. QED
        BY <4>2, <4>3 DEF Survives, Resolve, IsObject
    <3>6. CASE heap[n].to # Nil /\ a \notin Rewritten
      <4>1. heap'[a].next = n /\ heap'[n].to # Nil
        BY <1>4, <3>1, <3>3, <3>6
      <4>2. PageOf(n) \in Sources
        BY <1>0, <3>3, <3>6 DEF MarkerInv, Sources
      <4>3. CASE PageOf(a) \in Sources
        <5>1. a \in marked'
          BY <1>1, <3>2, <4>3 DEF Survives
        <5>2. heap'[n].to = Nil
          BY <1>1, <2>2, <4>1, <5>1 DEF ReferencesRewritten
        <5>3. QED
          BY <4>1, <5>2
      <4>4. CASE PageOf(a) \notin Sources
        <5>1. IsObject(a) /\ a \notin ObjectsIn(pass.dest) /\ a \notin OnScannedCard
          BY <3>2, <3>6 DEF Survives, Rewritten
        <5>2. GenOf(a) # pass.dest
          BY <5>1 DEF ObjectsIn
        <5>3. a \in OnScannedCard
          BY <1>0, <1>8, <3>1, <3>2, <4>2, <4>4, <5>1, <5>2 DEF CardInv
        <5>4. QED
          BY <5>1, <5>3
      <4>5. QED
        BY <4>3, <4>4
    <3>7. QED
      BY <3>4, <3>5, <3>6
  <2>3. QED
    BY <2>1, <2>2 DEF PointerInv
\* A field is left as it was, or follows a marker in this chunk.
<1>16. ASSUME NEW a \in Addresses, Survives(a), heap'[a].next # Nil
       PROVE  \/ heap'[a].next = heap[a].next
              \/ /\ heap[a].next # Nil
                 /\ GenOf(heap[a].next) = pass.from /\ GenOf(heap'[a].next) = pass.dest
                 /\ PageOf(heap'[a].next) \notin Sources
  <2>1. SUFFICES ASSUME heap'[a].next # heap[a].next
                 PROVE  /\ heap[a].next # Nil
                        /\ GenOf(heap[a].next) = pass.from /\ GenOf(heap'[a].next) = pass.dest
                        /\ PageOf(heap'[a].next) \notin Sources
    OBVIOUS
  <2>2. PICK n : n = heap[a].next
    OBVIOUS
  <2>3. heap'[a].next = Resolve(n) /\ Resolve(n) # n /\ n # Nil
    BY <1>4, <1>16, <2>1, <2>2 DEF Resolve
  <2>4. n \in Addresses /\ Survives(Resolve(n))
    BY <1>0, <1>2, <1>16, <2>2, <2>3, CellsAre DEF PointerInv
  <2>5. /\ GenOf(Resolve(n)) = pass.dest /\ PageOf(Resolve(n)) \notin Sources
        /\ PageOf(n) \in chunk
    BY <2>3, <2>4, Resolved
  <2>6. GenOf(n) = pass.from
    BY <1>0, <2>5 DEF SourceInv, Sources, PagesIn, GenOf
  <2>7. QED
    BY <2>2, <2>3, <2>5, <2>6
<1>17. CardInv'
  <2>1. ASSUME NEW a \in Addresses, Survives(a)', heap'[a].next # Nil,
               Age(GenOf(heap[a].next)') < Age(GenOf(a)')
        PROVE  a \in dirty'
    <3>1. Survives(a) /\ Age(GenOf(heap'[a].next)) < Age(GenOf(a))
      BY <1>1, <1>6, <2>1 DEF GenOf
    <3>2. CASE heap'[a].next = heap[a].next
      BY <1>0, <1>1, <2>1, <3>1, <3>2 DEF CardInv
    <3>3. CASE heap'[a].next # heap[a].next
      <4>1. /\ heap[a].next # Nil
            /\ GenOf(heap[a].next) = pass.from /\ GenOf(heap'[a].next) = pass.dest
        BY <1>16, <2>1, <3>1, <3>3
      <4>2. pass.cycle # "none"
        BY <1>0, <1>1 DEF CycleInv
      <4>3. Age(pass.from) <= Age(pass.dest)
        BY <4>2, PassesAge
      <4>4. Age(GenOf(heap[a].next)) < Age(GenOf(a))
        BY <3>1, <4>1, <4>3, Ages
      <4>5. QED
        BY <1>0, <1>1, <3>1, <4>1, <4>4 DEF CardInv
    <3>4. QED
      BY <3>2, <3>3
  <2>2. ASSUME NEW a \in Addresses, IsObject(a)', heap'[a].next # Nil,
               PageOf(heap[a].next)' \in Sources', PageOf(a) \notin Sources',
               GenOf(a)' # pass'.dest
        PROVE  (a \in OnScannedCard)'
    <3>1. /\ IsObject(a) /\ PageOf(heap'[a].next) \in Sources /\ PageOf(a) \notin Sources
          /\ GenOf(a) # pass.dest /\ Survives(a)
      BY <1>1, <1>5, <2>2 DEF PageOf, Survives
    <3>2. heap'[a].next = heap[a].next
      BY <1>16, <2>2, <3>1
    <3>3. a \in OnScannedCard
      BY <1>0, <1>8, <2>2, <3>1, <3>2 DEF CardInv
    <3>4. QED
      BY <1>1, <2>2, <3>3 DEF OnScannedCard
  <2>3. phase' # "mark"
    BY <1>1
  <2>4. QED
    BY <2>1, <2>2, <2>3 DEF CardInv
<1>18. QED
  BY <1>10, <1>11, <1>12, <1>13, <1>14, <1>15, <1>17 DEF HeapInv

\* A chunk is reclaimed: what is kept of it is pinned, and nothing refers to the
\* rest.
LEMMA ReclaimIs ==
    ASSUME Types, HeapInv, Reclaim
    PROVE  /\ phase = "reclaim" /\ phase' = "chunk" /\ chunk' = {}
           /\ UNCHANGED <<root, pins, request, region, pass, marked, pinned, todo>>
           /\ dirty \subseteq dirty'
           /\ \A p \in Pages :
                 /\ p \notin chunk => page'[p] = page[p]
                 /\ p \in chunk => \/ page'[p] = FreePage
                                   \/ page'[p] = [gen |-> pass.dest, kind |-> "Small"]
           /\ \A a \in Addresses :
                 /\ PageOf(a) \notin chunk => heap'[a] = heap[a] /\ GenOf(a)' = GenOf(a)
                 /\ PageOf(a) \in chunk /\ a \notin pinned => heap'[a] = EmptyCell
                 /\ PageOf(a) \in chunk /\ a \in pinned =>
                       heap'[a] = heap[a] /\ GenOf(a)' = pass.dest /\ a \in dirty'
<1>0. TypeOK /\ KindInv /\ SourceInv /\ AllocatorInOrder
  BY DEF Types, HeapInv
<1>1. /\ phase = "reclaim" /\ phase' = "chunk" /\ chunk' = {}
      /\ UNCHANGED <<root, pins, request, region, pass, marked, pinned, todo>>
      /\ page' = [p \in Pages |->
                    IF p \in Kept THEN [page[p] EXCEPT !.gen = pass.dest]
                    ELSE IF p \in Released THEN FreePage ELSE page[p]]
      /\ heap' = [a \in Addresses |->
                    IF PageOf(a) \in Released \/ (PageOf(a) \in Kept /\ a \notin pinned)
                    THEN EmptyCell ELSE heap[a]]
      /\ dirty' = dirty \cup {a \in pinned : PageOf(a) \in Kept /\ page[PageOf(a)].kind = "Small"}
  BY DEF Reclaim, mutatorVars, Heads, Kept, Released
<1>2. \A p \in chunk : /\ p \in Pages /\ page[p].gen = pass.from
                       /\ page[p].kind = "Small"
                       /\ page[p] \in [gen : Gens \cup {"Free"},
                                       kind : {"Free", "Small", "Head", "Cont"}]
  BY <1>0, Basics DEF SourceInv, Sources, PagesIn, KindInv, TypeOK
<1>3. Heads = chunk /\ \A p \in chunk : RunOf(p) = {p}
  BY <1>2 DEF Heads, RunOf
<1>4. /\ Kept = {p \in chunk : HasPins(p)}
      /\ Released = {p \in chunk : ~HasPins(p)}
  BY <1>3 DEF Kept, Released
<1>5. ASSUME NEW p \in Pages
      PROVE  /\ p \notin chunk => page'[p] = page[p]
             /\ p \in chunk => \/ page'[p] = FreePage
                               \/ page'[p] = [gen |-> pass.dest, kind |-> "Small"]
             /\ p \in Kept => page'[p] = [gen |-> pass.dest, kind |-> "Small"]
  <2>1. p \notin chunk => page'[p] = page[p]
    BY <1>1, <1>4
  <2>2. p \in Kept => page'[p] = [gen |-> pass.dest, kind |-> "Small"]
    BY <1>1, <1>2, <1>4
  <2>3. p \in Released => page'[p] = FreePage
    BY <1>1, <1>4
  <2>4. QED
    BY <1>4, <2>1, <2>2, <2>3
<1>6. ASSUME NEW a \in Addresses
      PROVE  /\ PageOf(a) \notin chunk => heap'[a] = heap[a] /\ GenOf(a)' = GenOf(a)
             /\ PageOf(a) \in chunk /\ a \notin pinned => heap'[a] = EmptyCell
             /\ PageOf(a) \in chunk /\ a \in pinned =>
                   heap'[a] = heap[a] /\ GenOf(a)' = pass.dest /\ a \in dirty'
  <2>1. PageOf(a) \in Pages
    BY AddressIs
  <2>2. PageOf(a) \notin chunk => heap'[a] = heap[a] /\ GenOf(a)' = GenOf(a)
    BY <1>1, <1>4, <1>5, <2>1 DEF GenOf
  <2>3. PageOf(a) \in chunk /\ a \notin pinned => heap'[a] = EmptyCell
    BY <1>1, <1>4
  <2>4. PageOf(a) \in chunk /\ a \in pinned => PageOf(a) \in Kept /\ PageOf(a) \notin Released
    BY <1>4 DEF HasPins
  <2>5. PageOf(a) \in chunk /\ a \in pinned =>
           heap'[a] = heap[a] /\ GenOf(a)' = pass.dest /\ a \in dirty'
    BY <1>1, <1>2, <1>5, <2>1, <2>4 DEF GenOf
  <2>6. QED
    BY <2>2, <2>3, <2>5
<1>7. QED
  BY <1>1, <1>5, <1>6

LEMMA ReclaimStep ==
    ASSUME Types, Types', HeapInv, Reclaim
    PROVE  HeapInv'
<1>0. /\ TypeOK /\ CycleInv /\ KindInv /\ AllocatorInOrder /\ PassInv /\ SourceInv
      /\ MarkerInv /\ PinInv /\ PointerInv /\ CardInv
  BY DEF Types, HeapInv
<1>1. /\ phase = "reclaim" /\ phase' = "chunk" /\ chunk' = {}
      /\ UNCHANGED <<root, pins, request, region, pass, marked, pinned, todo>>
      /\ dirty \subseteq dirty'
  BY ReclaimIs
<1>2. \A p \in Pages :
         /\ p \notin chunk => page'[p] = page[p]
         /\ p \in chunk => \/ page'[p] = FreePage
                           \/ page'[p] = [gen |-> pass.dest, kind |-> "Small"]
  BY ReclaimIs
<1>3. \A a \in Addresses :
         /\ PageOf(a) \notin chunk => heap'[a] = heap[a] /\ GenOf(a)' = GenOf(a)
         /\ PageOf(a) \in chunk /\ a \notin pinned => heap'[a] = EmptyCell
         /\ PageOf(a) \in chunk /\ a \in pinned =>
               heap'[a] = heap[a] /\ GenOf(a)' = pass.dest /\ a \in dirty'
  BY ReclaimIs
<1>4. /\ pass.from \in Gens /\ pass.dest \in Gens /\ "Free" \notin Gens
      /\ EmptyCell.id = Nil /\ EmptyCell.to = Nil /\ EmptyCell.next = Nil
      /\ \A a \in Addresses : heap[a] \in Cell /\ PageOf(a) \in Pages
  BY <1>0, Basics
<1>5. /\ Sources' = todo /\ todo \cap chunk = {} /\ Evacuating /\ Evacuating'
      /\ \A p \in Sources : p \in Pages /\ page[p].gen = pass.from
  BY <1>0, <1>1 DEF Sources, SourceInv, Evacuating, PagesIn
<1>6. \A a \in pinned : Survives(a)
  BY <1>0, <1>5 DEF PinInv
<1>7. \A a \in Addresses : heap'[a] = heap[a] \/ (PageOf(a) \in chunk /\ heap'[a] = EmptyCell)
  BY <1>3
\* The objects left are those that survive the pass.
<1>8. ASSUME NEW a, Survives(a)' PROVE Survives(a) /\ a \in Addresses /\ heap'[a] = heap[a]
  <2>1. a \in Addresses /\ heap'[a].id # Nil /\ (PageOf(a) \in todo => a \in marked)
    BY <1>1, <1>5, <1>8 DEF Survives, IsObject
  <2>2. CASE PageOf(a) \in chunk
    <3>1. a \in pinned
      BY <1>3, <1>4, <2>1, <2>2
    <3>2. QED
      BY <1>3, <1>6, <2>1, <2>2, <3>1
  <2>3. CASE PageOf(a) \notin chunk
    BY <1>3, <2>1, <2>3 DEF Survives, IsObject, Sources
  <2>4. QED
    BY <2>2, <2>3
<1>9. ASSUME NEW a, Survives(a)
      PROVE  /\ Survives(a)' /\ heap'[a] = heap[a]
             /\ PageOf(a) \in chunk => GenOf(a)' = pass.dest /\ GenOf(a) = pass.from
             /\ PageOf(a) \notin chunk => GenOf(a)' = GenOf(a)
  <2>1. a \in Addresses /\ heap[a].id # Nil /\ (PageOf(a) \in Sources => a \in marked)
    BY <1>9 DEF Survives, IsObject
  <2>2. CASE PageOf(a) \in chunk
    <3>1. a \in marked /\ IsObject(a)
      BY <2>1, <2>2 DEF Sources, IsObject
    <3>2. a \in pinned
      BY <1>0, <1>1, <2>2, <3>1 DEF PinInv
    <3>3. heap'[a] = heap[a] /\ GenOf(a)' = pass.dest
      BY <1>3, <2>1, <2>2, <3>2
    <3>4. GenOf(a) = pass.from
      BY <1>5, <2>2 DEF Sources, GenOf
    <3>5. Survives(a)'
      BY <1>1, <2>1, <3>1, <3>3 DEF Survives, IsObject
    <3>6. QED
      BY <2>2, <3>3, <3>4, <3>5
  <2>3. CASE PageOf(a) \notin chunk
    <3>1. heap'[a] = heap[a] /\ GenOf(a)' = GenOf(a)
      BY <1>3, <2>1, <2>3
    <3>2. PageOf(a) \in Sources' => a \in marked'
      BY <1>1, <1>5, <2>1 DEF Sources
    <3>3. Survives(a)'
      BY <2>1, <3>1, <3>2 DEF Survives, IsObject
    <3>4. QED
      BY <2>3, <3>1, <3>3
  <2>4. QED
    BY <2>2, <2>3
<1>10. \A a \in Addresses : heap'[a].to = Nil
  <2>1. ASSUME NEW a \in Addresses, heap[a].to # Nil PROVE heap'[a] = EmptyCell
    <3>1. heap[a].id = Nil /\ PageOf(a) \in chunk
      BY <1>0, <2>1 DEF MarkerInv
    <3>2. a \notin pinned
      BY <1>6, <3>1 DEF Survives, IsObject
    <3>3. QED
      BY <1>3, <3>1, <3>2
  <2>2. QED
    BY <1>4, <1>7, <2>1
<1>11. \A a \in Addresses \cup {Nil} : Resolve(a)' = a
  BY <1>10 DEF Resolve
<1>12. KindInv'
  <2>1. FreePage.gen = "Free" /\ FreePage.kind = "Free"
    BY DEF FreePage
  <2>2. ASSUME NEW p \in Pages
        PROVE  /\ page'[p].kind \in {"Free", "Small"}
               /\ page'[p].kind = "Free" <=> page'[p].gen = "Free"
    <3>1. CASE page'[p] = page[p]
      BY <1>0, <3>1 DEF KindInv
    <3>2. CASE page'[p] = FreePage
      BY <2>1, <3>2
    <3>3. CASE page'[p] = [gen |-> pass.dest, kind |-> "Small"]
      BY <1>4, <3>3
    <3>4. QED
      BY <1>2, <3>1, <3>2, <3>3
  <2>3. QED
    BY <2>2 DEF KindInv
<1>13. AllocatorInOrder'
  <2>1. ASSUME NEW a \in Addresses, GenOf(a)' = "Free" PROVE heap'[a] = EmptyCell
    <3>1. CASE PageOf(a) \in chunk
      <4>1. a \notin pinned
        BY <1>3, <1>4, <2>1, <3>1
      <4>2. QED
        BY <1>3, <3>1, <4>1
    <3>2. CASE PageOf(a) \notin chunk
      BY <1>0, <1>3, <2>1, <3>2 DEF AllocatorInOrder
    <3>3. QED
      BY <3>1, <3>2
  <2>2. ASSUME NEW g \in Gens, region'[g].page # Nil
        PROVE  /\ page'[region'[g].page] = [gen |-> g, kind |-> "Small"]
               /\ \A a \in Slots(region'[g].page) :
                     a % PageSlots >= region'[g].offset => heap'[a] = EmptyCell
    <3>1. /\ region' = region /\ region[g].page \in Pages /\ region[g].page \notin chunk
      BY <1>0, <1>1, <2>2 DEF TypeOK, SourceInv, Sources
    <3>2. page'[region[g].page] = page[region[g].page]
      BY <1>2, <3>1
    <3>3. \A a \in Slots(region[g].page) : heap'[a] = heap[a]
      BY <1>3, <3>1 DEF Slots
    <3>4. QED
      BY <1>0, <2>2, <3>1, <3>2, <3>3 DEF AllocatorInOrder
  <2>3. QED
    BY <2>1, <2>2 DEF AllocatorInOrder
<1>14. \A g \in Gens : g # pass.dest =>
          PagesIn(g)' \subseteq PagesIn(g) /\ (\A p \in PagesIn(g)' : p \notin chunk)
  <2>1. FreePage.gen = "Free"
    BY DEF FreePage
  <2>2. QED
    BY <1>2, <1>4, <2>1 DEF PagesIn
<1>15. PassInv'
  <2>1. pass.cycle # "none"
    BY <1>0, <1>1 DEF CycleInv
  <2>2. \/ pass.from = "G0" /\ pass.dest \in {"G0", "G1"}
        \/ pass.from = "G1" /\ pass.dest = "Tenured"
        \/ pass.from = "Tenured" /\ pass.dest = "Tenured"
    BY <1>0, <2>1 DEF CycleInv, TypeOK
  <2>3. "G0" \in Gens /\ "G1" \in Gens /\ "Tenured" \in Gens
    BY DEF Gens
  <2>4. pass.from # "G0" => PagesIn("G0")' = {}
    BY <1>0, <1>14, <2>2, <2>3 DEF PassInv
  <2>5. pass.from = "Tenured" => PagesIn("G1")' = {}
    BY <1>0, <1>14, <2>2, <2>3 DEF PassInv
  <2>6. pass.cycle = "minor" /\ pass.from = "G0" /\ pass.dest = "G1" =>
            \A p \in PagesIn("Tenured")' : pass.scan[p] = "Tenured"
    BY <1>0, <1>14, <2>3 DEF PassInv
  <2>7. request # Nil /\ request.attempt = 3 => pass.cycle = "full"
    BY <1>0, <2>1 DEF PassInv
  <2>8. QED
    BY <1>1, <2>1, <2>4, <2>5, <2>6, <2>7 DEF PassInv
<1>16. SourceInv'
  <2>1. todo \subseteq PagesIn(pass.from)'
    BY <1>1, <1>2, <1>5 DEF PagesIn, Sources
  <2>2. pass.from # pass.dest => PagesIn(pass.from)' \subseteq todo
    <3>1. SUFFICES ASSUME pass.from # pass.dest, NEW p \in PagesIn(pass.from)'
                   PROVE  p \in todo
      BY <1>1
    <3>2. p \in PagesIn(pass.from) /\ p \notin chunk
      BY <1>1, <1>4, <1>14, <3>1 DEF PagesIn
    <3>3. QED
      BY <1>0, <1>5, <3>1, <3>2 DEF SourceInv, Sources
  <2>3. \A g \in Gens : region'[g].page \notin Sources'
    BY <1>0, <1>1, <1>5 DEF SourceInv, Sources
  <2>4. Sources' \subseteq PagesIn(pass.from)' /\ (pass'.from # pass'.dest => PagesIn(pass.from)' \subseteq Sources')
    BY <1>1, <1>5, <2>1, <2>2
  <2>5. QED
    BY <1>1, <1>5, <2>3, <2>4 DEF SourceInv
<1>17. MarkerInv'
  <2>1. \A a \in Addresses : heap'[a].id = Nil => heap'[a].next = Nil
    BY <1>0, <1>4, <1>7 DEF MarkerInv
  <2>2. QED
    BY <1>10, <2>1 DEF MarkerInv
<1>18. PinInv'
  <2>1. ExplicitPins' = ExplicitPins /\ ExplicitPins \subseteq pinned
    BY <1>0, <1>1, <1>5 DEF ExplicitPins, PinInv
  <2>2. \A a \in pinned : Survives(a)'
    BY <1>6, <1>9
  <2>3. \A a \in pinned : IsObject(a)'
    BY <2>2 DEF Survives
  <2>4. QED
    BY <1>1, <2>1, <2>2, <2>3 DEF PinInv
<1>19. PointerInv'
  <2>1. ASSUME NEW b \in Addresses, Survives(Resolve(b)), heap[b].to = Nil
        PROVE  Survives(Resolve(b))'
    <3>1. Resolve(b) = b /\ Resolve(b)' = b
      BY <1>11, <2>1 DEF Resolve
    <3>2. Survives(b)'
      BY <1>9, <2>1, <3>1
    <3>3. QED
      BY <3>1, <3>2 DEF Survives, IsObject
  <2>2. ASSUME NEW a \in RootTargets' PROVE Survives(Resolve(a))'
    <3>1. a \in RootTargets /\ a \in Addresses
      BY <1>0, <1>1 DEF RootTargets, TypeOK
    <3>2. QED
      BY <1>0, <1>1, <2>1, <3>1 DEF PointerInv
  <2>3. ASSUME NEW a \in Addresses, Survives(a)', heap'[a].next # Nil
        PROVE  Survives(Resolve(heap[a].next))'
    <3>1. PICK n : n = heap[a].next
      OBVIOUS
    <3>2. Survives(a) /\ heap'[a].next = n /\ n # Nil
      BY <1>8, <2>3, <3>1
    <3>3. n \in Addresses
      BY <1>4, <3>1, <3>2, CellsAre
    <3>4. Survives(Resolve(n)) /\ heap[n].to = Nil
      BY <1>0, <1>1, <3>1, <3>2 DEF PointerInv
    <3>5. Survives(Resolve(n))'
      BY <2>1, <3>3, <3>4
    <3>6. QED
      BY <3>2, <3>5 DEF Survives, Resolve, IsObject
  <2>4. phase' # "reclaim"
    BY <1>1
  <2>5. QED
    BY <2>2, <2>3, <2>4 DEF PointerInv
\* What a surviving object refers to survives, where it is.
<1>20. ASSUME NEW a \in Addresses, Survives(a), heap[a].next # Nil
       PROVE  \A n : n = heap[a].next => Survives(n) /\ n \in Addresses
  <2>1. PICK n : n = heap[a].next
    OBVIOUS
  <2>2. heap[n].to = Nil /\ Survives(Resolve(n))
    BY <1>0, <1>1, <1>20, <2>1 DEF PointerInv
  <2>3. Resolve(n) = n
    BY <2>2 DEF Resolve
  <2>4. n \in Addresses
    BY <1>4, <1>20, <2>1, CellsAre
  <2>5. QED
    BY <2>1, <2>2, <2>3, <2>4
<1>21. CardInv'
  <2>1. ASSUME NEW a \in Addresses, Survives(a)', heap'[a].next # Nil,
               Age(GenOf(heap[a].next)') < Age(GenOf(a)')
        PROVE  a \in dirty'
    <3>1. PICK n : n = heap[a].next
      OBVIOUS
    <3>2. Survives(a) /\ heap'[a].next = n /\ n # Nil /\ Survives(n) /\ n \in Addresses
      BY <1>8, <1>20, <2>1, <3>1
    <3>3. CASE PageOf(a) \in chunk
      <4>1. a \in pinned
        <5>1. heap'[a] # EmptyCell
          BY <1>4, <2>1
        <5>2. QED
          BY <1>3, <3>3, <5>1
      <4>2. QED
        BY <1>3, <3>3, <4>1
    <3>4. CASE PageOf(a) \notin chunk
      <4>1. GenOf(a)' = GenOf(a) /\ Age(GenOf(n)') < Age(GenOf(a))
        BY <1>3, <2>1, <3>2, <3>4 DEF GenOf
      <4>2. CASE PageOf(n) \notin chunk
        <5>1. GenOf(n)' = GenOf(n)
          BY <1>9, <3>2, <4>2
        <5>2. QED
          BY <1>0, <1>1, <3>1, <3>2, <4>1, <5>1 DEF CardInv
      <4>3. CASE PageOf(n) \in chunk
        <5>1. GenOf(n)' = pass.dest /\ GenOf(n) = pass.from
          BY <1>9, <3>2, <4>3
        <5>2. pass.cycle # "none"
          BY <1>0, <1>1 DEF CycleInv
        <5>3. Age(pass.from) <= Age(pass.dest)
          BY <5>2, PassesAge
        <5>4. Age(GenOf(n)) < Age(GenOf(a))
          BY <4>1, <5>1, <5>3, Ages
        <5>5. QED
          BY <1>0, <1>1, <3>1, <3>2, <5>4 DEF CardInv
      <4>4. QED
        BY <4>2, <4>3
    <3>5. QED
      BY <3>3, <3>4
  <2>2. ASSUME NEW a \in Addresses, IsObject(a)', heap'[a].next # Nil,
               PageOf(heap[a].next)' \in Sources', PageOf(a) \notin Sources',
               GenOf(a)' # pass'.dest
        PROVE  (a \in OnScannedCard)'
    <3>1. PageOf(a) \notin chunk
      <4>1. heap'[a] # EmptyCell
        BY <1>4, <2>2
      <4>2. QED
        BY <1>1, <1>3, <2>2, <4>1
    <3>2. heap'[a] = heap[a] /\ GenOf(a)' = GenOf(a)
      BY <1>3, <3>1
    <3>3. /\ IsObject(a) /\ PageOf(heap[a].next) \in Sources /\ PageOf(a) \notin Sources
          /\ GenOf(a) # pass.dest /\ heap[a].next # Nil
      BY <1>1, <1>5, <2>2, <3>1, <3>2 DEF IsObject, PageOf, Sources
    <3>4. a \in OnScannedCard
      BY <1>0, <1>5, <3>3 DEF CardInv
    <3>5. QED
      BY <1>1, <2>2, <3>4 DEF OnScannedCard
  <2>3. phase' # "mark"
    BY <1>1
  <2>4. QED
    BY <2>1, <2>2, <2>3 DEF CardInv
<1>22. QED
  BY <1>12, <1>13, <1>15, <1>16, <1>17, <1>18, <1>19, <1>21 DEF HeapInv

\* The end of a pass: nothing is left of what it moved, so the next has only
\* older pages beside the ones that it will move.
LEMMA EndStep ==
    ASSUME Types, Types', HeapInv, EndPass
    PROVE  HeapInv'
<1>0. TypeOK /\ CycleInv /\ KindInv /\ PassInv /\ SourceInv
  BY DEF Types, HeapInv
<1>1. /\ phase = "chunk" /\ todo = {}
      /\ UNCHANGED <<root, pins, request, heap, page, region>>
  BY DEF EndPass, mutatorVars
<1>2. Consistent
  BY <1>1, AtRest
<1>3. pass.cycle \in {"minor", "full"}
  BY <1>0, <1>1 DEF CycleInv, TypeOK
<1>4. pass.from # pass.dest => PagesIn(pass.from) = {}
  <2>1. Sources = {} /\ Evacuating
    BY <1>1, <1>2 DEF Consistent, Evacuating
  <2>2. QED
    BY <1>0, <2>1 DEF SourceInv
<1>5. request # Nil /\ request.attempt = 3 => pass.cycle = "full"
  BY <1>0, <1>3 DEF PassInv
<1>6. \A g \in Gens : PagesIn(g)' = PagesIn(g)
  BY <1>1 DEF PagesIn
\* The program goes on.
<1>7. ASSUME Finish, UNCHANGED todo,
             pass.cycle = "full" => PagesIn("G0") = {} /\ PagesIn("G1") = {}
      PROVE  HeapInv'
  <2>1. /\ phase' = "mutator" /\ pass' = NoPass /\ chunk' = {} /\ todo' = {}
        /\ dirty' = {a \in Addresses : GenOf(a) # "Free" /\ heap[a].next # Nil}
    BY <1>1, <1>7 DEF Finish
  <2>2. Consistent'
    <3>1. KindInv' /\ AllocatorInOrder'
      BY <1>1, <1>2 DEF Consistent, KindInv, AllocatorInOrder, GenOf
    <3>2. Sources' = {}
      BY <2>1 DEF Sources
    <3>3. \A a \in Addresses : heap[a].next # Nil => a \in dirty'
      <4>1. \A a \in Addresses : heap[a] # EmptyCell => GenOf(a) # "Free"
        BY <1>2 DEF Consistent, AllocatorInOrder
      <4>2. EmptyCell.next = Nil
        BY DEF EmptyCell
      <4>3. QED
        BY <2>1, <4>1, <4>2
    <3>4. \A a \in (RootTargets \cup ExplicitPins)' : IsObject(a)'
      BY <1>1, <1>2 DEF Consistent, RootTargets, ExplicitPins, IsObject
    <3>5. ASSUME NEW a \in Addresses
          PROVE  /\ heap'[a].to = Nil
                 /\ heap'[a].id = Nil => heap'[a].next = Nil
                 /\ heap'[a].next # Nil => IsObject(heap[a].next)' /\ a \in dirty'
      BY <1>1, <1>2, <3>3 DEF Consistent, IsObject
    <3>6. QED
      BY <3>1, <3>2, <3>4, <3>5 DEF Consistent
  <2>3. PassInv'
    <3>1. pass'.cycle = "none" /\ pass'.from = "G0"
      BY <2>1 DEF NoPass
    <3>2. request' # Nil /\ request'.attempt = 3 => PagesIn("G0")' = {} /\ PagesIn("G1")' = {}
      BY <1>1, <1>5, <1>6, <1>7 DEF Gens
    <3>3. QED
      BY <3>1, <3>2 DEF PassInv
  <2>4. QED
    BY <2>1, <2>2, <2>3, FromRest
\* The next pass begins.
<1>8. ASSUME UNCHANGED dirty, NEW cycle \in {"minor", "full"}, NEW from \in {"G1", "Tenured"},
             NEW scan, StartPass(cycle, from, "Tenured", scan), cycle = pass.cycle,
             PagesIn("G0") = {}, from = "Tenured" => PagesIn("G1") = {},
             \A p \in PagesIn("Tenured") : from # "Tenured" => scan[p] = "Tenured"
      PROVE  HeapInv'
  <2>1. pass'.cycle = cycle /\ pass'.from = from /\ pass'.dest = "Tenured"
    BY <1>8 DEF StartPass
  <2>2. PassInv'
    <3>1. PagesIn("G0")' = {} /\ (from = "Tenured" => PagesIn("G1")' = {})
      BY <1>6, <1>8 DEF Gens
    <3>2. request' # Nil /\ request'.attempt = 3 => pass'.cycle = "full"
      BY <1>1, <1>5, <1>8, <2>1
    <3>3. pass'.cycle # "none" /\ pass'.dest # "G1"
      BY <1>8, <2>1
    <3>4. QED
      BY <2>1, <3>1, <3>2, <3>3 DEF PassInv
  <2>3. ASSUME NEW p \in Pages, NEW g \in Gens, page[p].gen = g, g # from
        PROVE  Age(from) < Age(g) /\ scan[p] = g
    <3>1. p \in PagesIn(g)
      BY <2>3 DEF PagesIn
    <3>2. g = "Tenured" /\ from = "G1"
      BY <1>8, <2>3, <3>1 DEF Gens
    <3>3. QED
      BY <1>8, <3>1, <3>2, Ages
  <2>4. from \in Gens
    BY DEF Gens
  <2>5. PICK dest : dest = "Tenured"
    OBVIOUS
  <2>6. StartPass(cycle, from, dest, scan)
    BY <1>8, <2>5
  <2>7. UNCHANGED <<root, pins, heap, page, region, dirty>>
    BY <1>1, <1>8
  <2>8. QED
    BY <1>2, <2>2, <2>3, <2>4, <2>6, <2>7, StartStep
<1>9. CASE pass.cycle = "minor"
  <2>1. CASE pass.from = "G0" /\ pass.dest = "G1"
    <3>1. CASE promotes + 1 >= G1Threshold
      <4>1. StartPass("minor", "G1", "Tenured", pass.scan) /\ UNCHANGED dirty
        BY <1>9, <2>1, <3>1 DEF EndPass
      <4>2. PagesIn("G0") = {}
        BY <1>4, <2>1
      <4>3. \A p \in PagesIn("Tenured") : pass.scan[p] = "Tenured"
        BY <1>0, <1>9, <2>1 DEF PassInv
      <4>4. PICK scan, cycle, from : scan = pass.scan /\ cycle = "minor" /\ from = "G1"
        OBVIOUS
      <4>5. StartPass(cycle, from, "Tenured", scan)
        BY <4>1, <4>4
      <4>6. QED
        BY <1>8, <1>9, <4>1, <4>2, <4>3, <4>4, <4>5
    <3>2. CASE ~(promotes + 1 >= G1Threshold)
      <4>1. Finish /\ UNCHANGED todo
        BY <1>9, <2>1, <3>2 DEF EndPass
      <4>2. QED
        BY <1>7, <1>9, <4>1
    <3>3. QED
      BY <3>1, <3>2
  <2>2. CASE ~(pass.from = "G0" /\ pass.dest = "G1")
    <3>1. Finish /\ UNCHANGED todo
      BY <1>9, <2>2 DEF EndPass
    <3>2. QED
      BY <1>7, <1>9, <3>1
  <2>3. QED
    BY <2>1, <2>2
<1>10. CASE pass.cycle = "full"
  <2>0. \/ pass.from = "G0" /\ pass.dest = "G1"
        \/ pass.from = "G1" /\ pass.dest = "Tenured"
        \/ pass.from = "Tenured"
    BY <1>0, <1>10 DEF CycleInv
  <2>1. CASE pass.from = "G0"
    <3>1. StartPass("full", "G1", "Tenured", Generations) /\ UNCHANGED dirty
      BY <1>10, <2>1 DEF EndPass
    <3>2. PagesIn("G0") = {}
      BY <1>4, <2>0, <2>1
    <3>3. \A p \in PagesIn("Tenured") : Generations[p] = "Tenured"
      BY DEF PagesIn, Generations
    <3>4. PICK scan, cycle, from : scan = Generations /\ cycle = "full" /\ from = "G1"
      OBVIOUS
    <3>5. StartPass(cycle, from, "Tenured", scan)
      BY <3>1, <3>4
    <3>6. QED
      BY <1>8, <1>10, <3>1, <3>2, <3>3, <3>4, <3>5
  <2>2. CASE pass.from = "G1"
    <3>1. StartPass("full", "Tenured", "Tenured", NoCards) /\ UNCHANGED dirty
      BY <1>10, <2>2 DEF EndPass
    <3>2. PagesIn("G0") = {} /\ PagesIn("G1") = {}
      BY <1>0, <1>4, <2>0, <2>2 DEF PassInv
    <3>3. PICK scan, cycle, from : scan = NoCards /\ cycle = "full" /\ from = "Tenured"
      OBVIOUS
    <3>4. StartPass(cycle, from, "Tenured", scan)
      BY <3>1, <3>3
    <3>5. QED
      BY <1>8, <1>10, <3>1, <3>2, <3>3, <3>4
  <2>3. CASE pass.from = "Tenured"
    <3>1. Finish /\ UNCHANGED todo
      BY <1>10, <2>3 DEF EndPass
    <3>2. PagesIn("G0") = {} /\ PagesIn("G1") = {}
      BY <1>0, <2>3 DEF PassInv
    <3>3. QED
      BY <1>7, <3>1, <3>2
  <2>4. QED
    BY <2>0, <2>1, <2>2, <2>3
<1>11. QED
  BY <1>3, <1>9, <1>10

-----------------------------------------------------------------------------
(* Theorems, for small objects.                                            *)

LEMMA HeapStep ==
    ASSUME Types, Types', HeapInv, SmallOnly, ReferencesRewritten', [Next]_vars
    PROVE  HeapInv'
<1>1. CASE AllocYoung \/ AllocTenured \/ AllocLarge \/ Exhausted
  BY <1>1, AllocationSteps
<1>2. CASE CollectForRoom \/ CollectOnDemand
  BY <1>2, CollectSteps
<1>3. CASE \/ \E r \in Roots : Move(r) \/ Write(r) \/ Pin(r)
           \/ \E a \in Addresses : Unpin(a)
  BY <1>3, MutationSteps
<1>4. CASE Mark
  BY <1>4, MarkStep
<1>5. CASE NextChunk \/ Stall
  BY <1>5, ChunkStep
<1>6. CASE CopyObject
  BY <1>6, CopyStep
<1>7. CASE Rewrite
  BY <1>7, RewriteStep
<1>8. CASE Reclaim
  BY <1>8, ReclaimStep
<1>9. CASE EndPass
  BY <1>9, EndStep
<1>10. CASE UNCHANGED vars
  <2> USE <1>10 DEF vars, mutatorVars, gcVars, GenOf, PagesIn, Sources, Evacuating,
                    IsObject, Survives, ExplicitPins, RootTargets, Resolve,
                    OnScannedCard
  <2>1. KindInv' /\ AllocatorInOrder'
    BY DEF HeapInv, KindInv, AllocatorInOrder
  <2>2. PassInv' /\ SourceInv'
    BY DEF HeapInv, PassInv, SourceInv
  <2>3. MarkerInv' /\ PinInv'
    BY DEF HeapInv, MarkerInv, PinInv
  <2>4. PointerInv' /\ CardInv'
    BY DEF HeapInv, PointerInv, CardInv
  <2>5. QED
    BY <2>1, <2>2, <2>3, <2>4 DEF HeapInv
<1>11. QED
  BY <1>1, <1>2, <1>3, <1>4, <1>5, <1>6, <1>7, <1>8, <1>9, <1>10
     DEF Next, Collector, Allocator

\* The page heap's invariant, for small objects, as long as no object that is
\* still to be copied refers to one that has been.
THEOREM HeapInvariance ==
    ASSUME SmallOnly
    PROVE  Spec /\ []ReferencesRewritten => [](Types /\ HeapInv)
<1>1. Init => HeapInv
  <2> SUFFICES ASSUME Init PROVE HeapInv
    OBVIOUS
  <2>1. /\ \A p \in Pages : page[p].gen = "Free" /\ page[p].kind = "Free"
        /\ \A a \in Addresses : heap[a] = EmptyCell
        /\ \A g \in Gens : region[g].page = Nil
        /\ RootTargets = {} /\ ExplicitPins = {} /\ Sources = {}
    BY DEF Init, FreePage, EmptyRegion, RootTargets, ExplicitPins, Sources
  <2>2. /\ phase = "mutator" /\ request = Nil /\ chunk = {}
        /\ pass.cycle = "none" /\ pass.from = "G0"
    BY DEF Init, NoPass
  <2>3. EmptyCell.id = Nil /\ EmptyCell.to = Nil /\ EmptyCell.next = Nil
    BY DEF EmptyCell
  <2>4. KindInv /\ AllocatorInOrder /\ PassInv
    BY <2>1, <2>2 DEF KindInv, AllocatorInOrder, PassInv
  <2>5. SourceInv
    BY <2>1, <2>2 DEF SourceInv, Evacuating, Sources
  <2>6. MarkerInv /\ PinInv
    BY <2>1, <2>2, <2>3 DEF MarkerInv, PinInv, Evacuating
  <2>7. PointerInv /\ CardInv
    BY <2>1, <2>2, <2>3 DEF PointerInv, CardInv, Evacuating
  <2>8. QED
    BY <2>4, <2>5, <2>6, <2>7 DEF HeapInv
<1>2. Types /\ Types' /\ HeapInv /\ ReferencesRewritten' /\ [Next]_vars => HeapInv'
  BY HeapStep
<1>3. QED
  BY <1>1, <1>2, Typing, PTL DEF Spec

\* Regions and free pages are in order, whatever the collector has copied,
\* flipped, promoted or released.
THEOREM AllocatorStaysInOrder ==
    ASSUME SmallOnly
    PROVE  Spec /\ []ReferencesRewritten => []AllocatorInOrder
<1>1. HeapInv => AllocatorInOrder
  BY DEF HeapInv
<1>2. QED
  BY <1>1, HeapInvariance, PTL

\* Between collections no root, pin or object, dead ones included, refers to
\* anything but an object, and no forwarding marker is left.
THEOREM PointersStayValid ==
    ASSUME SmallOnly
    PROVE  Spec /\ []ReferencesRewritten => []PointersValid
<1>1. Types /\ HeapInv => PointersValid
  BY AtRest DEF PointersValid, Consistent
<1>2. QED
  BY <1>1, HeapInvariance, PTL

\* Between collections every pointer from an older object to a younger one is
\* on a dirty card: of objects that were allocated old, promoted, or written.
THEOREM OldToYoungStaysCarded ==
    ASSUME SmallOnly
    PROVE  Spec /\ []ReferencesRewritten => []OldToYoungIsCarded
<1>1. Types /\ HeapInv => OldToYoungIsCarded
  BY AtRest DEF OldToYoungIsCarded, Consistent
<1>2. QED
  BY <1>1, HeapInvariance, PTL

\* What a step does to a pinned object.
LEMMA PinStep ==
    ASSUME Types, HeapInv, SmallOnly, [Next]_vars,
           NEW a \in Addresses, pins[a] > 0
    PROVE  heap'[a].id = heap[a].id
<1>0. /\ TypeOK /\ AllocatorInOrder /\ KindInv /\ SourceInv /\ PinInv
      /\ a \in ExplicitPins /\ IsObject(a) /\ heap[a].id # Nil /\ EmptyCell.id = Nil
  BY DEF Types, HeapInv, PinInv, ExplicitPins, IsObject, EmptyCell
<1>1. CASE AllocYoung \/ AllocTenured \/ AllocLarge
  <2>1. PICK g \in Gens, q \in Requests, b \in {Room("G0", TRUE), Room("Tenured", TRUE)} :
           b = Room(g, TRUE) /\ b # Nil /\ Bump(g, b) /\ Initialise(q, b)
    BY <1>1, AllocIs
  <2>2. heap[b] = EmptyCell /\ \A d \in Addresses : d # b => heap'[d] = heap[d]
    BY <1>0, <2>1, InitialiseIs
  <2>3. QED
    BY <1>0, <2>2
<1>5. CASE UNCHANGED heap
  BY <1>5
<1>6. ASSUME NEW r \in Roots, Write(r) PROVE heap'[a].id = heap[a].id
  <2>1. PICK v : heap' = [heap EXCEPT ![root[r]].next = v]
    BY <1>6 DEF Write
  <2>2. heap[a] \in Cell
    BY <1>0 DEF TypeOK
  <2>3. QED
    BY <1>0, <2>1, <2>2 DEF TypeOK, Cell
<1>7. CASE CopyObject
  <2>1. PICK src, dst \in Addresses :
           /\ src \notin pinned /\ heap[dst] = EmptyCell
           /\ \A b \in Addresses : b = dst \/ b = src \/ heap'[b] = heap[b]
    BY <1>7, CopyIs
  <2>2. phase = "copy"
    BY <1>7, CopyIs
  <2>3. a # src /\ a # dst
    BY <1>0, <2>1, <2>2 DEF PinInv, Evacuating
  <2>4. QED
    BY <2>1, <2>3
<1>8. CASE Rewrite
  <2>1. /\ heap[a] \in Cell
        /\ heap'[a] = IF a \in Rewritten THEN [heap[a] EXCEPT !.next = Follow(@)] ELSE heap[a]
    BY <1>0, <1>8 DEF Rewrite, TypeOK
  <2>2. QED
    BY <2>1 DEF Cell
<1>9. CASE Reclaim
  <2>1. phase = "reclaim"
    BY <1>9 DEF Reclaim
  <2>2. a \in pinned
    BY <1>0, <2>1 DEF PinInv, Evacuating
  <2>3. QED
    BY <1>9, <2>2, ReclaimIs
<1>10. \/ UNCHANGED heap \/ AllocYoung \/ AllocTenured \/ AllocLarge
       \/ (\E r \in Roots : Write(r)) \/ CopyObject \/ Rewrite \/ Reclaim
  BY DEF Next, vars, Collector, Allocator, CollectForRoom, BeginMinor, BeginFull, Exhausted,
         CollectOnDemand, Move, Pin, Unpin, Mark, NextChunk, Stall, EndPass
<1>11. QED
  BY <1>1, <1>5, <1>6, <1>7, <1>8, <1>9, <1>10

\* A pinned object stays at its address through collections, chunks and page
\* flips, until the last unpin.
THEOREM PinnedStay ==
    ASSUME SmallOnly
    PROVE  Spec /\ []ReferencesRewritten => PinnedObjectsStay
<1>1. Types /\ HeapInv /\ [Next]_vars =>
         [\A a \in Addresses :
             pins[a] > 0 /\ pins'[a] > 0 => heap'[a].id = heap[a].id]_vars
  BY PinStep
<1>2. QED
  BY <1>1, HeapInvariance, PTL DEF Spec, PinnedObjectsStay
=============================================================================
