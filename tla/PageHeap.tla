------------------------------ MODULE PageHeap ------------------------------
(***************************************************************************)
(* The page heap of newgc-core (src/newgc-core/src/page_heap) as           *)
(* nod-runtime's allocator drives it (src/nod-runtime/src/heap.rs): bump   *)
(* allocation on generation-tagged pages, card marking, explicit pins, and *)
(* the block-incremental copying collector with its minor, cascading and   *)
(* full cycles.  The world is stopped while a collection runs, so its      *)
(* phases interleave with nothing; they are separate steps because pages   *)
(* are reclaimed, and copied into again, chunk by chunk.                   *)
(*                                                                         *)
(* An address is a slot, page p holding slots p * PageSlots and following; *)
(* an object fills a slot (a large one, a run of LargeSpan pages) and has  *)
(* one pointer; a card covers a slot.  `id` is a ghost: the identity that  *)
(* an object keeps when it is copied.                                      *)
(***************************************************************************)
EXTENDS Naturals, FiniteSets, Reachability

CONSTANTS Objects,          \* identities of objects
          Roots,            \* root variables of the program
          Nil,              \* no object, no address, no page
          NumPages,         \* pages in the reservation
          PageSlots,        \* objects per page
          LargeSpan,        \* pages of a large object
          Sizes,            \* the sizes the program asks for
          MaxPins,          \* bound: pins on one object
          YoungCap,         \* young_page_cap
          G0Threshold,      \* G0_PROMOTION_THRESHOLD
          G1Threshold       \* G1_PROMOTION_THRESHOLD

ASSUME SizesAssumption == /\ NumPages \in Nat \ {0}
                          /\ PageSlots \in Nat \ {0}
                          /\ LargeSpan \in Nat \ {0, 1}
                          /\ Sizes \subseteq {"small", "large"}
                          /\ YoungCap \in Nat \ {0, 1}
ASSUME ThresholdAssumption == /\ G0Threshold \in Nat \ {0}
                              /\ G1Threshold \in Nat \ {0}
                              /\ MaxPins \in Nat

VARIABLES
    root,           \* the root Words, updated in place by the collector
    heap,           \* heap[a]: the cells of slot a
    page,           \* PageDesc: generation and kind
    region,         \* AllocRegion of each generation
    dirty,          \* the card table
    pins,           \* explicit_pins
    minors,         \* minors_since_g0_promote
    promotes,       \* g0_promotes_since_g1_promote
    request,        \* the allocation in progress, or Nil
    phase,          \* where the collector is
    pass,           \* the evacuation pass it is in
    marked,         \* mark bits
    pinned,         \* pinned_cells
    todo,           \* from_pages not yet in a chunk
    chunk           \* chunk_pages

mutatorVars == <<root, pins, request>>
counters    == <<minors, promotes>>
gcVars      == <<phase, pass, marked, pinned, todo, chunk>>
vars == <<mutatorVars, heap, page, region, dirty, counters, gcVars>>

Pages == 0 .. NumPages - 1
Addresses == 0 .. NumPages * PageSlots - 1

ASSUME NilAssumption == Nil \notin Objects \cup Addresses \cup Pages

PageOf(a) == a \div PageSlots
Slots(p) == {a \in Addresses : PageOf(a) = p}

Gens == {"G0", "G1", "Tenured"}
Age(g) == CASE g = "G0" -> 0 [] g = "G1" -> 1 [] OTHER -> 2

\* A slot is empty, holds object `id`, or the forwarding marker `to` that
\* was written over the header of an object that has been copied.
Cell == [id : Objects \cup {Nil}, next : Addresses \cup {Nil},
         to : Addresses \cup {Nil}]
EmptyCell == [id |-> Nil, next |-> Nil, to |-> Nil]
FreePage == [gen |-> "Free", kind |-> "Free"]
EmptyRegion == [page |-> Nil, offset |-> 0]
NoPass == [cycle |-> "none", from |-> "G0", dest |-> "G0",
           scan |-> [p \in Pages |-> "Free"]]

Requests == [into : Roots, init : Roots \cup {Nil}, size : Sizes,
             attempt : 1 .. 3]

TypeOK ==
    /\ root \in [Roots -> Addresses \cup {Nil}]
    /\ heap \in [Addresses -> Cell]
    /\ page \in [Pages -> [gen : Gens \cup {"Free"},
                           kind : {"Free", "Small", "Head", "Cont"}]]
    /\ region \in [Gens -> [page : Pages \cup {Nil}, offset : 0 .. PageSlots]]
    /\ dirty \subseteq Addresses
    /\ pins \in [Addresses -> 0 .. MaxPins]
    /\ minors \in 0 .. G0Threshold
    /\ promotes \in 0 .. G1Threshold
    /\ request \in Requests \cup {Nil}
    /\ phase \in {"mutator", "mark", "chunk", "copy", "reclaim", "stalled",
                  "exhausted"}
    /\ pass \in [cycle : {"none", "minor", "full"}, from : Gens, dest : Gens,
                 scan : [Pages -> Gens \cup {"Free"}]]
    /\ marked \subseteq Addresses
    /\ pinned \subseteq Addresses
    /\ todo \subseteq Pages
    /\ chunk \subseteq Pages

Init ==
    /\ root = [r \in Roots |-> Nil]
    /\ heap = [a \in Addresses |-> EmptyCell]
    /\ page = [p \in Pages |-> FreePage]
    /\ region = [g \in Gens |-> EmptyRegion]
    /\ dirty = {}
    /\ pins = [a \in Addresses |-> 0]
    /\ minors = 0 /\ promotes = 0
    /\ request = Nil
    /\ phase = "mutator" /\ pass = NoPass
    /\ marked = {} /\ pinned = {} /\ todo = {} /\ chunk = {}

GenOf(a) == page[PageOf(a)].gen
PagesIn(g) == {p \in Pages : page[p].gen = g}
IsObject(a) == a \in Addresses /\ heap[a].id # Nil
ObjectsIn(g) == {a \in Addresses : IsObject(a) /\ GenOf(a) = g}
Least(S) == CHOOSE x \in S : \A y \in S : x <= y
NextField == [a \in Addresses |-> heap[a].next]
RootTargets == {root[r] : r \in Roots} \ {Nil}
ExplicitPins == {a \in Addresses : pins[a] > 0}

-----------------------------------------------------------------------------
\* Allocation (alloc.rs)

\* Where try_alloc_in_region puts a small object of generation g: after the
\* region's last one, else on the first free page, else nowhere.
Room(g, gated) ==
    LET r == region[g]
        atCap == gated /\ g = "G0" /\ Cardinality(PagesIn("G0")) >= YoungCap
    IN  IF r.page # Nil /\ r.offset < PageSlots
        THEN r.page * PageSlots + r.offset
        ELSE IF atCap \/ PagesIn("Free") = {} THEN Nil
        ELSE Least(PagesIn("Free")) * PageSlots

\* Memory after `c` is put at a; a page taken from the free list is zeroed.
Put(a, c) ==
    [b \in Addresses |->
        IF b = a THEN c
        ELSE IF PageOf(b) = PageOf(a) /\ GenOf(a) = "Free" THEN EmptyCell
        ELSE heap[b]]

\* The bookkeeping of a small allocation at a in generation g.
Bump(g, a) ==
    /\ page' = [page EXCEPT ![PageOf(a)] = [gen |-> g, kind |-> "Small"]]
    /\ region' = [region EXCEPT ![g] =
                     [page |-> PageOf(a), offset |-> (a % PageSlots) + 1]]

\* try_alloc_large takes the first run of LargeSpan free pages.
RunsOfFree ==
    {p \in Pages : p + LargeSpan <= NumPages
                   /\ p .. p + LargeSpan - 1 \subseteq PagesIn("Free")}

LargeRun(p, g) ==
    [q \in Pages |->
        IF q \notin p .. p + LargeSpan - 1 THEN page[q]
        ELSE [gen |-> g, kind |-> IF q = p THEN "Head" ELSE "Cont"]]

-----------------------------------------------------------------------------
\* The program

Running == phase = "mutator"

\* Identities that nothing in memory carries.
Fresh == Objects \ {heap[a].id : a \in Addresses}

\* The allocation in progress, or any one the program may now ask for
\* (bound: while there is an identity left for it).
Asked ==
    IF request # Nil THEN {request}
    ELSE IF Fresh = {} THEN {}
    ELSE [into : Roots, init : Roots \cup {Nil}, size : Sizes, attempt : {1}]

\* The caller of alloc_object installs the header and initialises the
\* payload from its rooted values, with plain stores: no card is marked.
Initialise(q, a) ==
    \E o \in Fresh :
        /\ heap' = Put(a, [id |-> o, to |-> Nil,
                           next |-> IF q.init = Nil THEN Nil
                                    ELSE root[q.init]])
        /\ root' = [root EXCEPT ![q.into] = a]
        /\ request' = Nil
        /\ UNCHANGED <<dirty, pins, counters, gcVars>>

\* alloc_raw: any of its three attempts in G0 succeeds.
AllocYoung ==
    /\ Running
    /\ \E q \in Asked :
          /\ q.size = "small"
          /\ Room("G0", TRUE) # Nil
          /\ Bump("G0", Room("G0", TRUE))
          /\ Initialise(q, Room("G0", TRUE))

NeedsRoom(q) == q.size = "large" \/ Room("G0", TRUE) = Nil

\* alloc_raw: after the full collection, a small object goes to Tenured.
AllocTenured ==
    /\ Running /\ request # Nil /\ request.attempt = 3
    /\ NeedsRoom(request) /\ request.size = "small"
    /\ Room("Tenured", TRUE) # Nil
    /\ Bump("Tenured", Room("Tenured", TRUE))
    /\ Initialise(request, Room("Tenured", TRUE))

\* alloc_raw: what fits on no page gets a run of its own, in Tenured.
AllocLarge ==
    /\ Running /\ request # Nil /\ request.attempt = 3
    /\ request.size = "large"
    /\ RunsOfFree # {}
    /\ LET p == Least(RunsOfFree) IN
          /\ page' = LargeRun(p, "Tenured")
          /\ Initialise(request, p * PageSlots)
    /\ UNCHANGED region

\* alloc_raw: panic "heap exhausted".  Without room in Tenured there is no
\* free page at all, so a small object fits on no run either.
Exhausted ==
    /\ Running /\ request # Nil /\ request.attempt = 3
    /\ NeedsRoom(request)
    /\ IF request.size = "large" THEN RunsOfFree = {}
                                 ELSE Room("Tenured", TRUE) = Nil
    /\ phase' = "exhausted"
    /\ UNCHANGED <<mutatorVars, heap, page, region, dirty, counters, pass,
                   marked, pinned, todo, chunk>>

Idle == Running /\ request = Nil

\* A root takes the value of another root, of a field, or Nil.
Move(r) ==
    /\ Idle
    /\ \E v \in {Nil} \cup RootTargets \cup {heap[a].next : a \in RootTargets} :
          root' = [root EXCEPT ![r] = v]
    /\ UNCHANGED <<pins, request, heap, page, region, dirty, counters, gcVars>>

\* mark_card_at; its mutant forgets the card.
NoCard(a) == UNCHANGED dirty
MarkCard(a) == dirty' = dirty \cup {a}

\* write_barrier: mark the card, then store.
Write(r) ==
    /\ Idle /\ root[r] # Nil
    /\ \E v \in {Nil} \cup RootTargets :
          heap' = [heap EXCEPT ![root[r]].next = v]
    /\ MarkCard(root[r])
    /\ UNCHANGED <<mutatorVars, page, region, counters, gcVars>>

\* pin: the handle names the cell; pins count.
Pin(r) ==
    /\ Idle /\ root[r] # Nil /\ IsObject(root[r])
    /\ pins[root[r]] < MaxPins
    /\ pins' = [pins EXCEPT ![root[r]] = @ + 1]
    /\ UNCHANGED <<root, request, heap, page, region, dirty, counters, gcVars>>

\* Mutant of Unpin: a handle is unpinned once more than it was pinned.
UnpinBlindly(a) ==
    /\ Idle
    /\ pins' = [pins EXCEPT ![a] = @ - 1]
    /\ UNCHANGED <<root, request, heap, page, region, dirty, counters, gcVars>>

\* unpin: a handle that is not in the map is left alone.
Unpin(a) ==
    /\ Idle /\ pins[a] > 0
    /\ pins' = [pins EXCEPT ![a] = @ - 1]
    /\ UNCHANGED <<root, request, heap, page, region, dirty, counters, gcVars>>

-----------------------------------------------------------------------------
\* Cycles (cycle.rs): which passes a collection makes

Generations == [p \in Pages |-> page[p].gen]
NoCards == [p \in Pages |-> "Free"]

StartPass(cycle, from, dest, scan) ==
    /\ phase' = "mark"
    /\ pass' = [cycle |-> cycle, from |-> from, dest |-> dest, scan |-> scan]
    /\ marked' = {} /\ pinned' = {} /\ todo' = {} /\ chunk' = {}

\* collect_minor: every G0Threshold-th one promotes.
BeginMinor ==
    /\ minors' = minors + 1
    /\ StartPass("minor", "G0",
                 IF minors + 1 >= G0Threshold THEN "G1" ELSE "G0",
                 Generations)
    /\ UNCHANGED <<root, pins, heap, page, region, dirty, promotes>>

\* collect_full, first pass.
BeginFull ==
    /\ StartPass("full", "G0", "G1", Generations)
    /\ UNCHANGED <<root, pins, heap, page, region, dirty, counters>>

\* Mutants of CollectForRoom: no full collection; no end to the attempts.
CollectOnce ==
    /\ Running
    /\ \E q \in Asked :
          /\ q.attempt < 3 /\ NeedsRoom(q)
          /\ request' = [q EXCEPT !.attempt = 3]
          /\ BeginMinor

CollectForever ==
    /\ Running
    /\ \E q \in Asked :
          /\ q.attempt < 3 /\ NeedsRoom(q)
          /\ request' = q
          /\ BeginMinor

\* alloc_raw: the first failure makes a minor collection, the second a full.
CollectForRoom ==
    /\ Running
    /\ \E q \in Asked :
          /\ q.attempt < 3 /\ NeedsRoom(q)
          /\ request' = [q EXCEPT !.attempt = @ + 1]
          /\ IF q.attempt = 1 THEN BeginMinor ELSE BeginFull

\* A collection that the program asks for.
CollectOnDemand ==
    /\ Idle
    /\ UNCHANGED request
    /\ BeginMinor \/ BeginFull

\* rebuild_cards_for_old_gens, then back to the program.
Finish ==
    /\ dirty' = {a \in Addresses : GenOf(a) # "Free" /\ heap[a].next # Nil}
    /\ phase' = "mutator" /\ pass' = NoPass
    /\ marked' = {} /\ pinned' = {} /\ chunk' = {}

\* The end of evacuate_with_roots, and what the cycle does next: a promoting
\* minor collection cascades every G1Threshold-th time, with the same
\* snapshot of the page table; a full one takes a snapshot for each of its
\* first two passes, and scans no cards in the third.
EndPass ==
    /\ phase = "chunk" /\ todo = {}
    /\ UNCHANGED <<mutatorVars, heap, page, region>>
    /\ IF pass.cycle = "minor" THEN
          IF pass.from = "G0" /\ pass.dest = "G1" THEN
             /\ minors' = 0
             /\ IF promotes + 1 >= G1Threshold
                THEN /\ promotes' = 0
                     /\ StartPass("minor", "G1", "Tenured", pass.scan)
                     /\ UNCHANGED dirty
                ELSE promotes' = promotes + 1 /\ Finish /\ UNCHANGED todo
          ELSE Finish /\ UNCHANGED <<counters, todo>>
       ELSE
          \/ /\ pass.from = "G0"
             /\ StartPass("full", "G1", "Tenured", Generations)
             /\ UNCHANGED <<counters, dirty>>
          \/ /\ pass.from = "G1"
             /\ StartPass("full", "Tenured", "Tenured", NoCards)
             /\ UNCHANGED <<counters, dirty>>
          \/ /\ pass.from = "Tenured"
             /\ minors' = 0 /\ promotes' = 0
             /\ Finish /\ UNCHANGED todo

-----------------------------------------------------------------------------
\* One pass (evac.rs, mark.rs, pin.rs)

\* scan_dirty_cards_as_roots: objects on dirty cards of pages which the
\* snapshot shows in a generation other than the one evacuated.
OnScannedCard ==
    {a \in dirty : IsObject(a) /\ pass.scan[PageOf(a)] \notin {"Free", pass.from}}

\* Mutant of MarkedFromRoots: the remembered set is not scanned.
MarkedFromRootsOnly ==
    Reachable(RootTargets, ObjectsIn(pass.from), NextField)

\* The internal mark: everything in from_gen that the program's roots or
\* the scanned cards reach through from_gen.  Large objects met here are
\* pinned: they never move.
MarkedFromRoots ==
    Reachable(RootTargets \cup {heap[a].next : a \in OnScannedCard},
              ObjectsIn(pass.from), NextField)

\* Large objects among S; the mutant pins none.
NoneIn(S) == {}
LargeIn(S) == {a \in S : page[PageOf(a)].kind = "Head"}

\* Mutant of PinnedCells: the durable pins are not applied.
PinnedLarge == LargeIn(MarkedFromRoots)

\* apply_pins_and_extend_mark: the durable pins join the pinned cells, in
\* any generation, and what pinned cells reach is marked too.  This marker
\* pins no large object.
PinnedCells ==
    LargeIn(MarkedFromRoots) \cup {a \in ExplicitPins : GenOf(a) # "Free"}

\* Mutant of MarkedFromPins: pinned cells are marked, their children not.
MarkedPins == PinnedCells \cap ObjectsIn(pass.from)

MarkedFromPins ==
    Reachable(PinnedCells \cup {heap[a].next : a \in PinnedCells},
              ObjectsIn(pass.from), NextField)

\* from_gen's allocation region is reset; the mutant leaves it open.
KeepRegion(g) == UNCHANGED region
ResetRegion(g) == region' = [region EXCEPT ![g] = EmptyRegion]

\* evacuate_with_roots up to the chunk loop.
Mark ==
    /\ phase = "mark"
    /\ marked' = MarkedFromRoots \cup MarkedFromPins
    /\ pinned' = PinnedCells
    /\ todo' = PagesIn(pass.from)
    /\ ResetRegion(pass.from)
    /\ phase' = "chunk"
    /\ UNCHANGED <<mutatorVars, heap, page, dirty, counters, pass, chunk>>

\* Mutant of ChunkSize: no floor.
BudgetOnly ==
    LET free == Cardinality(PagesIn("Free"))
        pending == Cardinality({PageOf(a) : a \in pinned} \cap PagesIn(pass.from))
    IN  IF free > pending THEN ((free - pending) * 7) \div 8 ELSE 0

\* How many pages the next chunk takes: 7/8 of the free pages that pinned
\* pages of from_gen do not keep from coming back, and at least one.
ChunkSize ==
    LET free == Cardinality(PagesIn("Free"))
        pending == Cardinality({PageOf(a) : a \in pinned} \cap PagesIn(pass.from))
        effective == IF free > pending THEN free - pending ELSE 0
        wanted == (effective * 7) \div 8
    IN  IF wanted > 1 THEN wanted ELSE 1

NextChunk ==
    /\ phase = "chunk" /\ todo # {}
    /\ LET n == ChunkSize IN
          chunk' = {p \in todo : Cardinality({q \in todo : q <= p}) <= n}
    /\ todo' = todo \ chunk'
    /\ phase' = "copy"
    /\ UNCHANGED <<mutatorVars, heap, page, region, dirty, counters, pass,
                   marked, pinned>>

\* phase1_copy_chunk: objects still to be copied.
ToCopy ==
    {a \in marked \ pinned :
        /\ PageOf(a) \in chunk /\ GenOf(a) = pass.from
        /\ page[PageOf(a)].kind = "Small"
        /\ IsObject(a)}

\* Copy the next one, leave a forwarding marker, mark the copy's card.
CopyObject ==
    /\ phase = "copy" /\ ToCopy # {}
    /\ LET src == Least(ToCopy)
           dst == Room(pass.dest, FALSE)
       IN  /\ dst # Nil
           /\ Bump(pass.dest, dst)
           /\ heap' = [Put(dst, heap[src]) EXCEPT
                          ![src] = [EmptyCell EXCEPT !.to = dst]]
           /\ dirty' = dirty \cup {dst}
    /\ UNCHANGED <<mutatorVars, counters, gcVars>>

\* GcStallError::mid_evac_oom: the panic leaves the heap as it is.
Stall ==
    /\ phase = "copy" /\ ToCopy # {}
    /\ Room(pass.dest, FALSE) = Nil
    /\ phase' = "stalled"
    /\ UNCHANGED <<mutatorVars, heap, page, region, dirty, counters, pass,
                   marked, pinned, todo, chunk>>

\* maybe_rewrite, maybe_rewrite_word
Follow(a) == IF a # Nil /\ heap[a].to # Nil THEN heap[a].to ELSE a

\* Mutant of Rewritten: the copies are not rewritten.
RewrittenInPlace == OnScannedCard \cup {a \in pinned : IsObject(a)}

\* phase2_rewrite: roots and scanned cards, dest_gen pages, pinned objects.
Rewritten ==
    OnScannedCard \cup ObjectsIn(pass.dest) \cup {a \in pinned : IsObject(a)}

Rewrite ==
    /\ phase = "copy" /\ ToCopy = {}
    /\ root' = [r \in Roots |-> Follow(root[r])]
    /\ LET visited == Rewritten IN
          heap' = [a \in Addresses |->
                      IF a \in visited
                      THEN [heap[a] EXCEPT !.next = Follow(@)] ELSE heap[a]]
    /\ phase' = "reclaim"
    /\ UNCHANGED <<pins, request, page, region, dirty, counters, pass, marked,
                   pinned, todo, chunk>>

\* The pages that phase3_reclaim treats as one with page p.
RunOf(p) == IF page[p].kind = "Head" THEN p .. p + LargeSpan - 1 ELSE {p}

\* has_pins; the mutant has eyes for large objects only.
HasLargePins(p) == \E a \in pinned : PageOf(a) = p /\ page[p].kind = "Head"
HasPins(p) == \E a \in pinned : PageOf(a) = p

\* phase3_reclaim: a page with pins joins dest_gen where it is, keeping only
\* its pinned objects; any other is zeroed and released.
Reclaim ==
    /\ phase = "reclaim"
    /\ LET heads == {p \in chunk : page[p].kind \in {"Small", "Head"}}
           kept == UNION {RunOf(p) : p \in {q \in heads : HasPins(q)}}
           released == UNION {RunOf(p) : p \in {q \in heads : ~HasPins(q)}}
       IN  /\ page' = [p \in Pages |->
                          IF p \in kept THEN [page[p] EXCEPT !.gen = pass.dest]
                          ELSE IF p \in released THEN FreePage ELSE page[p]]
           /\ heap' = [a \in Addresses |->
                          IF PageOf(a) \in released
                             \/ (PageOf(a) \in kept /\ a \notin pinned)
                          THEN EmptyCell ELSE heap[a]]
           /\ dirty' = dirty \cup {a \in pinned :
                          PageOf(a) \in kept /\ page[PageOf(a)].kind = "Small"}
    /\ chunk' = {}
    /\ phase' = "chunk"
    /\ UNCHANGED <<mutatorVars, region, counters, pass, marked, pinned, todo>>

-----------------------------------------------------------------------------
Collector ==
    \/ Mark \/ NextChunk \/ CopyObject \/ Stall \/ Rewrite \/ Reclaim
    \/ EndPass

Allocator ==
    \/ AllocYoung \/ AllocTenured \/ AllocLarge \/ CollectForRoom
    \/ Exhausted

Next ==
    \/ Collector \/ Allocator \/ CollectOnDemand
    \/ \E r \in Roots : Move(r) \/ Write(r) \/ Pin(r)
    \/ \E a \in Addresses : Unpin(a)

Spec == Init /\ [][Next]_vars

\* The collector and an allocation run to their end on the thread that
\* called them: nothing else runs until they return.
FairSpec == Spec /\ WF_vars(Collector) /\ WF_vars(request # Nil /\ Allocator)

-----------------------------------------------------------------------------
\* Properties

\* Allocation regions and free pages are in order, whatever the collector
\* has released, flipped or promoted: a region opens only a page of its own
\* generation, with nothing beyond its offset, and a free page holds nothing
\* that could be taken for an object (acquire_free_page, evacuate_with_roots'
\* region reset, phase3_reclaim).
AllocatorInOrder ==
    /\ \A g \in Gens :
          region[g].page # Nil =>
             /\ page[region[g].page] = [gen |-> g, kind |-> "Small"]
             /\ \A a \in Slots(region[g].page) :
                   a % PageSlots >= region[g].offset => heap[a] = EmptyCell
    /\ \A a \in Addresses : GenOf(a) = "Free" => heap[a] = EmptyCell

\* While the program runs, every pointer from an older object to a younger
\* one lies on a dirty card, so that the next minor collection finds it,
\* although new objects are initialised without the write barrier
\* (write_barrier, alloc_raw, rebuild_cards_for_old_gens).
OldToYoungIsCarded ==
    phase = "mutator" =>
       \A a \in Addresses :
          LET b == heap[a].next IN
          (b # Nil /\ GenOf(b) # "Free" /\ Age(GenOf(b)) < Age(GenOf(a)))
             => a \in dirty

\* While the program runs, every root, every pin and every pointer of every
\* object in memory, reachable or not, leads to an object, and no forwarding
\* marker is left: a dead object on an old page, which the cards keep as a
\* root of young objects, must not dangle either.
PointersValid ==
    phase = "mutator" =>
       /\ \A a \in RootTargets \cup ExplicitPins : IsObject(a)
       /\ \A a \in Addresses :
             /\ heap[a].next # Nil => IsObject(heap[a].next)
             /\ heap[a].to = Nil

\* The object that foreign code has pinned keeps its address from pin to the
\* last unpin, across any number of collections, chunks and page flips
\* (PageHeap::pin).
PinnedObjectsStay ==
    [][\A a \in Addresses :
          pins[a] > 0 /\ pins'[a] > 0 => heap'[a].id = heap[a].id]_vars

\* What is at a, or has been copied from a; Nil if nothing is.
Resolve(a) == IF a # Nil /\ heap[a].to # Nil THEN heap[a].to ELSE a
IdOf(a) == IF a = Nil THEN Nil ELSE heap[Resolve(a)].id

\* The graph of the objects in memory: what the roots hold, what each object
\* points to, what is pinned.
RootIds == [r \in Roots |-> IdOf(root[r])]
FieldIds ==
    [o \in Objects |->
        IF \E a \in Addresses : heap[a].id = o
        THEN IdOf(heap[CHOOSE a \in Addresses : heap[a].id = o].next)
        ELSE Nil]
PinnedIds == {heap[a].id : a \in ExplicitPins}

Graph == INSTANCE ObjectGraph WITH
    root <- RootIds, field <- FieldIds, pinned <- PinnedIds

\* The collector takes away only what is unreachable: copying, flipping,
\* rewriting and reclaiming, in all their phases, leave the graph of the
\* reachable objects as it is, and what the program does has the effect it
\* would have without a collector (evacuate_with_roots, Post-conditions).
ImplementsObjectGraph == Graph!Spec

\* "Walk every live page in from_gen / dest_gen and rewrite payload Words
\* whose targets carry a forwarding marker" (evacuate_with_roots, Phase 2):
\* when a chunk's pages are about to be reclaimed, no object still to be
\* copied in a later chunk refers to a forwarding marker.
ReferencesRewritten ==
    phase = "reclaim" =>
       \A a \in marked : heap[a].next # Nil => heap[heap[a].next].to = Nil

\* "Extend the mark from every pinned object so its transitive children
\* survive even when the pinned object isn't reachable from the caller's
\* precise roots" (apply_pins_and_extend_mark): what an explicitly pinned
\* object refers to is an object, whatever collections have run.
PinnedChildrenSurvive ==
    phase = "mutator" =>
       \A a \in ExplicitPins : heap[a].next # Nil => IsObject(heap[a].next)

\* "Every reachable-from-roots object in from_gen now lives in dest_gen"
\* (evacuate_with_roots, Post-conditions): reclaiming a chunk leaves every
\* object that a root refers to, copied by now or pinned, where it is.
RootsSurviveReclaim ==
    [][phase = "reclaim" =>
          \A a \in RootTargets : PageOf(a) \notin todo
                                   => heap'[a].id = heap[a].id]_vars

\* A collection that has begun ends, normally or with the stall panic: every
\* chunk takes a page, however few are free (evacuate_with_roots, "Floor at
\* 1 to guarantee progress").
CollectionEnds ==
    phase \notin {"mutator", "stalled", "exhausted"}
       ~> phase \in {"mutator", "stalled"}

\* An allocation that does not fit is answered with an object after at most
\* two collections, or with one of the two panics (alloc_raw).
AllocationAnswered ==
    request # Nil ~> request = Nil \/ phase \in {"stalled", "exhausted"}
=============================================================================
