-------------------------- MODULE ObjectGraph_proofs --------------------------
(***************************************************************************)
(* PageHeap implements ObjectGraph.  An object is known by its identity,   *)
(* which is at one address (UniqueIds, for objects of all sizes); a step   *)
(* of the collector is a Collect because it leaves every object that       *)
(* survives the pass with its field, and what is live survives (LiveIs).   *)
(* The hypotheses are those of HeapInvariance.                             *)
(***************************************************************************)
EXTENDS PageHeap_proofs

-----------------------------------------------------------------------------
(* The identities.                                                         *)

\* An object is at one address.
UniqueIds ==
    \A a, b \in Addresses : heap[a].id = heap[b].id /\ heap[a].id # Nil => a = b

\* A step that only takes objects away.
LEMMA UniqueLess ==
    ASSUME UniqueIds, \A b \in Addresses : heap'[b].id \in {heap[b].id, Nil}
    PROVE  UniqueIds'
BY DEF UniqueIds

\* What Put leaves in a slot.
LEMMA PutIs ==
    ASSUME NEW a, NEW c, NEW b \in Addresses
    PROVE  IF b = a THEN Put(a, c)[b] = c
           ELSE Put(a, c)[b] = heap[b] \/ Put(a, c)[b] = EmptyCell
BY DEF Put

\* An allocation gives an identity that nothing carries.
LEMMA UniqueInitialise ==
    ASSUME UniqueIds, NEW q, NEW a, Initialise(q, a)
    PROVE  UniqueIds'
<1>1. PICK n : n = IF q.init = Nil THEN Nil ELSE root[q.init]
  OBVIOUS
<1>2. PICK o \in Fresh : heap' = Put(a, [id |-> o, to |-> Nil, next |-> n])
  BY <1>1 DEF Initialise
<1>3. EmptyCell.id = Nil /\ [id |-> o, to |-> Nil, next |-> n].id = o
  BY DEF EmptyCell
<1>4. ASSUME NEW b \in Addresses
      PROVE  heap'[b].id \in IF b = a THEN {o} ELSE {heap[b].id, Nil}
  <2>1. CASE b = a
    <3>1. heap'[b] = [id |-> o, to |-> Nil, next |-> n]
      BY <1>2, <2>1, PutIs
    <3>2. QED
      BY <2>1, <3>1
  <2>2. CASE b # a
    <3>1. heap'[b] = heap[b] \/ heap'[b] = EmptyCell
      BY <1>2, <2>2, PutIs
    <3>2. QED
      BY <1>3, <2>2, <3>1
  <2>3. QED
    BY <2>1, <2>2
<1>5. \A b \in Addresses : o # heap[b].id
  BY DEF Fresh
<1>6. QED
  BY <1>4, <1>5 DEF UniqueIds

\* A copy takes the identity from its original.
LEMMA UniqueCopy ==
    ASSUME TypeOK, UniqueIds, CopyObject
    PROVE  UniqueIds'
<1>1. PICK src : src = Least(ToCopy)
  OBVIOUS
<1>2. PICK dst : dst = Room(pass.dest, FALSE)
  OBVIOUS
<1>3. PICK m : m = [EmptyCell EXCEPT !.to = dst]
  OBVIOUS
<1>4. m.id = Nil /\ EmptyCell.id = Nil
  BY <1>3 DEF EmptyCell
<1>5. heap' = [Put(dst, heap[src]) EXCEPT ![src] = m]
  BY <1>1, <1>2, <1>3 DEF CopyObject
<1>6. src \in Addresses
  <2>1. ToCopy \in SUBSET Nat /\ ToCopy # {} /\ ToCopy \subseteq Addresses
    BY AddressIs DEF ToCopy, TypeOK, CopyObject
  <2>2. \E q \in ToCopy : \A k \in ToCopy : q <= k
    BY <2>1, SomeLeast
  <2>3. QED
    BY <1>1, <2>1, <2>2 DEF Least
<1>7. DOMAIN Put(dst, heap[src]) = Addresses
  BY DEF Put
<1>8. heap'[src] = m /\ \A b \in Addresses : b # src => heap'[b] = Put(dst, heap[src])[b]
  BY <1>5, <1>6, <1>7 DEF Put
<1>9. ASSUME NEW b \in Addresses
      PROVE  heap'[b].id \in IF b = src THEN {Nil}
                             ELSE IF b = dst THEN {heap[src].id} ELSE {heap[b].id, Nil}
  <2>1. CASE b = src
    BY <1>4, <1>8, <2>1
  <2>2. CASE b # src /\ b = dst
    <3>1. heap'[b] = heap[src]
      BY <1>8, <2>2, PutIs
    <3>2. QED
      BY <2>2, <3>1
  <2>3. CASE b # src /\ b # dst
    <3>1. heap'[b] = heap[b] \/ heap'[b] = EmptyCell
      BY <1>8, <2>3, PutIs
    <3>2. QED
      BY <1>4, <2>3, <3>1
  <2>4. QED
    BY <2>1, <2>2, <2>3
<1>10. QED
  BY <1>6, <1>9 DEF UniqueIds

LEMMA UniqueStep ==
    ASSUME TypeOK, UniqueIds, [Next]_vars
    PROVE  UniqueIds'
<1>1. CASE AllocYoung \/ AllocTenured \/ AllocLarge
  <2>1. \E q, a : Initialise(q, a)
    BY <1>1 DEF AllocYoung, AllocTenured, AllocLarge
  <2>2. QED
    BY <2>1, UniqueInitialise
<1>2. CASE CopyObject
  BY <1>2, UniqueCopy
<1>3. CASE UNCHANGED heap
  BY <1>3, UniqueLess
<1>4. ASSUME NEW r \in Roots, Write(r) PROVE UniqueIds'
  <2>1. PICK v : heap' = [heap EXCEPT ![root[r]].next = v]
    BY <1>4 DEF Write
  <2>2. PICK s : s = root[r]
    OBVIOUS
  <2>3. heap' = [heap EXCEPT ![s].next = v]
    BY <2>1, <2>2
  <2>4. ASSUME NEW b \in Addresses PROVE heap'[b].id = heap[b].id
    <3>1. heap[b] \in Cell
      BY DEF TypeOK
    <3>2. QED
      BY <2>3, <3>1 DEF TypeOK, Cell
  <2>5. QED
    BY <2>4, UniqueLess
<1>5. CASE Rewrite
  <2>1. ASSUME NEW b \in Addresses PROVE heap'[b].id = heap[b].id
    <3>1. /\ heap[b] \in Cell
          /\ heap'[b] = IF b \in Rewritten THEN [heap[b] EXCEPT !.next = Follow(@)] ELSE heap[b]
      BY <1>5 DEF Rewrite, TypeOK
    <3>2. QED
      BY <3>1 DEF Cell
  <2>2. QED
    BY <2>1, UniqueLess
<1>6. CASE Reclaim
  <2>1. ASSUME NEW b \in Addresses PROVE heap'[b] \in {heap[b], EmptyCell}
    BY <1>6 DEF Reclaim
  <2>2. EmptyCell.id = Nil
    BY DEF EmptyCell
  <2>3. QED
    BY <2>1, <2>2, UniqueLess
<1>7. \/ UNCHANGED heap \/ AllocYoung \/ AllocTenured \/ AllocLarge
      \/ (\E r \in Roots : Write(r)) \/ CopyObject \/ Rewrite \/ Reclaim
  BY DEF Next, vars, Collector, Allocator, CollectForRoom, BeginMinor, BeginFull, Exhausted,
         CollectOnDemand, Move, Pin, Unpin, Mark, NextChunk, Stall, EndPass
<1>8. QED
  BY <1>1, <1>2, <1>3, <1>4, <1>5, <1>6, <1>7

\* An object is at one address, whatever its size and whatever is copied or
\* reclaimed: a copy and its original never both count as the object
\* (phase1_copy_chunk writes the forwarding marker over the header).
THEOREM IdsAreUnique == Spec => []UniqueIds
<1>1. Init => UniqueIds
  BY DEF Init, UniqueIds, EmptyCell
<1>2. Types /\ UniqueIds /\ [Next]_vars => UniqueIds'
  BY UniqueStep DEF Types
<1>3. QED
  BY <1>1, <1>2, Typing, PTL DEF Spec

-----------------------------------------------------------------------------
(* The graph of the objects.                                               *)

\* What an object refers to, read at its address.
FieldsAre ==
    \A a \in Addresses : heap[a].id # Nil =>
        heap[a].id \in Objects /\ FieldIds[heap[a].id] = IdOf(heap[a].next)

IdTypes ==
    /\ \A a \in Addresses \cup {Nil} : IdOf(a) \in Objects \cup {Nil}
    /\ FieldIds \in [Objects -> Objects \cup {Nil}]
    /\ RootIds \in [Roots -> Objects \cup {Nil}]
    /\ PinnedIds \subseteq Objects \cup {Nil}

\* Its identity leads to its only address.
LEMMA FieldIs == Types /\ UniqueIds => FieldsAre
<1> SUFFICES ASSUME Types, UniqueIds, NEW a \in Addresses, heap[a].id # Nil
             PROVE  /\ heap[a].id \in Objects
                    /\ FieldIds[heap[a].id] = IdOf(heap[a].next)
  BY DEF FieldsAre
<1>1. heap[a].id \in Objects
  <2>1. heap[a] \in Cell
    BY DEF Types, TypeOK
  <2>2. QED
    BY <2>1, CellsAre
<1>2. PICK o : o = heap[a].id
  OBVIOUS
<1>3. PICK b : b = CHOOSE c \in Addresses : heap[c].id = o
  OBVIOUS
<1>4. b \in Addresses /\ heap[b].id = o
  BY <1>2, <1>3
<1>5. b = a
  BY <1>2, <1>4 DEF UniqueIds
<1>6. FieldIds[o] = IdOf(heap[b].next)
  BY <1>1, <1>2, <1>3, <1>4 DEF FieldIds
<1>7. QED
  BY <1>1, <1>2, <1>5, <1>6

\* An identity that is nowhere in memory has no field.
NoFieldsAre ==
    \A o \in Objects : (\A a \in Addresses : heap[a].id # o) => FieldIds[o] = Nil

LEMMA NoFieldIs == NoFieldsAre
BY DEF NoFieldsAre, FieldIds

\* The mapping has the types of the abstract state.
LEMMA IdsTyped == Types => IdTypes
<1> SUFFICES ASSUME Types PROVE IdTypes
  OBVIOUS
<1>1. TypeOK /\ \A a \in Addresses : /\ heap[a].id \in Objects \cup {Nil}
                                     /\ heap[a].next \in Addresses \cup {Nil}
                                     /\ heap[a].to \in Addresses \cup {Nil}
  BY CellsAre DEF Types, TypeOK
<1>2. ASSUME NEW a \in Addresses \cup {Nil} PROVE IdOf(a) \in Objects \cup {Nil}
  <2>1. a # Nil => Resolve(a) \in Addresses
    BY <1>1 DEF Resolve
  <2>2. QED
    BY <1>1, <2>1 DEF IdOf
<1>3. FieldIds \in [Objects -> Objects \cup {Nil}]
  <2>1. ASSUME NEW o \in Objects, \E a \in Addresses : heap[a].id = o
        PROVE  IdOf(heap[CHOOSE a \in Addresses : heap[a].id = o].next) \in Objects \cup {Nil}
    <3>1. (CHOOSE a \in Addresses : heap[a].id = o) \in Addresses
      BY <2>1
    <3>2. QED
      BY <1>1, <1>2, <3>1
  <2>2. QED
    BY <2>1 DEF FieldIds
<1>4. RootIds \in [Roots -> Objects \cup {Nil}]
  BY <1>1, <1>2 DEF RootIds, TypeOK
<1>5. PinnedIds \subseteq Objects \cup {Nil}
  BY <1>1 DEF PinnedIds, ExplicitPins
<1>6. QED
  BY <1>2, <1>3, <1>4, <1>5 DEF IdTypes

\* The objects that this pass keeps.
SurvivingIds == {heap[a].id : a \in {b \in Addresses : Survives(b)}}

\* What is live is among them.
LEMMA LiveIs ==
    ASSUME Types, UniqueIds, HeapInv
    PROVE  Graph!Live \subseteq SurvivingIds
<1>0. TypeOK /\ SourceInv /\ PinInv /\ PointerInv
  BY DEF Types, HeapInv
<1>1. \A a \in Addresses : heap[a].id \in Objects \cup {Nil} /\ heap[a].next \in Addresses \cup {Nil}
  BY <1>0, CellsAre DEF TypeOK
<1>2. SurvivingIds \subseteq Objects
  BY <1>1 DEF SurvivingIds, Survives, IsObject
<1>3. Graph!Held \subseteq SurvivingIds
  <2>1. ASSUME NEW r \in Roots, RootIds[r] # Nil PROVE RootIds[r] \in SurvivingIds
    <3>1. root[r] # Nil /\ RootIds[r] = heap[Resolve(root[r])].id
      BY <2>1 DEF RootIds, IdOf
    <3>2. Survives(Resolve(root[r]))
      BY <1>0, <3>1 DEF PointerInv, RootTargets
    <3>3. QED
      BY <3>1, <3>2 DEF SurvivingIds, Survives, IsObject
  <2>2. QED
    BY <2>1 DEF Graph!Held
<1>4. PinnedIds \subseteq SurvivingIds
  <2>1. ASSUME NEW a \in ExplicitPins PROVE Survives(a)
    <3>1. CASE Evacuating
      BY <1>0, <3>1 DEF PinInv
    <3>2. CASE ~Evacuating
      BY <1>0, <3>2 DEF PinInv, SourceInv, Survives
    <3>3. QED
      BY <3>1, <3>2
  <2>2. QED
    BY <2>1 DEF PinnedIds, SurvivingIds, ExplicitPins
<1>5. ASSUME NEW o \in SurvivingIds, FieldIds[o] \in Objects
      PROVE  FieldIds[o] \in SurvivingIds
  <2>1. PICK a \in Addresses : Survives(a) /\ heap[a].id = o /\ heap[a].id # Nil
    BY DEF SurvivingIds, Survives, IsObject
  <2>2. FieldIds[o] = IdOf(heap[a].next)
    BY <2>1, FieldIs DEF FieldsAre
  <2>3. heap[a].next # Nil /\ FieldIds[o] = heap[Resolve(heap[a].next)].id
    BY <1>5, <2>2, NilIs DEF IdOf
  <2>4. Survives(Resolve(heap[a].next))
    BY <1>0, <2>1, <2>3 DEF PointerInv
  <2>5. QED
    BY <2>3, <2>4 DEF SurvivingIds, Survives, IsObject
<1>6. Graph!Live = Graph!Reachable(Graph!Held \cup PinnedIds, Objects, FieldIds)
  BY DEF Graph!Live
<1>7. QED
  BY <1>2, <1>3, <1>4, <1>5, <1>6 DEF Graph!Reachable

\* A step of the collector that leaves what the roots hold and what is pinned,
\* and every surviving object with what it refers to.
LEMMA CollectsIs ==
    ASSUME Types, Types', UniqueIds, UniqueIds', HeapInv,
           RootIds' = RootIds, PinnedIds' = PinnedIds,
           \A a \in Addresses : Survives(a) =>
              \E b \in Addresses : /\ heap'[b].id = heap[a].id
                                   /\ IdOf(heap[b].next)' = IdOf(heap[a].next)
    PROVE  Graph!Collect
<1>0. IdTypes' /\ FieldsAre /\ FieldsAre'
  BY FieldIs, IdsTyped, PTL
<1>1. FieldIds' \in [Objects -> Objects \cup {Nil}]
  BY <1>0 DEF IdTypes
<1>2. \A b \in Addresses : heap'[b].id # Nil =>
         FieldIds'[heap'[b].id] = IdOf(heap[b].next)'
  BY <1>0 DEF FieldsAre
<1>3. ASSUME NEW o \in Graph!Live PROVE FieldIds'[o] = FieldIds[o]
  <2>1. PICK a \in Addresses : Survives(a) /\ heap[a].id = o /\ o # Nil
    BY LiveIs DEF SurvivingIds, Survives, IsObject
  <2>2. PICK b \in Addresses : heap'[b].id = o /\ IdOf(heap[b].next)' = IdOf(heap[a].next)
    BY <2>1
  <2>3. FieldIds'[o] = IdOf(heap[b].next)' /\ FieldIds[o] = IdOf(heap[a].next)
    BY <1>0, <1>2, <2>1, <2>2 DEF FieldsAre
  <2>4. QED
    BY <2>2, <2>3
<1>4. QED
  BY <1>1, <1>3 DEF Graph!Collect

-----------------------------------------------------------------------------
(* The collector.                                                          *)

\* A copy: who referred to the original finds it through the marker.
LEMMA CopyRefines ==
    ASSUME Types, Types', UniqueIds, UniqueIds', HeapInv, CopyObject
    PROVE  Graph!Collect
<1>0. TypeOK /\ MarkerInv /\ PinInv /\ PointerInv
  BY DEF Types, HeapInv
<1>1. phase = "copy" /\ root' = root /\ pins' = pins
  BY CopyIs
<1>2. PICK src, dst \in Addresses :
         /\ src \notin pinned /\ PageOf(src) \in chunk
         /\ heap[src].id # Nil /\ heap[src].to = Nil
         /\ heap[dst] = EmptyCell /\ dst # src
         /\ \A b \in Addresses : b = dst \/ b = src \/ heap'[b] = heap[b]
         /\ heap'[dst] = heap[src] /\ heap'[src].to = dst
  BY CopyIs
<1>3. EmptyCell.id = Nil
  BY DEF EmptyCell
<1>4. ASSUME NEW n, n # Nil => n \in Addresses /\ Survives(Resolve(n))
      PROVE  IdOf(n)' = IdOf(n)
  <2>1. CASE n = Nil
    BY <2>1 DEF IdOf
  <2>2. CASE n = src
    <3>1. n # Nil /\ dst # Nil
      BY <2>2, NilIs
    <3>2. Resolve(n) = src /\ Resolve(n)' = dst
      BY <1>2, <2>2, <3>1 DEF Resolve
    <3>3. QED
      BY <1>2, <3>1, <3>2 DEF IdOf
  <2>3. CASE n # Nil /\ n # src
    <3>1. /\ n \in Addresses /\ Resolve(n) \in Addresses /\ heap[Resolve(n)].id # Nil
          /\ heap[n] # EmptyCell
          /\ n # Resolve(n) => PageOf(Resolve(n)) \notin Sources
      BY <1>4, <2>3, Resolved
    <3>2. n # dst /\ Resolve(n) # dst /\ Resolve(n) # src
      BY <1>2, <1>3, <2>3, <3>1 DEF Sources
    <3>3. heap'[n] = heap[n] /\ heap'[Resolve(n)] = heap[Resolve(n)]
      BY <1>2, <2>3, <3>1, <3>2
    <3>4. Resolve(n)' = Resolve(n)
      BY <3>3 DEF Resolve
    <3>5. QED
      BY <2>3, <3>3, <3>4 DEF IdOf
  <2>4. QED
    BY <2>1, <2>2, <2>3
<1>5. RootIds' = RootIds
  <2>1. ASSUME NEW r \in Roots PROVE IdOf(root[r])' = IdOf(root[r])
    <3>1. PICK n : n = root[r]
      OBVIOUS
    <3>2. n # Nil => n \in Addresses /\ Survives(Resolve(n))
      BY <1>0, <3>1 DEF TypeOK, PointerInv, RootTargets
    <3>3. IdOf(n)' = IdOf(n)
      BY <1>4, <3>2
    <3>4. QED
      BY <1>1, <3>1, <3>3 DEF IdOf, Resolve
  <2>2. QED
    BY <2>1 DEF RootIds
<1>6. PinnedIds' = PinnedIds
  <2>1. ExplicitPins' = ExplicitPins
    BY <1>1 DEF ExplicitPins
  <2>2. ASSUME NEW a \in ExplicitPins PROVE heap'[a] = heap[a]
    <3>1. a \in pinned /\ a \in Addresses /\ heap[a].id # Nil
      BY <1>0, <1>1 DEF PinInv, Evacuating, IsObject
    <3>2. QED
      BY <1>2, <1>3, <3>1
  <2>3. QED
    BY <2>1, <2>2 DEF PinnedIds
<1>7. ASSUME NEW a \in Addresses, Survives(a)
      PROVE  \E b \in Addresses : /\ heap'[b].id = heap[a].id
                                  /\ IdOf(heap[b].next)' = IdOf(heap[a].next)
  <2>1. PICK b : b = IF a = src THEN dst ELSE a
    OBVIOUS
  <2>2. b \in Addresses /\ heap'[b] = heap[a]
    BY <1>2, <1>3, <1>7, <2>1 DEF Survives, IsObject
  <2>3. PICK n : n = heap[a].next
    OBVIOUS
  <2>4. n \in Addresses \cup {Nil}
    BY <1>0, <2>3, CellsAre DEF TypeOK
  <2>5. n # Nil => n \in Addresses /\ Survives(Resolve(n))
    BY <1>0, <1>7, <2>3, <2>4 DEF PointerInv
  <2>6. IdOf(n)' = IdOf(n)
    BY <1>4, <2>5
  <2>7. IdOf(heap[b].next)' = IdOf(heap[a].next)
    BY <2>2, <2>3, <2>6 DEF IdOf, Resolve
  <2>8. QED
    BY <2>2, <2>7
<1>8. QED
  BY <1>5, <1>6, <1>7, CollectsIs

\* Rewriting follows markers to where they lead already.
LEMMA RewriteRefines ==
    ASSUME Types, Types', UniqueIds, UniqueIds', HeapInv, Rewrite
    PROVE  Graph!Collect
<1>0. TypeOK /\ MarkerInv /\ PinInv /\ PointerInv
  BY DEF Types, HeapInv
<1>1. /\ root' = [r \in Roots |-> Follow(root[r])] /\ pins' = pins
      /\ heap' = [a \in Addresses |->
                    IF a \in Rewritten THEN [heap[a] EXCEPT !.next = Follow(@)] ELSE heap[a]]
  BY DEF Rewrite
<1>2. ASSUME NEW a \in Addresses
      PROVE  /\ heap'[a].id = heap[a].id /\ heap'[a].to = heap[a].to
             /\ heap'[a].next = IF a \in Rewritten THEN Follow(heap[a].next) ELSE heap[a].next
  <2>1. heap[a] \in Cell
    BY <1>0 DEF TypeOK
  <2>2. QED
    BY <1>1, <2>1 DEF Cell
\* What was followed to a copy is the copy now.
<1>3. ASSUME NEW n, NEW m, n # Nil => n \in Addresses /\ Survives(Resolve(n)),
             m = n \/ m = Follow(n)
      PROVE  IdOf(m)' = IdOf(n)
  <2>1. CASE n = Nil
    <3>1. m = Nil
      BY <1>3, <2>1 DEF Follow
    <3>2. QED
      BY <2>1, <3>1 DEF IdOf
  <2>2. CASE n # Nil
    <3>1. /\ n \in Addresses /\ Resolve(n) \in Addresses /\ heap[Resolve(n)].id # Nil
          /\ heap[Resolve(n)].to = Nil
      BY <1>3, <2>2, Resolved
    <3>2. m # Nil /\ m \in Addresses
      BY <1>3, <2>2, <3>1, NilIs DEF Follow, Resolve
    <3>3. Resolve(m) = Resolve(n)
      BY <1>3, <2>2, <3>1, NilIs DEF Follow, Resolve
    <3>4. Resolve(m)' = Resolve(m)
      BY <1>2, <3>2 DEF Resolve
    <3>5. heap'[Resolve(n)].id = heap[Resolve(n)].id
      BY <1>2, <3>1
    <3>6. QED
      BY <2>2, <3>2, <3>3, <3>4, <3>5 DEF IdOf
  <2>3. QED
    BY <2>1, <2>2
<1>4. RootIds' = RootIds
  <2>1. ASSUME NEW r \in Roots PROVE IdOf(root[r])' = IdOf(root[r])
    <3>1. PICK n : n = root[r]
      OBVIOUS
    <3>2. PICK m : m = Follow(n)
      OBVIOUS
    <3>3. n # Nil => n \in Addresses /\ Survives(Resolve(n))
      BY <1>0, <3>1 DEF TypeOK, PointerInv, RootTargets
    <3>4. IdOf(m)' = IdOf(n)
      BY <1>3, <3>2, <3>3
    <3>5. root'[r] = m
      BY <1>1, <3>1, <3>2
    <3>6. QED
      BY <3>1, <3>4, <3>5 DEF IdOf, Resolve
  <2>2. QED
    BY <2>1 DEF RootIds
<1>5. PinnedIds' = PinnedIds
  BY <1>1, <1>2 DEF PinnedIds, ExplicitPins
<1>6. ASSUME NEW a \in Addresses, Survives(a)
      PROVE  IdOf(heap[a].next)' = IdOf(heap[a].next)
  <2>1. PICK n : n = heap[a].next
    OBVIOUS
  <2>2. PICK m : m = IF a \in Rewritten THEN Follow(n) ELSE n
    OBVIOUS
  <2>3. n \in Addresses \cup {Nil}
    BY <1>0, <2>1, CellsAre DEF TypeOK
  <2>4. n # Nil => n \in Addresses /\ Survives(Resolve(n))
    BY <1>0, <1>6, <2>1, <2>3 DEF PointerInv
  <2>5. IdOf(m)' = IdOf(n)
    BY <1>3, <2>2, <2>4
  <2>6. heap'[a].next = m
    BY <1>2, <2>1, <2>2
  <2>7. QED
    BY <2>1, <2>5, <2>6 DEF IdOf, Resolve
<1>7. QED
  BY <1>2, <1>4, <1>5, <1>6, CollectsIs

\* Reclaiming takes only what does not survive, and no marker in use.
LEMMA ReclaimRefines ==
    ASSUME Types, Types', UniqueIds, UniqueIds', HeapInv, Reclaim
    PROVE  Graph!Collect
<1>0. TypeOK /\ PinInv /\ PointerInv
  BY DEF Types, HeapInv
<1>1. phase = "reclaim" /\ root' = root /\ pins' = pins /\ Evacuating
  BY ReclaimIs DEF Evacuating
<1>2. \A a \in Addresses :
         /\ PageOf(a) \notin chunk => heap'[a] = heap[a]
         /\ PageOf(a) \in chunk /\ a \in pinned => heap'[a] = heap[a]
  BY ReclaimIs
<1>3. ASSUME NEW a, Survives(a) PROVE a \in Addresses /\ heap'[a] = heap[a]
  <2>1. a \in Addresses /\ IsObject(a) /\ (PageOf(a) \in chunk => a \in marked)
    BY <1>3 DEF Survives, IsObject, Sources
  <2>2. PageOf(a) \in chunk => a \in pinned
    BY <1>0, <1>1, <2>1 DEF PinInv
  <2>3. QED
    BY <1>2, <2>1, <2>2
<1>4. ASSUME NEW n, n # Nil => heap[n].to = Nil /\ Survives(Resolve(n))
      PROVE  IdOf(n)' = IdOf(n)
  <2>1. CASE n = Nil
    BY <2>1 DEF IdOf
  <2>2. CASE n # Nil
    <3>1. Resolve(n) = n /\ heap'[n] = heap[n]
      BY <1>3, <1>4, <2>2 DEF Resolve
    <3>2. Resolve(n)' = n
      BY <1>4, <2>2, <3>1 DEF Resolve
    <3>3. QED
      BY <2>2, <3>1, <3>2 DEF IdOf
  <2>3. QED
    BY <2>1, <2>2
<1>5. RootIds' = RootIds
  <2>1. ASSUME NEW r \in Roots PROVE IdOf(root[r])' = IdOf(root[r])
    <3>1. PICK n : n = root[r]
      OBVIOUS
    <3>2. n # Nil => heap[n].to = Nil /\ Survives(Resolve(n))
      BY <1>0, <1>1, <3>1 DEF PointerInv, RootTargets
    <3>3. IdOf(n)' = IdOf(n)
      BY <1>4, <3>2
    <3>4. QED
      BY <1>1, <3>1, <3>3 DEF IdOf, Resolve
  <2>2. QED
    BY <2>1 DEF RootIds
<1>6. PinnedIds' = PinnedIds
  <2>1. ExplicitPins' = ExplicitPins
    BY <1>1 DEF ExplicitPins
  <2>2. \A a \in ExplicitPins : heap'[a] = heap[a]
    BY <1>0, <1>1, <1>3 DEF PinInv
  <2>3. QED
    BY <2>1, <2>2 DEF PinnedIds
<1>7. ASSUME NEW a \in Addresses, Survives(a)
      PROVE  heap'[a].id = heap[a].id /\ IdOf(heap[a].next)' = IdOf(heap[a].next)
  <2>1. PICK n : n = heap[a].next
    OBVIOUS
  <2>2. n # Nil => heap[n].to = Nil /\ Survives(Resolve(n))
    BY <1>0, <1>1, <1>7, <2>1 DEF PointerInv
  <2>3. IdOf(n)' = IdOf(n) /\ heap'[a] = heap[a]
    BY <1>3, <1>4, <1>7, <2>2
  <2>4. QED
    BY <2>1, <2>3 DEF IdOf, Resolve
<1>8. QED
  BY <1>5, <1>6, <1>7, CollectsIs

-----------------------------------------------------------------------------
(* The program.                                                            *)

\* While it runs, an address leads to what is there.
LEMMA IdAtRest ==
    ASSUME Types, HeapInv, phase = "mutator"
    PROVE  /\ Consistent /\ TypeOK
           /\ \A a \in Addresses : /\ Resolve(a) = a /\ IdOf(a) = heap[a].id
                                   /\ heap[a].next \in Addresses \cup {Nil}
           /\ IdOf(Nil) = Nil
           /\ \A r \in Roots : root[r] # Nil =>
                 root[r] \in Addresses /\ IsObject(root[r]) /\ heap[root[r]].id = RootIds[r]
           /\ \A a \in RootTargets :
                 a \in Addresses /\ IsObject(a) /\ heap[a].id \in Graph!Held
<1>1. Consistent /\ TypeOK
  BY AtRest DEF Types
<1>2. \A a \in Addresses : /\ Resolve(a) = a /\ IdOf(a) = heap[a].id
                           /\ heap[a].next \in Addresses \cup {Nil}
  BY <1>1, CellsAre, NilIs DEF Consistent, Resolve, IdOf, TypeOK
<1>3. IdOf(Nil) = Nil
  BY DEF IdOf
<1>4. \A r \in Roots : root[r] # Nil =>
         root[r] \in Addresses /\ IsObject(root[r]) /\ heap[root[r]].id = RootIds[r]
  BY <1>1, <1>2 DEF Consistent, RootTargets, IsObject, RootIds
<1>5. \A a \in RootTargets : a \in Addresses /\ IsObject(a) /\ heap[a].id \in Graph!Held
  BY <1>4 DEF RootTargets, Graph!Held, IsObject
<1>6. QED
  BY <1>1, <1>2, <1>3, <1>4, <1>5

\* The field of one object has changed.
LEMMA FieldChanges ==
    ASSUME Types, Types', UniqueIds, UniqueIds',
           NEW a \in Addresses, NEW o \in Objects, NEW v,
           heap[a].id \in {o, Nil}, heap'[a].id = o, IdOf(heap[a].next)' = v,
           \A b \in Addresses : b # a =>
              /\ heap'[b].id = heap[b].id
              /\ heap[b].id # Nil => IdOf(heap[b].next)' = IdOf(heap[b].next)
    PROVE  FieldIds' = [FieldIds EXCEPT ![o] = v]
<1>0. IdTypes /\ IdTypes' /\ FieldsAre /\ FieldsAre' /\ NoFieldsAre /\ NoFieldsAre'
  BY FieldIs, IdsTyped, NoFieldIs, PTL
<1>1. FieldIds \in [Objects -> Objects \cup {Nil}] /\ FieldIds' \in [Objects -> Objects \cup {Nil}]
  BY <1>0 DEF IdTypes
<1>2. FieldIds'[o] = v
  BY <1>0, NilIs DEF FieldsAre
<1>3. ASSUME NEW p \in Objects, p # o PROVE FieldIds'[p] = FieldIds[p]
  <2>1. CASE \E b \in Addresses : heap[b].id = p
    <3>1. PICK b \in Addresses : heap[b].id = p
      BY <2>1
    <3>2. b # a /\ p # Nil
      BY <1>3, <3>1, NilIs
    <3>3. heap'[b].id = p /\ IdOf(heap[b].next)' = IdOf(heap[b].next)
      BY <3>1, <3>2
    <3>4. FieldIds'[p] = IdOf(heap[b].next)'
      BY <1>0, <3>2, <3>3 DEF FieldsAre
    <3>5. FieldIds[p] = IdOf(heap[b].next)
      BY <1>0, <3>1, <3>2 DEF FieldsAre
    <3>6. QED
      BY <3>3, <3>4, <3>5
  <2>2. CASE \A b \in Addresses : heap[b].id # p
    <3>1. \A b \in Addresses : heap'[b].id # p
      BY <1>3, <2>2
    <3>2. FieldIds'[p] = Nil
      BY <1>0, <3>1 DEF NoFieldsAre
    <3>3. FieldIds[p] = Nil
      BY <1>0, <2>2 DEF NoFieldsAre
    <3>4. QED
      BY <3>2, <3>3
  <2>3. QED
    BY <2>1, <2>2
<1>4. QED
  BY <1>1, <1>2, <1>3

\* An allocation: its identity is not live, nor anywhere in memory.
LEMMA AllocRefines ==
    ASSUME Types, Types', UniqueIds, UniqueIds', HeapInv, SmallOnly,
           AllocYoung \/ AllocTenured \/ AllocLarge
    PROVE  \E r \in Roots : Graph!New(r)
<1>0. phase = "mutator" /\ KindInv /\ AllocatorInOrder /\ SourceInv
  BY AllocIs DEF HeapInv
<1>1. PICK g \in Gens, q \in Requests, a \in {Room("G0", TRUE), Room("Tenured", TRUE)} :
         a = Room(g, TRUE) /\ a # Nil /\ Bump(g, a) /\ Initialise(q, a)
  BY AllocIs
<1>2. /\ a \in Addresses /\ heap[a] = EmptyCell
      /\ \A b \in Addresses : b # a => heap'[b] = heap[b]
  BY <1>0, <1>1, InitialiseIs
<1>3. PICK o \in Fresh, n \in {Nil} \cup RootTargets :
         /\ o \in Objects /\ o # Nil
         /\ heap'[a].id = o /\ heap'[a].to = Nil /\ heap'[a].next = n
  BY <1>0, <1>1, InitialiseIs
<1>4. root' = [root EXCEPT ![q.into] = a] /\ pins' = pins /\ q.into \in Roots
  BY <1>1 DEF Initialise, Requests
<1>5. /\ Consistent /\ TypeOK
      /\ \A b \in Addresses : /\ Resolve(b) = b /\ IdOf(b) = heap[b].id
                              /\ heap[b].next \in Addresses \cup {Nil}
      /\ IdOf(Nil) = Nil
      /\ \A b \in RootTargets : b \in Addresses /\ IsObject(b) /\ heap[b].id \in Graph!Held
  BY <1>0, IdAtRest
<1>6. EmptyCell.id = Nil /\ EmptyCell.next = Nil
  BY DEF EmptyCell
<1>7. ASSUME NEW b, b # Nil => IsObject(b) PROVE IdOf(b)' = IdOf(b)
  <2>1. CASE b = Nil
    BY <2>1 DEF IdOf
  <2>2. CASE b # Nil
    <3>1. b \in Addresses /\ b # a /\ heap'[b] = heap[b]
      BY <1>2, <1>6, <1>7, <2>2 DEF IsObject
    <3>2. Resolve(b)' = Resolve(b) /\ Resolve(b) = b
      BY <1>5, <3>1 DEF Resolve
    <3>3. QED
      BY <2>2, <3>1, <3>2 DEF IdOf
  <2>3. QED
    BY <2>1, <2>2
<1>8. IdOf(n) \in {Nil} \cup Graph!Held /\ (n # Nil => IsObject(n))
  BY <1>5
<1>9. FieldIds' = [FieldIds EXCEPT ![o] = IdOf(n)]
  <2>1. IdOf(heap[a].next)' = IdOf(n)
    <3>1. IdOf(n)' = IdOf(n)
      BY <1>7, <1>8
    <3>2. QED
      BY <1>3, <3>1 DEF IdOf, Resolve
  <2>2. ASSUME NEW b \in Addresses, b # a
        PROVE  heap'[b].id = heap[b].id /\ IdOf(heap[b].next)' = IdOf(heap[b].next)
    <3>1. PICK m : m = heap[b].next
      OBVIOUS
    <3>2. m # Nil => IsObject(m)
      BY <1>5, <3>1 DEF Consistent
    <3>3. IdOf(m)' = IdOf(m) /\ heap'[b] = heap[b]
      BY <1>2, <1>7, <2>2, <3>2
    <3>4. QED
      BY <3>1, <3>3 DEF IdOf, Resolve
  <2>3. heap[a].id \in {o, Nil}
    BY <1>2, <1>6
  <2>4. QED
    BY <1>2, <1>3, <2>1, <2>2, <2>3, FieldChanges
<1>10. RootIds' = [RootIds EXCEPT ![q.into] = o]
  <2>1. IdOf(a)' = o
    BY <1>2, <1>3, NilIs DEF IdOf, Resolve
  <2>2. ASSUME NEW r \in Roots
        PROVE  IdOf(root[r])' = IF r = q.into THEN o ELSE IdOf(root[r])
    <3>1. CASE r = q.into
      <4>1. root'[r] = a
        BY <1>4, <1>5, <3>1 DEF TypeOK
      <4>2. QED
        BY <2>1, <3>1, <4>1 DEF IdOf, Resolve
    <3>2. CASE r # q.into
      <4>1. PICK m : m = root[r]
        OBVIOUS
      <4>2. root'[r] = m
        BY <1>4, <1>5, <3>2, <4>1 DEF TypeOK
      <4>3. m # Nil => IsObject(m)
        BY <1>5, <4>1 DEF RootTargets
      <4>4. IdOf(m)' = IdOf(m)
        BY <1>7, <4>3
      <4>5. QED
        BY <3>2, <4>1, <4>2, <4>4 DEF IdOf, Resolve
    <3>3. QED
      BY <3>1, <3>2
  <2>3. QED
    BY <1>4, <2>2 DEF RootIds
<1>11. PinnedIds' = PinnedIds
  <2>1. ExplicitPins' = ExplicitPins
    BY <1>4 DEF ExplicitPins
  <2>2. \A b \in ExplicitPins : heap'[b] = heap[b]
    BY <1>2, <1>5, <1>6 DEF Consistent, IsObject
  <2>3. QED
    BY <2>1, <2>2 DEF PinnedIds
<1>12. o \notin Graph!Live
  BY LiveIs DEF SurvivingIds, Fresh
<1>13. QED
  BY <1>3, <1>4, <1>8, <1>9, <1>10, <1>11, <1>12 DEF Graph!New

\* A step that moves nothing and frees nothing: identities follow the roots.
LEMMA IdsStay ==
    ASSUME UNCHANGED heap
    PROVE  FieldIds' = FieldIds /\ \A a : IdOf(a)' = IdOf(a)
BY DEF FieldIds, IdOf, Resolve

\* A root takes what it takes in the graph.
LEMMA MoveRefines ==
    ASSUME Types, UniqueIds, HeapInv, NEW r \in Roots, Move(r)
    PROVE  Graph!Move(r)
<1>0. phase = "mutator" /\ heap' = heap /\ pins' = pins
  BY DEF Move, Idle, Running
<1>1. PICK v \in {Nil} \cup RootTargets \cup {heap[a].next : a \in RootTargets} :
         root' = [root EXCEPT ![r] = v]
  BY DEF Move
<1>2. /\ TypeOK /\ IdOf(Nil) = Nil
      /\ \A a \in Addresses : IdOf(a) = heap[a].id
      /\ \A a \in RootTargets : a \in Addresses /\ IsObject(a) /\ heap[a].id \in Graph!Held
  BY <1>0, IdAtRest
<1>3. IdOf(v) \in {Nil} \cup Graph!Held \cup {FieldIds[o] : o \in Graph!Held}
  <2>1. CASE v \in {Nil} \cup RootTargets
    BY <1>2, <2>1
  <2>2. ASSUME NEW a \in RootTargets, v = heap[a].next
        PROVE  IdOf(v) \in {FieldIds[o] : o \in Graph!Held}
    BY <1>2, <2>2, FieldIs DEF FieldsAre, IsObject
  <2>3. QED
    BY <2>1, <2>2
<1>4. RootIds' = [RootIds EXCEPT ![r] = IdOf(v)]
  <2>1. \A s \in Roots : root'[s] = IF s = r THEN v ELSE root[s]
    BY <1>1, <1>2 DEF TypeOK
  <2>2. \A a : IdOf(a)' = IdOf(a)
    BY <1>0, IdsStay
  <2>3. ASSUME NEW s \in Roots
        PROVE  IdOf(root[s])' = IF s = r THEN IdOf(v) ELSE IdOf(root[s])
    BY <1>0, <2>1 DEF IdOf, Resolve
  <2>4. QED
    BY <2>3 DEF RootIds
<1>5. FieldIds' = FieldIds /\ PinnedIds' = PinnedIds
  BY <1>0, IdsStay DEF PinnedIds, ExplicitPins
<1>6. QED
  BY <1>3, <1>4, <1>5 DEF Graph!Move

LEMMA WriteRefines ==
    ASSUME Types, Types', UniqueIds, UniqueIds', HeapInv, NEW r \in Roots, Write(r)
    PROVE  Graph!Write(r)
<1>0. phase = "mutator" /\ root' = root /\ pins' = pins /\ root[r] # Nil
  BY DEF Write, Idle, Running, mutatorVars
<1>1. PICK v \in {Nil} \cup RootTargets : heap' = [heap EXCEPT ![root[r]].next = v]
  BY DEF Write
<1>2. /\ TypeOK /\ Consistent /\ IdOf(Nil) = Nil
      /\ \A a \in Addresses : Resolve(a) = a /\ IdOf(a) = heap[a].id
      /\ \A a \in RootTargets : a \in Addresses /\ IsObject(a) /\ heap[a].id \in Graph!Held
      /\ root[r] \in Addresses /\ IsObject(root[r]) /\ heap[root[r]].id = RootIds[r]
  BY <1>0, IdAtRest
<1>3. PICK s : s = root[r]
  OBVIOUS
<1>4. s \in Addresses /\ heap[s].id = RootIds[r] /\ heap[s].id # Nil
  BY <1>2, <1>3 DEF IsObject
<1>5. /\ heap'[s].id = heap[s].id /\ heap'[s].to = heap[s].to /\ heap'[s].next = v
      /\ \A b \in Addresses : b # s => heap'[b] = heap[b]
  <2>1. heap[s] \in Cell
    BY <1>2, <1>4 DEF TypeOK
  <2>2. QED
    BY <1>1, <1>2, <1>3, <1>4, <2>1 DEF TypeOK, Cell
<1>6. \A b \in Addresses : heap'[b].id = heap[b].id /\ heap'[b].to = heap[b].to
  BY <1>5
<1>7. ASSUME NEW b \in Addresses \cup {Nil} PROVE IdOf(b)' = IdOf(b)
  <2>1. CASE b = Nil
    BY <2>1 DEF IdOf
  <2>2. CASE b \in Addresses
    <3>1. Resolve(b)' = b /\ Resolve(b) = b
      BY <1>2, <1>6, <2>2 DEF Resolve, Consistent
    <3>2. QED
      BY <1>6, <2>2, <3>1 DEF IdOf
  <2>3. QED
    BY <2>1, <2>2
<1>8. IdOf(v) \in {Nil} \cup Graph!Held /\ v \in Addresses \cup {Nil}
  BY <1>2
<1>9. FieldIds' = [FieldIds EXCEPT ![RootIds[r]] = IdOf(v)]
  <2>1. IdOf(heap[s].next)' = IdOf(v)
    <3>1. IdOf(v)' = IdOf(v)
      BY <1>7, <1>8
    <3>2. QED
      BY <1>5, <3>1 DEF IdOf, Resolve
  <2>2. ASSUME NEW b \in Addresses, b # s
        PROVE  heap'[b].id = heap[b].id /\ IdOf(heap[b].next)' = IdOf(heap[b].next)
    <3>1. PICK m : m = heap[b].next
      OBVIOUS
    <3>2. m \in Addresses \cup {Nil}
      BY <1>2, <3>1, CellsAre DEF TypeOK
    <3>3. IdOf(m)' = IdOf(m) /\ heap'[b] = heap[b]
      BY <1>5, <1>7, <2>2, <3>2
    <3>4. QED
      BY <3>1, <3>3 DEF IdOf, Resolve
  <2>3. PICK o : o = RootIds[r]
    OBVIOUS
  <2>4. o \in Objects /\ heap[s].id = o /\ heap'[s].id = o
    <3>1. heap[s] \in Cell
      BY <1>2, <1>4 DEF TypeOK
    <3>2. QED
      BY <1>4, <1>5, <2>3, <3>1, CellsAre
  <2>5. FieldIds' = [FieldIds EXCEPT ![o] = IdOf(v)]
    BY <1>4, <2>1, <2>2, <2>4, FieldChanges
  <2>6. QED
    BY <2>3, <2>5
<1>10. RootIds' = RootIds
  <2>1. ASSUME NEW t \in Roots PROVE IdOf(root[t])' = IdOf(root[t])
    <3>1. PICK m : m = root[t]
      OBVIOUS
    <3>2. IdOf(m)' = IdOf(m)
      BY <1>2, <1>7, <3>1 DEF TypeOK
    <3>3. QED
      BY <1>0, <3>1, <3>2 DEF IdOf, Resolve
  <2>2. QED
    BY <2>1 DEF RootIds
<1>11. PinnedIds' = PinnedIds
  BY <1>0, <1>6 DEF PinnedIds, ExplicitPins
<1>12. RootIds[r] # Nil
  BY <1>4
<1>13. QED
  BY <1>8, <1>9, <1>10, <1>11, <1>12 DEF Graph!Write

LEMMA PinRefines ==
    ASSUME Types, UniqueIds, HeapInv, NEW r \in Roots, Pin(r)
    PROVE  Graph!Pin(r)
<1>0. /\ phase = "mutator" /\ root' = root /\ heap' = heap /\ root[r] # Nil
      /\ pins' = [pins EXCEPT ![root[r]] = @ + 1]
  BY DEF Pin, Idle, Running
<1>1. /\ TypeOK /\ root[r] \in Addresses /\ IsObject(root[r])
      /\ heap[root[r]].id = RootIds[r]
  BY <1>0, IdAtRest
<1>2. PICK s : s = root[r]
  OBVIOUS
<1>3. \A a \in Addresses : pins[a] \in Nat /\ pins'[a] = IF a = s THEN pins[a] + 1 ELSE pins[a]
  BY <1>0, <1>1, <1>2, ThresholdAssumption DEF TypeOK
<1>4. ExplicitPins' = ExplicitPins \cup {s}
  BY <1>1, <1>2, <1>3 DEF ExplicitPins
<1>5. PinnedIds' = PinnedIds \cup {RootIds[r]}
  BY <1>0, <1>1, <1>2, <1>4 DEF PinnedIds
<1>6. RootIds' = RootIds /\ FieldIds' = FieldIds
  <2>1. \A t \in Roots : IdOf(root[t])' = IdOf(root[t])
    BY <1>0 DEF IdOf, Resolve
  <2>2. QED
    BY <1>0, <2>1, IdsStay DEF RootIds
<1>7. RootIds[r] # Nil
  BY <1>1 DEF IsObject
<1>8. QED
  BY <1>5, <1>6, <1>7 DEF Graph!Pin

\* Only the last unpin of an object is seen.
LEMMA UnpinRefines ==
    ASSUME Types, UniqueIds, HeapInv, NEW a \in Addresses, Unpin(a)
    PROVE  (\E o \in PinnedIds : Graph!Unpin(o)) \/ UNCHANGED <<RootIds, FieldIds, PinnedIds>>
<1>0. /\ phase = "mutator" /\ root' = root /\ heap' = heap /\ pins[a] > 0
      /\ pins' = [pins EXCEPT ![a] = @ - 1]
  BY DEF Unpin, Idle, Running
<1>1. TypeOK /\ \A b \in ExplicitPins : b \in Addresses /\ heap[b].id # Nil
  BY <1>0, IdAtRest DEF Consistent, IsObject
<1>2. \A b \in Addresses : pins[b] \in Nat /\ pins'[b] = IF b = a THEN pins[b] - 1 ELSE pins[b]
  BY <1>0, <1>1, ThresholdAssumption DEF TypeOK
<1>3. RootIds' = RootIds /\ FieldIds' = FieldIds
  <2>1. \A t \in Roots : IdOf(root[t])' = IdOf(root[t])
    BY <1>0 DEF IdOf, Resolve
  <2>2. QED
    BY <1>0, <2>1, IdsStay DEF RootIds
<1>4. CASE pins[a] = 1
  <2>1. ExplicitPins' = ExplicitPins \ {a} /\ a \in ExplicitPins
    BY <1>0, <1>2, <1>4 DEF ExplicitPins
  <2>2. \A b \in ExplicitPins : heap[b].id = heap[a].id => b = a
    BY <1>1 DEF UniqueIds
  <2>3. PinnedIds' = PinnedIds \ {heap[a].id} /\ heap[a].id \in PinnedIds
    BY <1>0, <2>1, <2>2 DEF PinnedIds
  <2>4. QED
    BY <1>3, <2>3 DEF Graph!Unpin
<1>5. CASE pins[a] # 1
  <2>1. ExplicitPins' = ExplicitPins
    BY <1>0, <1>2, <1>5 DEF ExplicitPins
  <2>2. QED
    BY <1>0, <1>3, <2>1 DEF PinnedIds
<1>6. QED
  BY <1>4, <1>5

-----------------------------------------------------------------------------
\* Every step maps to a step of ObjectGraph or leaves its state unchanged.
LEMMA StepRefines ==
    ASSUME Types, Types', UniqueIds, UniqueIds', HeapInv, SmallOnly, [Next]_vars
    PROVE  [Graph!Next]_Graph!vars
<1>1. CASE AllocYoung \/ AllocTenured \/ AllocLarge
  BY <1>1, AllocRefines DEF Graph!Next
<1>2. CASE CopyObject \/ Rewrite \/ Reclaim
  BY <1>2, CopyRefines, RewriteRefines, ReclaimRefines DEF Graph!Next
<1>3. ASSUME NEW r \in Roots, Move(r) \/ Write(r) \/ Pin(r) PROVE Graph!Next
  BY <1>3, MoveRefines, WriteRefines, PinRefines DEF Graph!Next
<1>4. ASSUME NEW a \in Addresses, Unpin(a) PROVE [Graph!Next]_Graph!vars
  BY <1>4, UnpinRefines DEF Graph!Next, Graph!vars
<1>5. CASE UNCHANGED <<root, heap, pins>>
  <2>1. \A r \in Roots : IdOf(root[r])' = IdOf(root[r])
    BY <1>5 DEF IdOf, Resolve
  <2>2. RootIds' = RootIds /\ FieldIds' = FieldIds /\ PinnedIds' = PinnedIds
    BY <1>5, <2>1, IdsStay DEF RootIds, PinnedIds, ExplicitPins
  <2>3. QED
    BY <2>2 DEF Graph!vars
<1>6. \/ UNCHANGED <<root, heap, pins>> \/ AllocYoung \/ AllocTenured \/ AllocLarge
      \/ (\E r \in Roots : Move(r) \/ Write(r) \/ Pin(r)) \/ (\E a \in Addresses : Unpin(a))
      \/ CopyObject \/ Rewrite \/ Reclaim
  BY DEF Next, vars, mutatorVars, Collector, Allocator, CollectForRoom, BeginMinor, BeginFull,
         Exhausted, CollectOnDemand, Mark, NextChunk, Stall, EndPass
<1>7. QED
  BY <1>1, <1>2, <1>3, <1>4, <1>5, <1>6

\* The initial states map to initial states of ObjectGraph.
LEMMA InitRefines == Init => Graph!Init
<1> SUFFICES ASSUME Init PROVE Graph!Init
  OBVIOUS
<1>1. /\ root = [r \in Roots |-> Nil] /\ ExplicitPins = {}
      /\ \A a \in Addresses : heap[a].id = Nil
  BY DEF Init, ExplicitPins, EmptyCell
<1>2. RootIds = [r \in Roots |-> Nil]
  BY <1>1 DEF RootIds, IdOf
<1>3. FieldIds = [o \in Objects |-> Nil]
  BY <1>1, NilIs DEF FieldIds
<1>4. PinnedIds = {}
  BY <1>1 DEF PinnedIds
<1>5. QED
  BY <1>2, <1>3, <1>4 DEF Graph!Init

\* The program sees a graph of objects and no collector: copying, rewriting,
\* flipping and reclaiming change only what nothing reaches.
THEOREM Refinement ==
    ASSUME SmallOnly
    PROVE  Spec /\ []ReferencesRewritten => ImplementsObjectGraph
<1>1. /\ Types /\ Types' /\ UniqueIds /\ UniqueIds' /\ HeapInv /\ [Next]_vars
            => [Graph!Next]_Graph!vars
  BY StepRefines
<1>2. QED
  BY <1>1, InitRefines, HeapInvariance, IdsAreUnique, PTL
     DEF Spec, ImplementsObjectGraph, Graph!Spec
=============================================================================
