-------------------------- MODULE Safepoint_proofs --------------------------
(***************************************************************************)
(* Proofs about Safepoint, for any number of mutators and of collections:  *)
(* typing, the three safety invariants and the refinement of StopTheWorld. *)
(*                                                                         *)
(* The safety properties rest on one inductive invariant, IInv.  Its core  *)
(* is ArrivedInv: whom the driver has passed stays arrived, and while the  *)
(* world is stopped a mutator whose epoch is current is asleep in park.    *)
(***************************************************************************)
EXTENDS Safepoint, TLAPS

\* The two mutexes are held in the states that say so, by one thread each.
LockInv ==
    /\ \A m \in Mutators : coordOwner = m <=> pc[m] \in Driving
    /\ \A m \in Mutators : heapOwner = m <=> pc[m] = "collecting"

\* The world stands still exactly while some driver has it stopped.
StopInv ==
    worldRunning <=> \A m \in Mutators : pc[m] \notin Stopped

\* What the flags of a thread's slot say about where the thread is.
SlotInv ==
    \A m \in Mutators :
        /\ active[m] => m \in registry
        /\ active[m] <=> pc[m] \notin {"out", "joining", "deregistering"}
        /\ active[m] /\ acting[m] =>
              pc[m] \in {"queued", "unwinding"} \cup (Driving \ {"releasing"})
        /\ active[m] /\ native[m] => pc[m] \in {"native", "leaving"}
        /\ lastEpoch[m] <= epoch

\* The driver's list is complete, whom it has passed has arrived and, in a
\* stopped world, a mutator at the current epoch is parked or the driver.
ArrivedInv ==
    /\ ~worldRunning =>
          \A m \in Mutators :
              active[m] /\ lastEpoch[m] = epoch =>
                  pc[m] = "parked" \/ pc[m] \in Stopped
    /\ \A d \in Mutators :
          /\ pc[d] \in Stopped \ {"listing"} =>
                \A m \in Mutators : active[m] => m \in others
          /\ pc[d] = "waiting" => \A m \in others \ todo : Arrived(m)
          /\ pc[d] \in {"locking", "collecting"} =>
                \A m \in others : Arrived(m)

\* Addresses are current: published roots, and the roots and TLABs of whoever
\* runs.
AddressInv ==
    ~poisoned =>
        \A m \in Mutators :
            /\ pc[m] \in Published =>
                  snapshot[m] = heapVersion /\ tlab[m] = NoSlab
            /\ pc[m] = "dylan" => roots[m] = heapVersion
            /\ pc[m] = "dylan" => tlab[m] \in {NoSlab, heapVersion}

IInv == TypeOK /\ LockInv /\ StopInv /\ SlotInv /\ ArrivedInv /\ AddressInv

-----------------------------------------------------------------------------
\* The protocol preserves the types of its state.
LEMMA TypeStep == TypeOK /\ [Next]_vars => TypeOK'
<1> SUFFICES ASSUME TypeOK, [Next]_vars PROVE TypeOK'
  OBVIOUS
<1>0. {"out", "joining", "dylan", "unwinding", "deregistering", "arriving",
       "parked", "entering", "native", "leaving", "claiming", "queued",
       "copying", "stopping", "listing", "waiting", "locking", "collecting",
       "resuming", "releasing"} \subseteq PC
  BY DEF PC, Published, Driving, Stopped
<1> USE DEF TypeOK, NoSlab, Goto, shared, inner, local, heap
<1>a. ASSUME NEW m \in Mutators, Reenter(m)
      PROVE  /\ pc' \in [Mutators -> PC]
             /\ lastEpoch' \in [Mutators -> Nat]
             /\ native' \in [Mutators -> BOOLEAN]
             /\ sleepers' \subseteq Mutators
  BY <1>0, <1>a DEF Reenter
<1>1. ASSUME NEW m \in Mutators, BeginRegister(m) PROVE TypeOK'
  BY <1>0, <1>1 DEF BeginRegister
<1>2. ASSUME NEW m \in Mutators, Refill(m) PROVE TypeOK'
  BY <1>0, <1>2 DEF Refill
<1>3. ASSUME NEW m \in Mutators, EnterNative(m) PROVE TypeOK'
  BY <1>0, <1>3 DEF EnterNative, LeaveDylan, PublishRoots, FlushTlabs
<1>4. ASSUME NEW m \in Mutators, LeaveNative(m) PROVE TypeOK'
  BY <1>4, <1>a DEF LeaveNative
<1>5. ASSUME NEW m \in Mutators, BeginDrive(m) PROVE TypeOK'
  BY <1>0, <1>5 DEF BeginDrive, MayDrive, LeaveDylan, PublishRoots, FlushTlabs
<1>6. ASSUME NEW m \in Mutators, Depart(m) PROVE TypeOK'
  BY <1>0, <1>6 DEF Depart
<1>7. ASSUME NEW m \in Mutators, WakeUnasked(m) PROVE TypeOK'
  BY <1>0, <1>7 DEF WakeUnasked
<1>8. ASSUME NEW m \in Mutators, Register(m) PROVE TypeOK'
  <2>1. CASE poisoned
    BY <1>0, <1>8, <2>1 DEF Register
  <2>2. CASE ~poisoned
    <3>1. /\ pc' \in [Mutators -> PC]
          /\ registry' \subseteq Mutators
      BY <1>0, <1>8, <2>2 DEF Register
    <3>2. /\ lastEpoch' \in [Mutators -> Nat]
          /\ snapshot' \in [Mutators -> Nat]
          /\ roots' \in [Mutators -> Nat]
          /\ tlab' \in [Mutators -> Nat \cup {NoSlab}]
      BY <1>8, <2>2 DEF Register
    <3>3. /\ active' \in [Mutators -> BOOLEAN]
          /\ acting' \in [Mutators -> BOOLEAN]
          /\ native' \in [Mutators -> BOOLEAN]
      BY <1>8, <2>2 DEF Register
    <3>4. QED
      BY <1>8, <2>2, <3>1, <3>2, <3>3 DEF Register
  <2>3. QED
    BY <2>1, <2>2
<1>9. ASSUME NEW m \in Mutators, Deregister(m) PROVE TypeOK'
  BY <1>0, <1>9 DEF Deregister
<1>10. ASSUME NEW m \in Mutators, Poll(m) PROVE TypeOK'
  BY <1>0, <1>10 DEF Poll, LeaveDylan, PublishRoots, FlushTlabs
<1>11. ASSUME NEW m \in Mutators, Announce(m) PROVE TypeOK'
  BY <1>0, <1>11 DEF Announce, ParkOrGo
<1>12. ASSUME NEW m \in Mutators, Awake(m) PROVE TypeOK'
  BY <1>0, <1>12 DEF Awake, Rearm, ParkOrGo
<1>13. ASSUME NEW m \in Mutators, CopyBack(m) PROVE TypeOK'
  BY <1>0, <1>13 DEF CopyBack
<1>14. ASSUME NEW m \in Mutators, AnnounceNative(m) PROVE TypeOK'
  BY <1>0, <1>14 DEF AnnounceNative
<1>15. ASSUME NEW m \in Mutators, LeaveAwake(m) PROVE TypeOK'
  BY <1>15, <1>a DEF LeaveAwake
<1>16. ASSUME NEW m \in Mutators, Claim(m) PROVE TypeOK'
  BY <1>0, <1>16 DEF Claim
<1>17. ASSUME NEW m \in Mutators, TakeCoord(m) PROVE TypeOK'
  BY <1>0, <1>17 DEF TakeCoord
<1>18. ASSUME NEW m \in Mutators, Stop(m) PROVE TypeOK'
  <2>1. epoch + 1 \in Nat
    OBVIOUS
  <2>2. lastEpoch' \in [Mutators -> Nat] /\ epoch' \in Nat
    BY <1>18, <2>1 DEF Stop
  <2>3. QED
    BY <1>0, <1>18, <2>2 DEF Stop
<1>19. ASSUME NEW m \in Mutators, ListMutators(m) PROVE TypeOK'
  BY <1>0, <1>19 DEF ListMutators
<1>20. ASSUME NEW m \in Mutators, AwaitArrivals(m) PROVE TypeOK'
  BY <1>0, <1>20 DEF AwaitArrivals
<1>21. ASSUME NEW m \in Mutators, LockHeap(m) PROVE TypeOK'
  BY <1>0, <1>21 DEF LockHeap
<1>22. ASSUME NEW m \in Mutators, Collect(m) PROVE TypeOK'
  BY <1>0, <1>22 DEF Collect, Visited
<1>23. ASSUME NEW m \in Mutators, CollectPanics(m) PROVE TypeOK'
  BY <1>0, <1>23 DEF CollectPanics
<1>24. ASSUME NEW m \in Mutators, Resume(m) PROVE TypeOK'
  BY <1>0, <1>24 DEF Resume
<1>25. ASSUME NEW m \in Mutators, ReleaseCoord(m) PROVE TypeOK'
  BY <1>0, <1>25 DEF ReleaseCoord
<1>26. CASE UNCHANGED vars
  BY <1>0, <1>26 DEF vars
<1>27. QED
  BY <1>1, <1>2, <1>3, <1>4, <1>5, <1>6, <1>7, <1>8, <1>9, <1>10, <1>11,
     <1>12, <1>13, <1>14, <1>15, <1>16, <1>17, <1>18, <1>19, <1>20, <1>21,
     <1>22, <1>23, <1>24, <1>25, <1>26
     DEF Next, Choose, Advance, Abandoned

\* Each of the two mutexes has at most the one owner its state names.
LEMMA LockStep ==
    TypeOK /\ LockInv /\ [Next]_vars => LockInv'
<1> SUFFICES ASSUME TypeOK, LockInv, [Next]_vars PROVE LockInv'
  OBVIOUS
<1> USE DEF TypeOK, LockInv, Goto, PC, Published, Driving, Stopped,
            shared, inner, local, heap
<1>1. ASSUME NEW m \in Mutators, BeginRegister(m) PROVE LockInv'
  BY NoneIsNoMutator, <1>1 DEF BeginRegister
<1>2. ASSUME NEW m \in Mutators, Register(m) PROVE LockInv'
  BY NoneIsNoMutator, <1>2 DEF Register
<1>3. ASSUME NEW m \in Mutators, Depart(m) PROVE LockInv'
  BY NoneIsNoMutator, <1>3 DEF Depart
<1>4. ASSUME NEW m \in Mutators, Deregister(m) PROVE LockInv'
  BY NoneIsNoMutator, <1>4 DEF Deregister
<1>5. ASSUME NEW m \in Mutators, Refill(m) PROVE LockInv'
  BY NoneIsNoMutator, <1>5 DEF Refill
<1>6. ASSUME NEW m \in Mutators, Poll(m) PROVE LockInv'
  BY NoneIsNoMutator, <1>6 DEF Poll, LeaveDylan, PublishRoots, FlushTlabs
<1>7. ASSUME NEW m \in Mutators, Announce(m) PROVE LockInv'
  BY NoneIsNoMutator, <1>7 DEF Announce, ParkOrGo
<1>8. ASSUME NEW m \in Mutators, Awake(m) PROVE LockInv'
  BY NoneIsNoMutator, <1>8 DEF Awake, Rearm, ParkOrGo
<1>9. ASSUME NEW m \in Mutators, CopyBack(m) PROVE LockInv'
  BY NoneIsNoMutator, <1>9 DEF CopyBack
<1>10. ASSUME NEW m \in Mutators, EnterNative(m) PROVE LockInv'
  BY NoneIsNoMutator, <1>10
     DEF EnterNative, LeaveDylan, PublishRoots, FlushTlabs
<1>11. ASSUME NEW m \in Mutators, AnnounceNative(m) PROVE LockInv'
  BY NoneIsNoMutator, <1>11 DEF AnnounceNative
<1>12. ASSUME NEW m \in Mutators, LeaveNative(m) PROVE LockInv'
  BY NoneIsNoMutator, <1>12 DEF LeaveNative, Reenter
<1>13. ASSUME NEW m \in Mutators, LeaveAwake(m) PROVE LockInv'
  BY NoneIsNoMutator, <1>13 DEF LeaveAwake, Reenter
<1>14. ASSUME NEW m \in Mutators, BeginDrive(m) PROVE LockInv'
  BY NoneIsNoMutator, <1>14
     DEF BeginDrive, MayDrive, LeaveDylan, PublishRoots, FlushTlabs
<1>15. ASSUME NEW m \in Mutators, Claim(m) PROVE LockInv'
  BY NoneIsNoMutator, <1>15 DEF Claim
<1>16. ASSUME NEW m \in Mutators, TakeCoord(m) PROVE LockInv'
  BY NoneIsNoMutator, <1>16 DEF TakeCoord
<1>17. ASSUME NEW m \in Mutators, Stop(m) PROVE LockInv'
  BY NoneIsNoMutator, <1>17 DEF Stop
<1>18. ASSUME NEW m \in Mutators, ListMutators(m) PROVE LockInv'
  BY NoneIsNoMutator, <1>18 DEF ListMutators
<1>19. ASSUME NEW m \in Mutators, AwaitArrivals(m) PROVE LockInv'
  BY NoneIsNoMutator, <1>19 DEF AwaitArrivals
<1>20. ASSUME NEW m \in Mutators, LockHeap(m) PROVE LockInv'
  BY NoneIsNoMutator, <1>20 DEF LockHeap
<1>21. ASSUME NEW m \in Mutators, Collect(m) PROVE LockInv'
  BY NoneIsNoMutator, <1>21 DEF Collect, Visited
<1>22. ASSUME NEW m \in Mutators, CollectPanics(m) PROVE LockInv'
  BY NoneIsNoMutator, <1>22 DEF CollectPanics
<1>23. ASSUME NEW m \in Mutators, Resume(m) PROVE LockInv'
  BY NoneIsNoMutator, <1>23 DEF Resume
<1>24. ASSUME NEW m \in Mutators, ReleaseCoord(m) PROVE LockInv'
  BY NoneIsNoMutator, <1>24 DEF ReleaseCoord
<1>25. ASSUME NEW m \in Mutators, WakeUnasked(m) PROVE LockInv'
  BY NoneIsNoMutator, <1>25 DEF WakeUnasked
<1>26. CASE UNCHANGED vars
  BY NoneIsNoMutator, <1>26 DEF vars
<1>27. QED
  BY <1>1, <1>2, <1>3, <1>4, <1>5, <1>6, <1>7, <1>8, <1>9, <1>10, <1>11,
     <1>12, <1>13, <1>14, <1>15, <1>16, <1>17, <1>18, <1>19, <1>20,
     <1>21, <1>22, <1>23, <1>24, <1>25, <1>26
     DEF Next, Choose, Advance, Abandoned

\* The world runs again only when no driver has it stopped.
LEMMA StopStep ==
    TypeOK /\ LockInv /\ StopInv /\ [Next]_vars => StopInv'
<1> SUFFICES ASSUME TypeOK, LockInv, StopInv, [Next]_vars PROVE StopInv'
  OBVIOUS
<1> USE DEF TypeOK, LockInv, StopInv, Goto, PC, Published, Driving, Stopped,
            shared, inner, local, heap
<1>1. ASSUME NEW m \in Mutators, BeginRegister(m) PROVE StopInv'
  BY <1>1 DEF BeginRegister
<1>2. ASSUME NEW m \in Mutators, Register(m) PROVE StopInv'
  BY <1>2 DEF Register
<1>3. ASSUME NEW m \in Mutators, Depart(m) PROVE StopInv'
  BY <1>3 DEF Depart
<1>4. ASSUME NEW m \in Mutators, Deregister(m) PROVE StopInv'
  BY <1>4 DEF Deregister
<1>5. ASSUME NEW m \in Mutators, Refill(m) PROVE StopInv'
  BY <1>5 DEF Refill
<1>6. ASSUME NEW m \in Mutators, Poll(m) PROVE StopInv'
  BY <1>6 DEF Poll, LeaveDylan, PublishRoots, FlushTlabs
<1>7. ASSUME NEW m \in Mutators, Announce(m) PROVE StopInv'
  BY <1>7 DEF Announce, ParkOrGo
<1>8. ASSUME NEW m \in Mutators, Awake(m) PROVE StopInv'
  BY <1>8 DEF Awake, Rearm, ParkOrGo
<1>9. ASSUME NEW m \in Mutators, CopyBack(m) PROVE StopInv'
  BY <1>9 DEF CopyBack
<1>10. ASSUME NEW m \in Mutators, EnterNative(m) PROVE StopInv'
  BY <1>10 DEF EnterNative, LeaveDylan, PublishRoots, FlushTlabs
<1>11. ASSUME NEW m \in Mutators, AnnounceNative(m) PROVE StopInv'
  BY <1>11 DEF AnnounceNative
<1>12. ASSUME NEW m \in Mutators, LeaveNative(m) PROVE StopInv'
  BY <1>12 DEF LeaveNative, Reenter
<1>13. ASSUME NEW m \in Mutators, LeaveAwake(m) PROVE StopInv'
  BY <1>13 DEF LeaveAwake, Reenter
<1>14. ASSUME NEW m \in Mutators, BeginDrive(m) PROVE StopInv'
  BY <1>14 DEF BeginDrive, MayDrive, LeaveDylan, PublishRoots, FlushTlabs
<1>15. ASSUME NEW m \in Mutators, Claim(m) PROVE StopInv'
  BY <1>15 DEF Claim
<1>16. ASSUME NEW m \in Mutators, TakeCoord(m) PROVE StopInv'
  BY <1>16 DEF TakeCoord
<1>17. ASSUME NEW m \in Mutators, Stop(m) PROVE StopInv'
  BY <1>17 DEF Stop
<1>18. ASSUME NEW m \in Mutators, ListMutators(m) PROVE StopInv'
  BY <1>18 DEF ListMutators
<1>19. ASSUME NEW m \in Mutators, AwaitArrivals(m) PROVE StopInv'
  BY <1>19 DEF AwaitArrivals
<1>20. ASSUME NEW m \in Mutators, LockHeap(m) PROVE StopInv'
  BY <1>20 DEF LockHeap
<1>21. ASSUME NEW m \in Mutators, Collect(m) PROVE StopInv'
  BY <1>21 DEF Collect, Visited
<1>22. ASSUME NEW m \in Mutators, CollectPanics(m) PROVE StopInv'
  BY <1>22 DEF CollectPanics
<1>23. ASSUME NEW m \in Mutators, Resume(m) PROVE StopInv'
  BY <1>23 DEF Resume
<1>24. ASSUME NEW m \in Mutators, ReleaseCoord(m) PROVE StopInv'
  BY <1>24 DEF ReleaseCoord
<1>25. ASSUME NEW m \in Mutators, WakeUnasked(m) PROVE StopInv'
  BY <1>25 DEF WakeUnasked
<1>26. CASE UNCHANGED vars
  BY <1>26 DEF vars
<1>27. QED
  BY <1>1, <1>2, <1>3, <1>4, <1>5, <1>6, <1>7, <1>8, <1>9, <1>10, <1>11,
     <1>12, <1>13, <1>14, <1>15, <1>16, <1>17, <1>18, <1>19, <1>20,
     <1>21, <1>22, <1>23, <1>24, <1>25, <1>26
     DEF Next, Choose, Advance, Abandoned

\* A slot's flags say where its thread is.
LEMMA SlotStep ==
    TypeOK /\ SlotInv /\ [Next]_vars => SlotInv'
<1> SUFFICES ASSUME TypeOK, SlotInv, [Next]_vars PROVE SlotInv'
  OBVIOUS
<1> USE DEF TypeOK, SlotInv, Goto, PC, Published, Driving, Stopped, shared,
            inner, local, heap
<1>1. ASSUME NEW m \in Mutators, BeginRegister(m) PROVE SlotInv'
  BY <1>1 DEF BeginRegister
<1>2. ASSUME NEW m \in Mutators, Register(m) PROVE SlotInv'
  BY <1>2 DEF Register
<1>3. ASSUME NEW m \in Mutators, Depart(m) PROVE SlotInv'
  BY <1>3 DEF Depart
<1>4. ASSUME NEW m \in Mutators, Deregister(m) PROVE SlotInv'
  BY <1>4 DEF Deregister
<1>5. ASSUME NEW m \in Mutators, Refill(m) PROVE SlotInv'
  BY <1>5 DEF Refill
<1>6. ASSUME NEW m \in Mutators, Poll(m) PROVE SlotInv'
  BY <1>6 DEF Poll, LeaveDylan, PublishRoots, FlushTlabs
<1>7. ASSUME NEW m \in Mutators, Announce(m) PROVE SlotInv'
  BY <1>7 DEF Announce, ParkOrGo
<1>8. ASSUME NEW m \in Mutators, Awake(m) PROVE SlotInv'
  BY <1>8 DEF Awake, Rearm, ParkOrGo
<1>9. ASSUME NEW m \in Mutators, CopyBack(m) PROVE SlotInv'
  BY <1>9 DEF CopyBack
<1>10. ASSUME NEW m \in Mutators, EnterNative(m) PROVE SlotInv'
  BY <1>10 DEF EnterNative, LeaveDylan, PublishRoots, FlushTlabs
<1>11. ASSUME NEW m \in Mutators, AnnounceNative(m) PROVE SlotInv'
  BY <1>11 DEF AnnounceNative
<1>12. ASSUME NEW m \in Mutators, LeaveNative(m) PROVE SlotInv'
  BY <1>12 DEF LeaveNative, Reenter
<1>13. ASSUME NEW m \in Mutators, LeaveAwake(m) PROVE SlotInv'
  BY <1>13 DEF LeaveAwake, Reenter
<1>14. ASSUME NEW m \in Mutators, BeginDrive(m) PROVE SlotInv'
  BY <1>14 DEF BeginDrive, MayDrive, LeaveDylan, PublishRoots, FlushTlabs
<1>15. ASSUME NEW m \in Mutators, Claim(m) PROVE SlotInv'
  BY <1>15 DEF Claim
<1>16. ASSUME NEW m \in Mutators, TakeCoord(m) PROVE SlotInv'
  BY <1>16 DEF TakeCoord
<1>17. ASSUME NEW m \in Mutators, Stop(m) PROVE SlotInv'
  BY <1>17 DEF Stop
<1>18. ASSUME NEW m \in Mutators, ListMutators(m) PROVE SlotInv'
  BY <1>18 DEF ListMutators
<1>19. ASSUME NEW m \in Mutators, AwaitArrivals(m) PROVE SlotInv'
  BY <1>19 DEF AwaitArrivals
<1>20. ASSUME NEW m \in Mutators, LockHeap(m) PROVE SlotInv'
  BY <1>20 DEF LockHeap
<1>21. ASSUME NEW m \in Mutators, Collect(m) PROVE SlotInv'
  BY <1>21 DEF Collect, Visited
<1>22. ASSUME NEW m \in Mutators, CollectPanics(m) PROVE SlotInv'
  BY <1>22 DEF CollectPanics
<1>23. ASSUME NEW m \in Mutators, Resume(m) PROVE SlotInv'
  BY <1>23 DEF Resume
<1>24. ASSUME NEW m \in Mutators, ReleaseCoord(m) PROVE SlotInv'
  BY <1>24 DEF ReleaseCoord
<1>25. ASSUME NEW m \in Mutators, WakeUnasked(m) PROVE SlotInv'
  BY <1>25 DEF WakeUnasked
<1>26. CASE UNCHANGED vars
  BY <1>26 DEF vars
<1>27. QED
  BY <1>1, <1>2, <1>3, <1>4, <1>5, <1>6, <1>7, <1>8, <1>9, <1>10, <1>11,
     <1>12, <1>13, <1>14, <1>15, <1>16, <1>17, <1>18, <1>19, <1>20,
     <1>21, <1>22, <1>23, <1>24, <1>25, <1>26
     DEF Next, Choose, Advance, Abandoned

\* Whoever has arrived stays arrived until the world runs again.
LEMMA ArrivedStep ==
    IInv /\ [Next]_vars => ArrivedInv'
<1> SUFFICES ASSUME IInv, [Next]_vars PROVE ArrivedInv'
  OBVIOUS
<1> USE DEF IInv, TypeOK, LockInv, StopInv, SlotInv, ArrivedInv, Arrived, Goto,
            PC, Published, Driving, Stopped, shared, inner, local, heap
<1>1. ASSUME NEW m \in Mutators, BeginRegister(m) PROVE ArrivedInv'
  BY <1>1 DEF BeginRegister
<1>2. ASSUME NEW m \in Mutators, Register(m) PROVE ArrivedInv'
  <2>1. CASE poisoned
    BY <1>2, <2>1 DEF Register
  <2>2. CASE ~poisoned
    <3>1. \A d \in Mutators : pc[d] \notin Driving
      BY <1>2, NoneIsNoMutator DEF Register
    <3>2. worldRunning /\ worldRunning'
      BY <1>2, <3>1 DEF Register
    <3>3. \A d \in Mutators : pc'[d] \notin Driving
      BY <1>2, <2>2, <3>1 DEF Register
    <3>4. QED
      BY <3>2, <3>3
  <2>3. QED
    BY <2>1, <2>2
<1>3. ASSUME NEW m \in Mutators, Depart(m) PROVE ArrivedInv'
  BY <1>3 DEF Depart
<1>4. ASSUME NEW m \in Mutators, Deregister(m) PROVE ArrivedInv'
  BY <1>4 DEF Deregister
<1>5. ASSUME NEW m \in Mutators, Refill(m) PROVE ArrivedInv'
  BY <1>5 DEF Refill
<1>6. ASSUME NEW m \in Mutators, Poll(m) PROVE ArrivedInv'
  BY <1>6 DEF Poll, LeaveDylan, PublishRoots, FlushTlabs
<1>7. ASSUME NEW m \in Mutators, Announce(m) PROVE ArrivedInv'
  BY <1>7 DEF Announce, ParkOrGo
<1>8. ASSUME NEW m \in Mutators, Awake(m) PROVE ArrivedInv'
  BY <1>8 DEF Awake, Rearm, ParkOrGo
<1>9. ASSUME NEW m \in Mutators, CopyBack(m) PROVE ArrivedInv'
  BY <1>9 DEF CopyBack
<1>10. ASSUME NEW m \in Mutators, EnterNative(m) PROVE ArrivedInv'
  BY <1>10 DEF EnterNative, LeaveDylan, PublishRoots, FlushTlabs
<1>11. ASSUME NEW m \in Mutators, AnnounceNative(m) PROVE ArrivedInv'
  BY <1>11 DEF AnnounceNative
<1>12. ASSUME NEW m \in Mutators, LeaveNative(m) PROVE ArrivedInv'
  BY <1>12 DEF LeaveNative, Reenter
<1>13. ASSUME NEW m \in Mutators, LeaveAwake(m) PROVE ArrivedInv'
  BY <1>13 DEF LeaveAwake, Reenter
<1>14. ASSUME NEW m \in Mutators, BeginDrive(m) PROVE ArrivedInv'
  BY <1>14 DEF BeginDrive, MayDrive, LeaveDylan, PublishRoots, FlushTlabs
<1>15. ASSUME NEW m \in Mutators, Claim(m) PROVE ArrivedInv'
  BY <1>15 DEF Claim
<1>16. ASSUME NEW m \in Mutators, TakeCoord(m) PROVE ArrivedInv'
  BY <1>16 DEF TakeCoord
<1>17. ASSUME NEW m \in Mutators, Stop(m) PROVE ArrivedInv'
  BY <1>17 DEF Stop
<1>18. ASSUME NEW m \in Mutators, ListMutators(m) PROVE ArrivedInv'
  BY <1>18 DEF ListMutators
<1>19. ASSUME NEW m \in Mutators, AwaitArrivals(m) PROVE ArrivedInv'
  BY <1>19 DEF AwaitArrivals
<1>20. ASSUME NEW m \in Mutators, LockHeap(m) PROVE ArrivedInv'
  BY <1>20 DEF LockHeap
<1>21. ASSUME NEW m \in Mutators, Collect(m) PROVE ArrivedInv'
  BY <1>21 DEF Collect, Visited
<1>22. ASSUME NEW m \in Mutators, CollectPanics(m) PROVE ArrivedInv'
  BY <1>22 DEF CollectPanics
<1>23. ASSUME NEW m \in Mutators, Resume(m) PROVE ArrivedInv'
  BY <1>23 DEF Resume
<1>24. ASSUME NEW m \in Mutators, ReleaseCoord(m) PROVE ArrivedInv'
  BY <1>24 DEF ReleaseCoord
<1>25. ASSUME NEW m \in Mutators, WakeUnasked(m) PROVE ArrivedInv'
  BY <1>25 DEF WakeUnasked
<1>26. CASE UNCHANGED vars
  BY <1>26 DEF vars
<1>27. QED
  BY <1>1, <1>2, <1>3, <1>4, <1>5, <1>6, <1>7, <1>8, <1>9, <1>10, <1>11,
     <1>12, <1>13, <1>14, <1>15, <1>16, <1>17, <1>18, <1>19, <1>20,
     <1>21, <1>22, <1>23, <1>24, <1>25, <1>26
     DEF Next, Choose, Advance, Abandoned

\* A collection leaves no address behind that anybody will use.
LEMMA AddressStep ==
    IInv /\ [Next]_vars => AddressInv'
<1> SUFFICES ASSUME IInv, [Next]_vars PROVE AddressInv'
  OBVIOUS
<1> USE DEF IInv, TypeOK, LockInv, StopInv, SlotInv, ArrivedInv, AddressInv,
            Arrived, NoSlab, Goto, PC, Published, Driving, Stopped, shared,
            inner, local, heap
<1>1. ASSUME NEW m \in Mutators, BeginRegister(m) PROVE AddressInv'
  BY <1>1 DEF BeginRegister
<1>2. ASSUME NEW m \in Mutators, Register(m) PROVE AddressInv'
  BY <1>2 DEF Register
<1>3. ASSUME NEW m \in Mutators, Depart(m) PROVE AddressInv'
  BY <1>3 DEF Depart
<1>4. ASSUME NEW m \in Mutators, Deregister(m) PROVE AddressInv'
  BY <1>4 DEF Deregister
<1>5. ASSUME NEW m \in Mutators, Refill(m) PROVE AddressInv'
  BY <1>5 DEF Refill
<1>6. ASSUME NEW m \in Mutators, Poll(m) PROVE AddressInv'
  BY <1>6 DEF Poll, LeaveDylan, PublishRoots, FlushTlabs
<1>7. ASSUME NEW m \in Mutators, Announce(m) PROVE AddressInv'
  BY <1>7 DEF Announce, ParkOrGo
<1>8. ASSUME NEW m \in Mutators, Awake(m) PROVE AddressInv'
  BY <1>8 DEF Awake, Rearm, ParkOrGo
<1>9. ASSUME NEW m \in Mutators, CopyBack(m) PROVE AddressInv'
  BY <1>9 DEF CopyBack
<1>10. ASSUME NEW m \in Mutators, EnterNative(m) PROVE AddressInv'
  BY <1>10 DEF EnterNative, LeaveDylan, PublishRoots, FlushTlabs
<1>11. ASSUME NEW m \in Mutators, AnnounceNative(m) PROVE AddressInv'
  BY <1>11 DEF AnnounceNative
<1>12. ASSUME NEW m \in Mutators, LeaveNative(m) PROVE AddressInv'
  BY <1>12 DEF LeaveNative, Reenter
<1>13. ASSUME NEW m \in Mutators, LeaveAwake(m) PROVE AddressInv'
  BY <1>13 DEF LeaveAwake, Reenter
<1>14. ASSUME NEW m \in Mutators, BeginDrive(m) PROVE AddressInv'
  BY <1>14 DEF BeginDrive, MayDrive, LeaveDylan, PublishRoots, FlushTlabs
<1>15. ASSUME NEW m \in Mutators, Claim(m) PROVE AddressInv'
  BY <1>15 DEF Claim
<1>16. ASSUME NEW m \in Mutators, TakeCoord(m) PROVE AddressInv'
  BY <1>16 DEF TakeCoord
<1>17. ASSUME NEW m \in Mutators, Stop(m) PROVE AddressInv'
  BY <1>17 DEF Stop
<1>18. ASSUME NEW m \in Mutators, ListMutators(m) PROVE AddressInv'
  BY <1>18 DEF ListMutators
<1>19. ASSUME NEW m \in Mutators, AwaitArrivals(m) PROVE AddressInv'
  BY <1>19 DEF AwaitArrivals
<1>20. ASSUME NEW m \in Mutators, LockHeap(m) PROVE AddressInv'
  BY <1>20 DEF LockHeap
<1>21. ASSUME NEW m \in Mutators, Collect(m) PROVE AddressInv'
  BY <1>21 DEF Collect, Visited
<1>22. ASSUME NEW m \in Mutators, CollectPanics(m) PROVE AddressInv'
  BY <1>22 DEF CollectPanics
<1>23. ASSUME NEW m \in Mutators, Resume(m) PROVE AddressInv'
  BY <1>23 DEF Resume
<1>24. ASSUME NEW m \in Mutators, ReleaseCoord(m) PROVE AddressInv'
  BY <1>24 DEF ReleaseCoord
<1>25. ASSUME NEW m \in Mutators, WakeUnasked(m) PROVE AddressInv'
  BY <1>25 DEF WakeUnasked
<1>26. CASE UNCHANGED vars
  BY <1>26 DEF vars
<1>27. QED
  BY <1>1, <1>2, <1>3, <1>4, <1>5, <1>6, <1>7, <1>8, <1>9, <1>10, <1>11,
     <1>12, <1>13, <1>14, <1>15, <1>16, <1>17, <1>18, <1>19, <1>20,
     <1>21, <1>22, <1>23, <1>24, <1>25, <1>26
     DEF Next, Choose, Advance, Abandoned

\* The inductive invariant holds before any thread has registered.
LEMMA InitIInv == Init => IInv
<1> SUFFICES ASSUME Init PROVE IInv
  OBVIOUS
<1> USE DEF Init, PC, Published, Driving, Stopped, NoSlab
<1>1. TypeOK
  BY DEF TypeOK
<1>2. LockInv /\ StopInv
  BY NoneIsNoMutator DEF LockInv, StopInv
<1>3. SlotInv /\ ArrivedInv /\ AddressInv
  BY DEF SlotInv, ArrivedInv, AddressInv, Arrived
<1>4. QED
  BY <1>1, <1>2, <1>3 DEF IInv

\* Every step of the protocol preserves the inductive invariant.
LEMMA StepIInv == IInv /\ [Next]_vars => IInv'
  BY TypeStep, LockStep, StopStep, SlotStep, ArrivedStep, AddressStep
     DEF IInv

\* The inductive invariant holds throughout.
THEOREM Invariance == Spec => []IInv
  BY InitIInv, StepIInv, PTL DEF Spec

-----------------------------------------------------------------------------
\* Every variable of the protocol keeps its type.
THEOREM TypeCorrectness == Spec => []TypeOK
<1>1. IInv => TypeOK
  BY DEF IInv
<1>2. QED
  BY <1>1, Invariance, PTL

\* Once the driver has seen every mutator arrive, no other thread runs Dylan
\* code, reads its snapshot back, or is about to publish its roots.
LEMMA ArrivalStopsTheWorld ==
    ASSUME IInv, NEW d \in Mutators, pc[d] \in {"locking", "collecting"},
           NEW m \in Mutators
    PROVE  pc[m] \notin {"dylan", "copying", "arriving", "entering", "claiming"}
<1> USE DEF IInv, Driving, Stopped
<1>1. CASE ~active[m]
  BY <1>1 DEF SlotInv
<1>2. CASE active[m]
  <2>1. m \in others /\ Arrived(m)
    BY <1>2 DEF ArrivedInv
  <2>2. CASE acting[m] \/ native[m]
    BY <1>2, <2>2 DEF SlotInv
  <2>3. CASE lastEpoch[m] = epoch
    BY <1>2, <2>3 DEF ArrivedInv, StopInv
  <2>4. lastEpoch[m] >= epoch => lastEpoch[m] = epoch
    BY DEF SlotInv, TypeOK
  <2>5. QED
    BY <1>2, <2>1, <2>2, <2>3, <2>4 DEF Arrived
<1>3. QED
  BY <1>1, <1>2

\* While one thread's collector owns the heap, no other thread runs Dylan
\* code or reads its snapshot back.
THEOREM CollectorIsAlone == Spec => []WorldStopped
<1>1. IInv => WorldStopped
  BY ArrivalStopsTheWorld DEF WorldStopped
<1>2. QED
  BY <1>1, Invariance, PTL

\* No thread in Dylan code holds an address from before the latest collection.
THEOREM AddressesAreCurrent == Spec => []NoStaleAddress
<1>1. IInv => NoStaleAddress
  BY DEF IInv, AddressInv, NoStaleAddress
<1>2. QED
  BY <1>1, Invariance, PTL

\* The roots a stopped thread has published are part of every collection.
THEOREM EveryCycleVisitsRoots == Spec => []RootsVisitedEveryCycle
<1>1. IInv => RootsVisitedEveryCycle
  BY DEF IInv, AddressInv, RootsVisitedEveryCycle
<1>2. QED
  BY <1>1, Invariance, PTL

-----------------------------------------------------------------------------
\* The initial states map to initial states of StopTheWorld.
LEMMA InitRefines == Init => STW!Init
  BY NoneIsNoMutator DEF Init, STW!Init, Mode

\* Every step maps to a step of StopTheWorld or leaves its state unchanged.
LEMMA StepRefines == IInv /\ [Next]_vars => [STW!Next]_STW!vars
<1> SUFFICES ASSUME IInv, [Next]_vars PROVE [STW!Next]_STW!vars
  OBVIOUS
<1> DEFINE Modes == [m \in Mutators |-> Mode(m)]
           Idle == UNCHANGED <<Modes, roots, heapVersion, heapOwner, poisoned>>
<1> USE DEF IInv, TypeOK, Goto, Mode, shared, inner, local, heap
<1>1. ASSUME NEW m \in Mutators, BeginRegister(m) PROVE Idle
  BY <1>1 DEF BeginRegister
<1>2. ASSUME NEW m \in Mutators, Register(m) PROVE STW!Enter(m) \/ Idle
  <2>1. CASE poisoned
    BY <1>2, <2>1 DEF Register
  <2>2. CASE ~poisoned
    <3>1. heapOwner = None
      BY <1>2 DEF Register, LockInv, Driving, Stopped
    <3>2. roots' = [roots EXCEPT ![m] = heapVersion]
      BY <1>2, <2>2 DEF Register
    <3>3. Modes[m] # "heap" /\ Modes' = [Modes EXCEPT ![m] = "heap"]
      BY <1>2, <2>2 DEF Register
    <3>4. UNCHANGED <<heapVersion, heapOwner, poisoned>>
      BY <1>2 DEF Register
    <3>5. QED
      BY <3>1, <3>2, <3>3, <3>4 DEF STW!Enter
  <2>3. QED
    BY <2>1, <2>2
<1>3. ASSUME NEW m \in Mutators, Depart(m) PROVE STW!Exit(m) \/ Idle
  BY <1>3 DEF Depart, STW!Exit, LockInv
<1>4. ASSUME NEW m \in Mutators, Deregister(m) PROVE Idle
  BY <1>4 DEF Deregister
<1>5. ASSUME NEW m \in Mutators, Refill(m) PROVE STW!Exit(m) \/ Idle
  BY <1>5 DEF Refill, STW!Exit, LockInv
<1>6. ASSUME NEW m \in Mutators, Poll(m) PROVE STW!Exit(m) \/ Idle
  BY <1>6 DEF Poll, LeaveDylan, PublishRoots, FlushTlabs, STW!Exit, LockInv
<1>7. ASSUME NEW m \in Mutators, Announce(m) PROVE Idle
  BY <1>7 DEF Announce, ParkOrGo
<1>8. ASSUME NEW m \in Mutators, Awake(m) PROVE Idle
  BY <1>8 DEF Awake, Rearm, ParkOrGo
<1>9. ASSUME NEW m \in Mutators, CopyBack(m) PROVE STW!Enter(m)
  <2>1. heapOwner = None
    BY <1>9, ArrivalStopsTheWorld DEF CopyBack, LockInv
  <2>2. poisoned \/ snapshot[m] = heapVersion
    BY <1>9 DEF CopyBack, AddressInv, Published
  <2>3. roots'[m] = snapshot[m] /\ Modes' = [Modes EXCEPT ![m] = "heap"]
    BY <1>9 DEF CopyBack
  <2>4. QED
    BY <1>9, <2>1, <2>2, <2>3 DEF CopyBack, STW!Enter
<1>10. ASSUME NEW m \in Mutators, EnterNative(m) PROVE STW!Exit(m) \/ Idle
  BY <1>10
     DEF EnterNative, LeaveDylan, PublishRoots, FlushTlabs, STW!Exit, LockInv
<1>11. ASSUME NEW m \in Mutators, AnnounceNative(m) PROVE Idle
  BY <1>11 DEF AnnounceNative
<1>12. ASSUME NEW m \in Mutators, LeaveNative(m) PROVE Idle
  BY <1>12 DEF LeaveNative, Reenter
<1>13. ASSUME NEW m \in Mutators, LeaveAwake(m) PROVE Idle
  BY <1>13 DEF LeaveAwake, Reenter
<1>14. ASSUME NEW m \in Mutators, BeginDrive(m) PROVE STW!Exit(m) \/ Idle
  BY <1>14
     DEF BeginDrive, MayDrive, LeaveDylan, PublishRoots, FlushTlabs, STW!Exit,
         LockInv
<1>15. ASSUME NEW m \in Mutators, Claim(m) PROVE Idle
  BY <1>15 DEF Claim
<1>16. ASSUME NEW m \in Mutators, TakeCoord(m) PROVE Idle
  BY <1>16 DEF TakeCoord
<1>17. ASSUME NEW m \in Mutators, Stop(m) PROVE Idle
  BY <1>17 DEF Stop
<1>18. ASSUME NEW m \in Mutators, ListMutators(m) PROVE Idle
  BY <1>18 DEF ListMutators
<1>19. ASSUME NEW m \in Mutators, AwaitArrivals(m) PROVE Idle
  BY <1>19 DEF AwaitArrivals
<1>20. ASSUME NEW m \in Mutators, LockHeap(m) PROVE STW!Begin(m)
  <2>1. \A n \in Mutators : Modes[n] # "heap"
    BY <1>20, ArrivalStopsTheWorld DEF LockHeap
  <2>2. QED
    BY <1>20, <2>1 DEF LockHeap, STW!Begin
<1>21. ASSUME NEW m \in Mutators, Collect(m) PROVE STW!End(m)
  BY <1>21 DEF Collect, Visited, STW!End, LockInv
<1>22. ASSUME NEW m \in Mutators, CollectPanics(m) PROVE STW!End(m)
  BY <1>22 DEF CollectPanics, STW!End, LockInv
<1>23. ASSUME NEW m \in Mutators, Resume(m) PROVE Idle
  BY <1>23 DEF Resume
<1>24. ASSUME NEW m \in Mutators, ReleaseCoord(m) PROVE Idle
  BY <1>24 DEF ReleaseCoord
<1>25. ASSUME NEW m \in Mutators, WakeUnasked(m) PROVE Idle
  BY <1>25 DEF WakeUnasked
<1>26. ASSUME UNCHANGED vars PROVE Idle
  <2>1. pc' = pc
    BY <1>26 DEF vars
  <2>2. Modes' = Modes
    BY <2>1
  <2>3. QED
    BY <1>26, <2>2 DEF vars
<1>27. QED
  BY <1>1, <1>2, <1>3, <1>4, <1>5, <1>6, <1>7, <1>8, <1>9, <1>10, <1>11,
     <1>12, <1>13, <1>14, <1>15, <1>16, <1>17, <1>18, <1>19, <1>20, <1>21,
     <1>22, <1>23, <1>24, <1>25, <1>26
     DEF Next, Choose, Advance, Abandoned, vars, STW!Next, STW!vars

\* The protocol implements the abstract promise: collections and the use of
\* the heap exclude each other, and whoever uses it has current roots.
THEOREM Refinement == Spec => ImplementsStopTheWorld
  BY InitRefines, StepRefines, Invariance, PTL
     DEF Spec, ImplementsStopTheWorld, STW!Spec
=============================================================================
