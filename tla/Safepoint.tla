----------------------------- MODULE Safepoint ------------------------------
(***************************************************************************)
(* The stop-the-world safepoint protocol of newgc-core                     *)
(* (src/newgc-core/src/page_heap/mutator.rs): any number of mutator        *)
(* threads, any of which may become the driver of a collection.            *)
(*                                                                         *)
(* Every critical section under `park_mutex` is one action: the code never *)
(* blocks inside one except in `park_cv.wait`, which gives the mutex up,   *)
(* and then the thread is a member of `sleepers` until somebody notifies.  *)
(* `coord_mutex` and the heap mutex are held across blocking steps, so     *)
(* their owners are state.  An object graph is abstracted to the number of *)
(* collections it has been through: a root of version v is valid exactly   *)
(* while v = heapVersion.                                                  *)
(***************************************************************************)
EXTENDS Naturals, Integers, FiniteSets

CONSTANTS Mutators,     \* threads that may register a Mutator
          None,         \* the owner of a free mutex
          MaxEpoch      \* bound: collections started in one behaviour

ASSUME NoneIsNoMutator == None \notin Mutators
ASSUME MaxEpochIsNat == MaxEpoch \in Nat
ASSUME MutatorsFinite == IsFiniteSet(Mutators)

VARIABLES
    pc,             \* pc[m]: where thread m is in mutator.rs
    epoch,          \* SafepointState::epoch
    worldRunning,   \* SafepointState::world_running
    sleepers,       \* threads blocked in park_cv.wait / wait_timeout
    coordOwner,     \* holder of coord_mutex
    heapOwner,      \* holder of the heap mutex across a collection
    registry,       \* Registry::slots
    lastEpoch,      \* MutatorInner::last_epoch
    active,         \* MutatorInner::is_active
    acting,         \* MutatorInner::is_acting_coordinator
    native,         \* MutatorInner::state = IN_NATIVE
    snapshot,       \* version of MutatorInner::roots_snapshot
    roots,          \* version of the root Words the thread itself holds
    tlab,           \* version of the page its TLAB lies in, or NoSlab
    others,         \* the driver's registry snapshot
    todo,           \* the part of it the driver has not seen arrive
    heapVersion,    \* collections that have moved the heap
    poisoned        \* coord_mutex and heap mutex poisoned by a panic

shared == <<epoch, worldRunning, sleepers, coordOwner, heapOwner, registry>>
inner  == <<lastEpoch, active, acting, native, snapshot>>
local  == <<roots, tlab, others, todo>>
heap   == <<heapVersion, poisoned>>
vars   == <<pc, shared, inner, local, heap>>

NoSlab == -1

\* The driver holds coord_mutex in these states and has the world stopped in
\* all of them but the first and the last.
Stopped == {"listing", "waiting", "locking", "collecting", "resuming"}
Driving == Stopped \cup {"stopping", "releasing"}

\* In these states a registered thread has published its roots, so that the
\* collector can update them on its behalf.
Published == {"arriving", "parked", "entering", "native", "leaving",
              "claiming", "queued", "copying"} \cup Driving

PC == {"out", "joining", "dylan", "unwinding", "deregistering"} \cup Published

TypeOK ==
    /\ pc \in [Mutators -> PC]
    /\ epoch \in Nat
    /\ worldRunning \in BOOLEAN
    /\ sleepers \subseteq Mutators
    /\ coordOwner \in Mutators \cup {None}
    /\ heapOwner \in Mutators \cup {None}
    /\ registry \subseteq Mutators
    /\ lastEpoch \in [Mutators -> Nat]
    /\ active \in [Mutators -> BOOLEAN]
    /\ acting \in [Mutators -> BOOLEAN]
    /\ native \in [Mutators -> BOOLEAN]
    /\ snapshot \in [Mutators -> Nat]
    /\ roots \in [Mutators -> Nat]
    /\ tlab \in [Mutators -> Nat \cup {NoSlab}]
    /\ others \subseteq Mutators
    /\ todo \subseteq Mutators
    /\ heapVersion \in Nat
    /\ poisoned \in BOOLEAN

Init ==
    /\ pc = [m \in Mutators |-> "out"]
    /\ epoch = 0
    /\ worldRunning = TRUE
    /\ sleepers = {}
    /\ coordOwner = None
    /\ heapOwner = None
    /\ registry = {}
    /\ lastEpoch = [m \in Mutators |-> 0]
    /\ active = [m \in Mutators |-> FALSE]
    /\ acting = [m \in Mutators |-> FALSE]
    /\ native = [m \in Mutators |-> FALSE]
    /\ snapshot = [m \in Mutators |-> 0]
    /\ roots = [m \in Mutators |-> 0]
    /\ tlab = [m \in Mutators |-> NoSlab]
    /\ others = {}
    /\ todo = {}
    /\ heapVersion = 0
    /\ poisoned = FALSE

Goto(m, l) == pc' = [pc EXCEPT ![m] = l]

-----------------------------------------------------------------------------
\* Registration and departure

\* register_mutator: the shared handles are read under the heap mutex, which
\* is released before coord_mutex is asked for.
BeginRegister(m) ==
    /\ pc[m] = "out"
    /\ heapOwner = None /\ ~poisoned
    /\ Goto(m, "joining")
    /\ UNCHANGED <<shared, inner, local, heap>>

\* The slot is filled under coord_mutex at the epoch read under it.  On a
\* poisoned coord_mutex `lock().unwrap()` panics and there is no Mutator.
Register(m) ==
    /\ pc[m] = "joining"
    /\ coordOwner = None
    /\ IF poisoned
       THEN /\ Goto(m, "out")
            /\ UNCHANGED <<registry, inner, roots, tlab>>
       ELSE /\ Goto(m, "dylan")
            /\ registry' = registry \cup {m}
            /\ lastEpoch' = [lastEpoch EXCEPT ![m] = epoch]
            /\ active' = [active EXCEPT ![m] = TRUE]
            /\ acting' = [acting EXCEPT ![m] = FALSE]
            /\ native' = [native EXCEPT ![m] = FALSE]
            /\ snapshot' = [snapshot EXCEPT ![m] = heapVersion]
            /\ roots' = [roots EXCEPT ![m] = heapVersion]
            /\ tlab' = [tlab EXCEPT ![m] = NoSlab]
    /\ UNCHANGED <<epoch, worldRunning, sleepers, coordOwner, heapOwner,
                   others, todo, heap>>

\* Drop for Mutator, first half: is_active is cleared under park_mutex and
\* every waiter is woken.  A handle can be dropped from Dylan code, while its
\* thread is inside a foreign call, or by a panic that unwinds through it.
Depart(m) ==
    /\ pc[m] \in {"dylan", "native", "unwinding"}
    /\ active' = [active EXCEPT ![m] = FALSE]
    /\ sleepers' = {}
    /\ Goto(m, "deregistering")
    /\ UNCHANGED <<epoch, worldRunning, coordOwner, heapOwner, registry,
                   lastEpoch, acting, native, snapshot, local, heap>>

\* Drop for Mutator, second half: Registry::deregister frees the slot.
Deregister(m) ==
    /\ pc[m] = "deregistering"
    /\ registry' = registry \ {m}
    /\ Goto(m, "out")
    /\ UNCHANGED <<epoch, worldRunning, sleepers, coordOwner, heapOwner,
                   inner, local, heap>>

-----------------------------------------------------------------------------
\* Allocation

\* refill carves a slab out of a page under the heap mutex; with the mutex
\* poisoned `lock().unwrap()` panics.
Refill(m) ==
    /\ pc[m] = "dylan"
    /\ heapOwner = None
    /\ IF poisoned
       THEN Goto(m, "unwinding") /\ UNCHANGED tlab
       ELSE tlab' = [tlab EXCEPT ![m] = heapVersion] /\ UNCHANGED pc
    /\ UNCHANGED <<shared, inner, roots, others, todo, heap>>

\* Publish the caller's roots and empty the TLABs, which every transition out
\* of Dylan code does before it announces itself.
PublishRoots(m) == snapshot' = [snapshot EXCEPT ![m] = roots[m]]
\* Mutants of FlushTlabs: the slab survives; an empty slab is cut again.
KeepTlabs(m) == UNCHANGED tlab
CutTlabs(m) == tlab' = [tlab EXCEPT ![m] = tlab[m] - 1]
FlushTlabs(m) == tlab' = [tlab EXCEPT ![m] = NoSlab]

LeaveDylan(m, l) ==
    /\ pc[m] = "dylan"
    /\ PublishRoots(m)
    /\ FlushTlabs(m)
    /\ Goto(m, l)
    /\ UNCHANGED <<shared, lastEpoch, active, acting, native, roots, others,
                   todo, heap>>

-----------------------------------------------------------------------------
\* poll_safepoint and park

\* poll_safepoint past its fast path: the epoch has moved.
Poll(m) == lastEpoch[m] # epoch /\ LeaveDylan(m, "arriving")

\* What park does each time it holds park_mutex and has re-armed: run on if
\* the world runs, sleep in park_cv otherwise.  `woken` are the sleepers left
\* by the notify_all calls made while it held the mutex.
ParkOrGo(m, woken) ==
    IF worldRunning
    THEN Goto(m, "copying") /\ sleepers' = woken
    ELSE Goto(m, "parked") /\ sleepers' = woken \cup {m}

\* park announces its arrival: last_epoch, then notify_all.  If the epoch has
\* moved since the poll, the loop re-arms at the new one at once.
Announce(m) ==
    /\ pc[m] = "arriving"
    /\ lastEpoch' = [lastEpoch EXCEPT ![m] = epoch]
    /\ ParkOrGo(m, {})
    /\ UNCHANGED <<epoch, worldRunning, coordOwner, heapOwner, registry,
                   active, acting, native, snapshot, local, heap>>

\* Mutant of Rearm: a straggler goes back to sleep at the old epoch.
SleepOn(m) == ParkOrGo(m, sleepers) /\ UNCHANGED lastEpoch

\* A straggler that slept through a resume and a new stop re-arms at the new
\* epoch and tells the new driver; otherwise nothing is published.
Rearm(m) ==
    IF epoch # lastEpoch[m]
    THEN /\ lastEpoch' = [lastEpoch EXCEPT ![m] = epoch]
         /\ ParkOrGo(m, {})
    ELSE ParkOrGo(m, sleepers) /\ UNCHANGED lastEpoch

\* One turn of park's loop after park_cv.wait has returned.
Awake(m) ==
    /\ pc[m] = "parked" /\ m \notin sleepers
    /\ Rearm(m)
    /\ UNCHANGED <<epoch, worldRunning, coordOwner, heapOwner, registry,
                   active, acting, native, snapshot, local, heap>>

\* Back in Dylan code with the roots the collector updated.
CopyBack(m) ==
    /\ pc[m] = "copying"
    /\ roots' = [roots EXCEPT ![m] = snapshot[m]]
    /\ Goto(m, "dylan")
    /\ UNCHANGED <<shared, inner, tlab, others, todo, heap>>

-----------------------------------------------------------------------------
\* enter_native and leave_native

EnterNative(m) == LeaveDylan(m, "entering")

AnnounceNative(m) ==
    /\ pc[m] = "entering"
    /\ native' = [native EXCEPT ![m] = TRUE]
    /\ sleepers' = {}
    /\ Goto(m, "native")
    /\ UNCHANGED <<epoch, worldRunning, coordOwner, heapOwner, registry,
                   lastEpoch, active, acting, snapshot, local, heap>>

\* Mutant of Reenter: back to IN_DYLAN without looking at world_running.
ReenterAtOnce(m) ==
    /\ lastEpoch' = [lastEpoch EXCEPT ![m] = epoch]
    /\ native' = [native EXCEPT ![m] = FALSE]
    /\ Goto(m, "copying")
    /\ UNCHANGED sleepers

\* leave_native under park_mutex: wait out a collection in progress, then
\* adopt the current epoch and flip back to IN_DYLAN in one critical section.
Reenter(m) ==
    IF worldRunning
    THEN /\ lastEpoch' = [lastEpoch EXCEPT ![m] = epoch]
         /\ native' = [native EXCEPT ![m] = FALSE]
         /\ Goto(m, "copying")
         /\ UNCHANGED sleepers
    ELSE /\ Goto(m, "leaving")
         /\ sleepers' = sleepers \cup {m}
         /\ UNCHANGED <<lastEpoch, native>>

\* The foreign call returns.
LeaveNative(m) ==
    /\ pc[m] = "native"
    /\ Reenter(m)
    /\ UNCHANGED <<epoch, worldRunning, coordOwner, heapOwner, registry,
                   active, acting, snapshot, local, heap>>

\* One turn of leave_native's loop after park_cv.wait has returned.
LeaveAwake(m) ==
    /\ pc[m] = "leaving" /\ m \notin sleepers
    /\ Reenter(m)
    /\ UNCHANGED <<epoch, worldRunning, coordOwner, heapOwner, registry,
                   active, acting, snapshot, local, heap>>

-----------------------------------------------------------------------------
\* drive_collect

\* Bound: a drive starts only if the drives already under way leave it one of
\* the MaxEpoch epochs.
Starting == {m \in Mutators : pc[m] \in {"claiming", "queued", "stopping"}}
MayDrive == epoch + Cardinality(Starting) < MaxEpoch

BeginDrive(m) == MayDrive /\ LeaveDylan(m, "claiming")

\* Mutant of Claim: the flag is set and nobody is notified.
ClaimSilently(m) ==
    /\ pc[m] = "claiming"
    /\ acting' = [acting EXCEPT ![m] = TRUE]
    /\ Goto(m, "queued")
    /\ UNCHANGED <<epoch, worldRunning, sleepers, coordOwner, heapOwner,
                   registry, lastEpoch, active, native, snapshot, local, heap>>

\* The thread announces that it is becoming a coordinator, so that an active
\* driver stops waiting for it.
Claim(m) ==
    /\ pc[m] = "claiming"
    /\ acting' = [acting EXCEPT ![m] = TRUE]
    /\ sleepers' = {}
    /\ Goto(m, "queued")
    /\ UNCHANGED <<epoch, worldRunning, coordOwner, heapOwner, registry,
                   lastEpoch, active, native, snapshot, local, heap>>

\* coord_mutex admits one driver at a time; poisoned, it panics the thread
\* (before ResumeGuard exists, so its flag stays set).
TakeCoord(m) ==
    /\ pc[m] = "queued"
    /\ coordOwner = None
    /\ IF poisoned
       THEN Goto(m, "unwinding") /\ UNCHANGED coordOwner
       ELSE Goto(m, "stopping") /\ coordOwner' = m
    /\ UNCHANGED <<epoch, worldRunning, sleepers, heapOwner, registry, inner,
                   local, heap>>

\* Bump the epoch and stop the world in one critical section.  Nobody is
\* notified: nobody waits for this.
Stop(m) ==
    /\ pc[m] = "stopping"
    /\ epoch' = epoch + 1
    /\ lastEpoch' = [lastEpoch EXCEPT ![m] = epoch + 1]
    /\ worldRunning' = FALSE
    /\ Goto(m, "listing")
    /\ UNCHANGED <<sleepers, coordOwner, heapOwner, registry, active, acting,
                   native, snapshot, local, heap>>

ListMutators(m) ==
    /\ pc[m] = "listing"
    /\ others' = registry
    /\ todo' = registry
    /\ Goto(m, "waiting")
    /\ UNCHANGED <<shared, inner, roots, tlab, heap>>

\* Mutant of Arrived: the epoch before the driver's is good enough.
ArrivedOneEarly(n) ==
    ~active[n] \/ acting[n] \/ native[n] \/ lastEpoch[n] + 1 >= epoch

\* The negation of the driver's wait condition for n: it has left, is a
\* driver itself, is in foreign code, or has reached the driver's epoch.
Arrived(n) ==
    ~active[n] \/ acting[n] \/ native[n] \/ lastEpoch[n] >= epoch

\* The driver goes through its snapshot in slot order, any order here, and
\* sleeps on the first mutator that has not arrived; those it has passed it
\* does not look at again.
AwaitArrivals(m) ==
    /\ pc[m] = "waiting" /\ m \notin sleepers
    /\ IF \A n \in todo : Arrived(n)
       THEN /\ todo' = {}
            /\ Goto(m, "locking")
            /\ UNCHANGED sleepers
       ELSE /\ \E passed \in SUBSET {n \in todo : Arrived(n)} :
                  todo' = todo \ passed
            /\ sleepers' = sleepers \cup {m}
            /\ UNCHANGED pc
    /\ UNCHANGED <<epoch, worldRunning, coordOwner, heapOwner, registry,
                   inner, roots, tlab, others, heap>>

LockHeap(m) ==
    /\ pc[m] = "locking"
    /\ heapOwner = None
    /\ heapOwner' = m
    /\ Goto(m, "collecting")
    /\ UNCHANGED <<epoch, worldRunning, sleepers, coordOwner, registry, inner,
                   local, heap>>

\* Mutant of Visited: a thread in foreign code is skipped here as well.
VisitedInDylan == {n \in others : active[n] /\ ~native[n]}

\* The mutators whose snapshot the combined root visitor hands the collector.
Visited == {n \in others : active[n]}

\* The collector moves the heap and updates the visited snapshots in place.
\* Only a word that points where the object still was can be updated.
Collect(m) ==
    /\ pc[m] = "collecting"
    /\ heapVersion' = heapVersion + 1
    /\ snapshot' = [n \in Mutators |->
                       IF n \in Visited /\ snapshot[n] = heapVersion
                       THEN heapVersion + 1 ELSE snapshot[n]]
    /\ heapOwner' = None
    /\ Goto(m, "resuming")
    /\ UNCHANGED <<epoch, worldRunning, sleepers, coordOwner, registry,
                   lastEpoch, active, acting, native, local, poisoned>>

\* The collector runs out of pages half-way and panics: objects have moved,
\* roots have not been rewritten, and the unwinding poisons both mutexes.
CollectPanics(m) ==
    /\ pc[m] = "collecting"
    /\ heapVersion' = heapVersion + 1
    /\ poisoned' = TRUE
    /\ heapOwner' = None
    /\ Goto(m, "resuming")
    /\ UNCHANGED <<epoch, worldRunning, sleepers, coordOwner, registry, inner,
                   local>>

\* Mutant of Resume: the world runs and nobody is notified.
ResumeSilently(m) ==
    /\ pc[m] = "resuming"
    /\ worldRunning' = TRUE
    /\ acting' = [acting EXCEPT ![m] = FALSE]
    /\ Goto(m, "releasing")
    /\ UNCHANGED <<epoch, sleepers, coordOwner, heapOwner, registry,
                   lastEpoch, active, native, snapshot, local, heap>>

\* ResumeGuard, on the normal exit and on the unwinding one.
Resume(m) ==
    /\ pc[m] = "resuming"
    /\ worldRunning' = TRUE
    /\ acting' = [acting EXCEPT ![m] = FALSE]
    /\ sleepers' = {}
    /\ Goto(m, "releasing")
    /\ UNCHANGED <<epoch, coordOwner, heapOwner, registry, lastEpoch, active,
                   native, snapshot, local, heap>>

\* coord_mutex is given up; a panic goes on unwinding, a normal return copies
\* the driver's own roots back.
ReleaseCoord(m) ==
    /\ pc[m] = "releasing"
    /\ coordOwner' = None
    /\ Goto(m, IF poisoned THEN "unwinding" ELSE "copying")
    /\ others' = {}
    /\ UNCHANGED <<epoch, worldRunning, sleepers, heapOwner, registry, inner,
                   roots, tlab, todo, heap>>

-----------------------------------------------------------------------------
\* A condition variable may wake a thread for no reason, and wait_timeout
\* wakes the driver when its budget is up.  No fairness: set_safepoint_timeout
\* says the protocol does not depend on it.
WakeUnasked(m) ==
    /\ m \in sleepers
    /\ sleepers' = sleepers \ {m}
    /\ UNCHANGED <<pc, epoch, worldRunning, coordOwner, heapOwner, registry,
                   inner, local, heap>>

\* After a panic every handle unwinds and nobody can register again.
Abandoned ==
    /\ poisoned /\ \A m \in Mutators : pc[m] = "out"
    /\ UNCHANGED vars

\* What a thread does of its own accord.
Choose(m) ==
    \/ BeginRegister(m) \/ Refill(m) \/ EnterNative(m) \/ LeaveNative(m)
    \/ BeginDrive(m) \/ Depart(m) \/ WakeUnasked(m)

\* What the code does next once it runs; Poll is the poll every function
\* entry and loop back-edge makes.
Advance(m) ==
    \/ Register(m) \/ Deregister(m) \/ Poll(m) \/ Announce(m) \/ Awake(m)
    \/ CopyBack(m) \/ AnnounceNative(m) \/ LeaveAwake(m) \/ Claim(m)
    \/ TakeCoord(m) \/ Stop(m) \/ ListMutators(m) \/ AwaitArrivals(m)
    \/ LockHeap(m) \/ Collect(m) \/ CollectPanics(m) \/ Resume(m)
    \/ ReleaseCoord(m)

Next == (\E m \in Mutators : Choose(m) \/ Advance(m)) \/ Abandoned

Spec == Init /\ [][Next]_vars

FairSpec == Spec /\ \A m \in Mutators : WF_vars(Advance(m))

-----------------------------------------------------------------------------
\* Properties

\* Nobody runs Dylan code, or is about to read its snapshot back, while the
\* collector owns the heap (drive_collect's "(d) World stopped").
WorldStopped ==
    \A d, m \in Mutators :
        pc[d] = "collecting" => pc[m] \notin {"dylan", "copying"}

\* A thread in Dylan code holds roots and a TLAB that the latest collection
\* knows of: park, leave_native and drive_collect give back updated roots,
\* and no TLAB survives a collection.
NoStaleAddress ==
    \A m \in Mutators :
        pc[m] = "dylan" /\ ~poisoned =>
            roots[m] = heapVersion /\ tlab[m] \in {NoSlab, heapVersion}

\* park's straggler comment: "our roots are visited on every cycle", however
\* many cycles a thread sleeps, stays in foreign code or queues through.
RootsVisitedEveryCycle ==
    \A m \in Mutators :
        pc[m] \in Published /\ ~poisoned => snapshot[m] = heapVersion

\* Every stopped world runs again, without help from the timeout or from
\* spurious wake-ups, and also if the collection panics.
WorldResumes == (~worldRunning) ~> worldRunning

\* A parked mutator gets back to Dylan code, whatever the drivers do.
ParkedReturns ==
    \A m \in Mutators : (pc[m] = "parked") ~> (pc[m] = "dylan")

\* A thread that asked for a collection gets through coord_mutex, drives it
\* and returns, or panics.
DriverReturns ==
    \A m \in Mutators :
        (pc[m] = "claiming") ~> (pc[m] \in {"dylan", "unwinding"})

-----------------------------------------------------------------------------
\* The abstract specification this one implements

Mode(m) ==
    CASE pc[m] = "dylan" -> "heap"
      [] pc[m] \in {"out", "joining", "deregistering"} -> "out"
      [] OTHER -> "safe"

STW == INSTANCE StopTheWorld WITH
    mode <- [m \in Mutators |-> Mode(m)],
    view <- roots,
    version <- heapVersion,
    collector <- heapOwner,
    broken <- poisoned

\* Every step of the protocol is a step of StopTheWorld or a stutter.
ImplementsStopTheWorld == STW!Spec
=============================================================================
