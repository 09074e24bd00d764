---------------------------- MODULE StopTheWorld ----------------------------
(***************************************************************************)
(* What the multi-mutator collector of newgc-core promises its clients,    *)
(* with none of the machinery (epochs, condition variable, snapshots) that *)
(* keeps the promise.  Mutators read a moving heap; one collector at a     *)
(* time moves it.  `version` counts the moves: a mutator whose `view` is   *)
(* older than `version` holds addresses that are no longer there.          *)
(* Safepoint.tla implements this specification.                            *)
(***************************************************************************)
EXTENDS Naturals

CONSTANTS Mutators,     \* threads that may hold a Mutator handle
          None          \* "no mutator"

VARIABLES mode,         \* mode[m]: "out", using the "heap", or stopped ("safe")
          view,         \* view[m]: the version m's roots point into
          version,      \* how often the heap has been moved
          collector,    \* the mutator that is moving it now, or None
          broken        \* a collection failed half-way

vars == <<mode, view, version, collector, broken>>

Init ==
    /\ mode = [m \in Mutators |-> "out"]
    /\ view = [m \in Mutators |-> 0]
    /\ version = 0
    /\ collector = None
    /\ broken = FALSE

\* m starts to use the heap with up-to-date roots, never during a collection.
\* Once a collection has failed half-way nothing is promised of the roots.
Enter(m) ==
    /\ mode[m] # "heap"
    /\ collector = None
    /\ mode' = [mode EXCEPT ![m] = "heap"]
    /\ \E v \in {version, view'[m]} :
          /\ broken \/ v = version
          /\ view' = [view EXCEPT ![m] = v]
    /\ UNCHANGED <<version, collector, broken>>

\* m gives the heap up, for a while ("safe") or for good ("out").
Exit(m) ==
    /\ mode[m] # "out" /\ collector # m
    /\ \E to \in {"safe", "out"} : mode' = [mode EXCEPT ![m] = to]
    /\ UNCHANGED <<view, version, collector, broken>>

\* m becomes the collector once nobody uses the heap.
Begin(m) ==
    /\ collector = None
    /\ mode[m] = "safe"
    /\ \A n \in Mutators : mode[n] # "heap"
    /\ collector' = m
    /\ UNCHANGED <<mode, view, version, broken>>

\* The heap has been moved, or the move has failed half-way.
End(m) ==
    /\ collector = m
    /\ collector' = None
    /\ version' = version + 1
    /\ broken' \in {broken, TRUE}
    /\ UNCHANGED <<mode, view>>

Next == \E m \in Mutators : Enter(m) \/ Exit(m) \/ Begin(m) \/ End(m)

Spec == Init /\ [][Next]_vars
=============================================================================
