---------------------------- MODULE ObjectGraph -----------------------------
(***************************************************************************)
(* The heap as the program sees it: objects with a pointer field, root     *)
(* variables that hold them, and pins.  There are no addresses,            *)
(* generations, pages or cards here.  The field of an object that nothing  *)
(* reaches may change at any time, and a new object may take its identity. *)
(* PageHeap.tla implements this specification.                             *)
(***************************************************************************)
EXTENDS Reachability

CONSTANTS Objects,      \* identities of objects
          Roots,        \* root variables
          Nil           \* no object

VARIABLES root,         \* root[r]: the object r holds, or Nil
          field,        \* field[o]: the object o points to, or Nil
          pinned        \* objects held for foreign code

vars == <<root, field, pinned>>

Held == {root[r] : r \in Roots} \ {Nil}
Live == Reachable(Held \cup pinned, Objects, field)

Init ==
    /\ root = [r \in Roots |-> Nil]
    /\ field = [o \in Objects |-> Nil]
    /\ pinned = {}

\* A root takes what a root holds, what is in the field of an object that a
\* root holds, or Nil.
Move(r) ==
    /\ \E v \in {Nil} \cup Held \cup {field[o] : o \in Held} :
          root' = [root EXCEPT ![r] = v]
    /\ UNCHANGED <<field, pinned>>

\* A new object is initialised with what a root holds, or with Nil.
New(r) ==
    \E o \in Objects \ Live, v \in {Nil} \cup Held :
        /\ root' = [root EXCEPT ![r] = o]
        /\ field' = [field EXCEPT ![o] = v]
        /\ UNCHANGED pinned

Write(r) ==
    /\ root[r] # Nil
    /\ \E v \in {Nil} \cup Held : field' = [field EXCEPT ![root[r]] = v]
    /\ UNCHANGED <<root, pinned>>

Pin(r) ==
    /\ root[r] # Nil
    /\ pinned' = pinned \cup {root[r]}
    /\ UNCHANGED <<root, field>>

Unpin(o) ==
    /\ pinned' = pinned \ {o}
    /\ UNCHANGED <<root, field>>

\* A collector may do what it likes with objects that are not live.
Collect ==
    /\ field' \in [Objects -> Objects \cup {Nil}]
    /\ \A o \in Live : field'[o] = field[o]
    /\ UNCHANGED <<root, pinned>>

Next ==
    \/ Collect
    \/ \E r \in Roots : Move(r) \/ Write(r) \/ Pin(r) \/ New(r)
    \/ \E o \in pinned : Unpin(o)

Spec == Init /\ [][Next]_vars
=============================================================================
