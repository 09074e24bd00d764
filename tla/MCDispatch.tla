----------------------------- MODULE MCDispatch -----------------------------
(* Instances of Dispatch for TLC.                                            *)
EXTENDS Dispatch

CONSTANTS Object, Shape, Circle

MCCpl == (Object :> <<Object>>)
         @@ (Shape :> <<Shape, Object>>)
         @@ (Circle :> <<Circle, Shape, Object>>)

\* Generics of one argument.
UnaryArgs == {<<Shape>>, <<Circle>>}
UnarySignatures == {<<Shape>>, <<Circle>>}
UnaryDomains == {<<Circle>>}

\* Generics of two arguments.
BinaryArgs == {<<Shape, Shape>>, <<Shape, Circle>>}
BinarySignatures == {<<Shape, Shape>>, <<Shape, Circle>>}

Symmetry == Permutations(Threads) \cup Permutations(Bodies)
=============================================================================
