---------------------------- MODULE BlockScopes ----------------------------
(* What `block ... cleanup ... end` promises: however a block is left, its   *)
(* cleanup has been completed, once, and inner blocks are left first.        *)
EXTENDS Naturals, Sequences

CONSTANT Scopes

VARIABLES
    scopes,      \* the blocks entered and not left, the innermost last
    over         \* the program has ended

vars == <<scopes, over>>

Last == scopes[Len(scopes)]

Init == scopes = <<>> /\ over = FALSE

Enter(s) ==
    /\ ~over /\ \A i \in DOMAIN scopes : scopes[i].scope # s
    /\ scopes' = Append(scopes, [scope |-> s, cleaned |-> FALSE])
    /\ UNCHANGED over

Clean ==
    /\ ~over /\ scopes # <<>> /\ ~Last.cleaned
    /\ scopes' = [scopes EXCEPT ![Len(scopes)].cleaned = TRUE]
    /\ UNCHANGED over

Leave ==
    /\ ~over /\ scopes # <<>> /\ Last.cleaned
    /\ scopes' = SubSeq(scopes, 1, Len(scopes) - 1)
    /\ UNCHANGED over

End == over' = TRUE /\ UNCHANGED scopes

Next == (\E s \in Scopes : Enter(s)) \/ Clean \/ Leave \/ End

Spec == Init /\ [][Next]_vars
=============================================================================
