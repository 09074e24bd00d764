---------------------------- MODULE MethodTable -----------------------------
(* Multimethod lookup (nod-runtime, dispatch.rs) and the resolution of calls *)
(* at compile time (nod-sema, optimise/dispatch.rs).  A method is a record   *)
(* with its specialisers, one class per argument, and its body; no table     *)
(* holds two methods with the same specialisers.                             *)
EXTENDS Precedence

CONSTANT Cpl            \* class -> its class precedence list, itself first

\* The lists are such as C3 computes.
ASSUME CplAssumption == Linearised(Cpl)

IsSubclass(c, d) == Contains(Cpl[c], d)

Covers(specialisers, args) ==
    /\ Len(specialisers) = Len(args)
    /\ \A i \in DOMAIN args : IsSubclass(args[i], specialisers[i])

CplPosition(c, d) == CHOOSE i \in DOMAIN Cpl[c] : Cpl[c][i] = d

\* Argument-major: the first position where the specialisers differ decides.
MoreSpecific(m, n, args) ==
    \E i \in DOMAIN args :
        /\ \A j \in 1 .. (i - 1) : m.specialisers[j] = n.specialisers[j]
        /\ m.specialisers[i] # n.specialisers[i]
        /\ CplPosition(args[i], m.specialisers[i])
             < CplPosition(args[i], n.specialisers[i])

Applicable(methods, args) == {m \in methods : Covers(m.specialisers, args)}

\* lookup_applicable_methods: the applicable methods, most specific first.
Chain(methods, args) ==
    CHOOSE chain \in SetToSeqs(Applicable(methods, args)) :
        \A i, j \in DOMAIN chain :
            i < j => ~MoreSpecific(chain[j], chain[i], args)

Lookup(methods, args, none) ==
    IF Chain(methods, args) = <<>> THEN none ELSE Chain(methods, args)[1].body

\* add_method's retain and push; remove_method's retain.
Without(methods, specialisers) ==
    {m \in methods : m.specialisers # specialisers}

\* Mutant: the old method with the same specialisers stays.
Pushed(methods, m) == methods \cup {m}
With(methods, m) == Without(methods, m.specialisers) \cup {m}

\* check_closure: may a call with this estimate be resolved before it is made?
Closed(isSealed, domains, sealedClasses, estimate) ==
    \/ isSealed
    \/ \E d \in domains : Covers(d, estimate)
    \/ \A i \in DOMAIN estimate : estimate[i] \in sealedClasses
=============================================================================
