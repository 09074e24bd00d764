----------------------------- MODULE Precedence -----------------------------
(* Orders given as lists, as class precedence lists are: what C3 promises of *)
(* the lists that it computes, and what dispatch relies on.                  *)
EXTENDS Naturals, Sequences, SequencesExt

OnceEach(list) == \A i, j \in DOMAIN list : list[i] = list[j] => i = j

Before(list, a, b) ==
    \E i, j \in DOMAIN list : i < j /\ list[i] = a /\ list[j] = b

\* list holds the members of `order` in their order.
Respects(list, order) ==
    \A a, b \in ToSet(order) : Before(order, a, b) => Before(list, a, b)

\* A class's list has a class once, and has the lists of all its members in it,
\* each in its order.
Linearised(lists) ==
    \A c \in DOMAIN lists :
        /\ lists[c] \in Seq(DOMAIN lists)
        /\ OnceEach(lists[c])
        /\ \A d \in ToSet(lists[c]) : /\ ToSet(lists[d]) \subseteq ToSet(lists[c])
                                      /\ Respects(lists[c], lists[d])
=============================================================================
