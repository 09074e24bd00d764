---------------------------- MODULE Reachability ----------------------------
(* Reachability in a graph whose nodes have at most one successor each. *)

\* The least subset of `nodes` that holds the seeds and is closed under
\* `succ`.  Written as an intersection, it needs no recursion.
Reachable(seeds, nodes, succ) ==
    {n \in nodes : \A S \in SUBSET nodes :
        (/\ seeds \cap nodes \subseteq S
         /\ \A m \in S : succ[m] \in nodes => succ[m] \in S) => n \in S}
=============================================================================
