------------------------------ MODULE Liveness ------------------------------
(* The roots of a compiled function's safepoints (nod-dfm, liveness.rs): the *)
(* backward data-flow analysis over its blocks, one visit to a block at a    *)
(* time.  Temps are those of types that need the collector.                  *)
EXTENDS Naturals, Sequences, FiniteSets

CONSTANTS Temps, Functions

Block == [params: SUBSET Temps, code: Seq([uses: SUBSET Temps, dst: SUBSET Temps]),
          uses: SUBSET Temps, successors: SUBSET Nat]

ASSUME LivenessAssumption ==
    \A g \in Functions : /\ g \in Seq(Block) /\ g # <<>>
                         /\ \A i \in DOMAIN g : g[i].successors \subseteq DOMAIN g

VARIABLES
    f,                   \* the function
    liveIn, liveOut,     \* the temps live where a block begins and ends
    at,                  \* the block to visit next, 0 when a round is over
    changed              \* a set has grown in this round

livenessVars == <<f, liveIn, liveOut, at, changed>>

LivenessInit ==
    /\ f \in Functions
    /\ liveIn = [i \in DOMAIN f |-> {}] /\ liveOut = liveIn
    /\ at = Len(f) /\ changed = FALSE

-----------------------------------------------------------------------------
\* What the block has assigned when its k-th computation runs.
Defined(b, k) == b.params \cup UNION {b.code[j].dst : j \in 1 .. k - 1}

Kill(b) == Defined(b, Len(b.code) + 1)

\* Mutant: a computation's result hides its own operand.
UsesNotKilled(b) == (b.uses \cup UNION {b.code[k].uses : k \in DOMAIN b.code}) \ Kill(b)

\* The uses that no assignment of the block comes before.
Gen(b) == (b.uses \ Kill(b))
          \cup UNION {b.code[k].uses \ Defined(b, k) : k \in DOMAIN b.code}

\* compute_global_live_out: the blocks from the last to the first, until a round
\* changes nothing.
Visit ==
    /\ at # 0
    /\ LET out == UNION {liveIn[s] : s \in f[at].successors}
           in == Gen(f[at]) \cup (out \ Kill(f[at]))
       IN /\ liveOut' = [liveOut EXCEPT ![at] = out]
          /\ liveIn' = [liveIn EXCEPT ![at] = in]
          /\ changed' = (changed \/ out # liveOut[at] \/ in # liveIn[at])
    /\ at' = at - 1
    /\ UNCHANGED f

NextRound ==
    /\ at = 0 /\ changed
    /\ at' = Len(f) /\ changed' = FALSE
    /\ UNCHANGED <<f, liveIn, liveOut>>

Analysed == at = 0 /\ ~changed

LivenessNext == Visit \/ NextRound

LivenessSpec == LivenessInit /\ [][LivenessNext]_livenessVars

\* live_after_per_computation.
LiveAfter(i) ==
    LET code == f[i].code
        after[k \in 0 .. Len(code)] ==
            IF k = Len(code) THEN liveOut[i] \cup f[i].uses
            ELSE (after[k + 1] \ code[k + 1].dst) \cup code[k + 1].uses
    IN after

\* populate_safepoint_roots, for the k-th computation of block i, if it is a call.
SafepointRoots(i, k) == LiveAfter(i)[k] \ f[i].code[k].dst

-----------------------------------------------------------------------------
(* The reference: paths through the function's points.                       *)

\* Point 0 of a block assigns its parameters, the last one is its terminator.
Points == UNION {{<<i, k>> : k \in 0 .. Len(f[i].code) + 1} : i \in DOMAIN f}
IsTerminator(p) == p[2] = Len(f[p[1]].code) + 1

After(p) == IF IsTerminator(p) THEN {<<s, 0>> : s \in f[p[1]].successors}
            ELSE {<<p[1], p[2] + 1>>}

Uses(p) == CASE p[2] = 0 -> {}
             [] IsTerminator(p) -> f[p[1]].uses
             [] OTHER -> f[p[1]].code[p[2]].uses
Assigns(p) == CASE p[2] = 0 -> f[p[1]].params
                [] IsTerminator(p) -> {}
                [] OTHER -> f[p[1]].code[p[2]].dst

\* The points from which a path reaches a use of t before t is assigned: the
\* first n rounds find those that are at most n points away.
ReachUse(t) ==
    LET Further(seen) ==
            seen \cup {p \in Points : /\ t \notin Assigns(p)
                                      /\ After(p) \cap seen # {}}
        within[n \in 0 .. Cardinality(Points)] ==
            IF n = 0 THEN {p \in Points : t \in Uses(p)}
            ELSE LET seen == within[n - 1] IN Further(seen)
    IN within[Cardinality(Points)]

\* A call's roots are what is needed on some path after it and was there before
\* it: nothing that the collector would miss (the defect GAP-011 that the code's
\* comment tells of), nothing that is dead and may never have been assigned.
RootsAreLiveAcross ==
    Analysed =>
        LET reach == [t \in Temps |-> ReachUse(t)] IN
        \A i \in DOMAIN f : \A k \in DOMAIN f[i].code :
            SafepointRoots(i, k) = {t \in Temps \ f[i].code[k].dst :
                                        After(<<i, k>>) \cap reach[t] # {}}
=============================================================================
