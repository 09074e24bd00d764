---------------------------- MODULE MCSequential ----------------------------
(* An instance, for TLC, of the machines that one thread runs alone: the     *)
(* stacks of a thread, a hash table, the liveness analysis of a function and *)
(* the linearisation of a class hierarchy.  They share nothing: a behaviour  *)
(* runs one of them, and the others keep their smallest state.               *)
EXTENDS Activations, Tables, Liveness, C3

CONSTANTS Error, Warning, Outer, Inner, Temp

VARIABLE task

MCKinds == (Error :> {Error}) @@ (Warning :> {Warning, Error})

MCBlocks == (Outer :> <<Error>>) @@ (Inner :> <<Warning>>)

\* Every function of two blocks of at most one computation, and every one of
\* three blocks of one computation where only computations use and assign.
Computations == [uses: SUBSET {Temp}, dst: SUBSET {Temp}]
BlocksOf(params, code, uses, n) ==
    [params: params, code: code, uses: uses,
     successors: {s \in SUBSET (1 .. n) : Cardinality(s) <= 2}]

MCFunctions ==
    [1 .. 2 -> BlocksOf(SUBSET {Temp}, {<<>>} \cup {<<c>> : c \in Computations},
                        SUBSET {Temp}, 2)]
    \cup [1 .. 3 -> BlocksOf({{}}, {<<c>> : c \in Computations}, {{}}, 3)]

\* Class 1 is <object>; 2 and 3 are its direct subclasses; each of the others
\* has one or two parents of the earlier ones, in either order.
ParentLists(i) ==
    {<<a>> : a \in 1 .. i - 1}
    \cup {p \in (1 .. i - 1) \X (1 .. i - 1) : p[1] # p[2]}

MCHierarchies ==
    {<<<<>>, <<1>>, <<1>>, a, b, c>> :
        a \in ParentLists(4), b \in ParentLists(5), c \in ParentLists(6)}

NoTable ==
    /\ hash = [k \in Keys |-> 0] /\ table = EmptyTable(InitialCapacity)
    /\ contents = [k \in Keys |-> Absent]
NoFunction ==
    /\ f = <<>> /\ liveIn = <<>> /\ liveOut = <<>> /\ at = 0 /\ changed = FALSE
NoClasses ==
    /\ parents = <<>> /\ cpls = <<>> /\ queues = <<>> /\ result = <<>>
    /\ failed = FALSE

MCInit ==
    /\ Init
    /\ \/ task = "calls" /\ NoTable /\ NoFunction /\ NoClasses
       \/ task = "table" /\ TableInit /\ NoFunction /\ NoClasses
       \/ task = "liveness" /\ NoTable /\ LivenessInit /\ NoClasses
       \/ task = "classes" /\ NoTable /\ NoFunction /\ C3Init

MCNext ==
    /\ UNCHANGED task
    /\ \/ task = "calls" /\ Next /\ UNCHANGED <<tableVars, livenessVars, c3Vars>>
       \/ task = "table" /\ TableNext /\ UNCHANGED <<vars, livenessVars, c3Vars>>
       \/ task = "liveness" /\ LivenessNext /\ UNCHANGED <<vars, tableVars, c3Vars>>
       \/ task = "classes" /\ C3Next /\ UNCHANGED <<vars, tableVars, livenessVars>>

MCSpec == MCInit /\ [][MCNext]_<<vars, tableVars, livenessVars, c3Vars, task>>
=============================================================================
