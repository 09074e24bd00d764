--------------------------------- MODULE C3 ---------------------------------
(* Class precedence lists (nod-sema, c3.rs): the classes of a program are    *)
(* linearised in the order of their definition, each from its parents' lists.*)
EXTENDS Precedence

CONSTANTS
    Hierarchies          \* sequences: class i -> its parents, earlier classes

ASSUME C3Assumption ==
    \A h \in Hierarchies : \A i \in DOMAIN h :
        h[i] \in Seq(1 .. i - 1) /\ OnceEach(h[i])

VARIABLES
    parents,
    cpls,                \* the precedence lists computed so far
    queues,              \* the merge of the class in progress: its inputs
    result,              \* and what has been picked
    failed               \* C3Error::InconsistentMerge

c3Vars == <<parents, cpls, queues, result, failed>>

Current == Len(cpls) + 1

C3Init ==
    /\ parents \in Hierarchies
    /\ cpls = <<>> /\ queues = <<>> /\ result = <<>> /\ failed = FALSE

-----------------------------------------------------------------------------
ParentCpls == [j \in DOMAIN parents[Current] |-> cpls[parents[Current][j]]]

\* No parents or a single one: no merge.
Simple ==
    /\ ~failed /\ Current \in DOMAIN parents
    /\ Len(parents[Current]) <= 1
    /\ cpls' = Append(cpls, <<Current>> \o IF parents[Current] = <<>> THEN <<>>
                                         ELSE cpls[Head(parents[Current])])
    /\ UNCHANGED <<parents, queues, result, failed>>

\* Mutant: the order of the parents is left out of the merge.
ListsOnly == ParentCpls
Inputs == Append(ParentCpls, parents[Current])

StartMerge ==
    /\ ~failed /\ Current \in DOMAIN parents
    /\ Len(parents[Current]) > 1 /\ result = <<>>
    /\ queues' = Inputs
    /\ result' = <<Current>>
    /\ UNCHANGED <<parents, cpls, failed>>

\* Mutant: the head counts too.
InQueue(c, q) == c \in ToSet(q)

InTail(c, q) == q # <<>> /\ c \in ToSet(Tail(q))
Good(q) == q # <<>> /\ \A other \in ToSet(queues) : ~InTail(Head(q), other)

\* The first queue whose head is in no tail.
Candidates == {j \in DOMAIN queues : Good(queues[j])}
FirstGood == Head(queues[CHOOSE j \in Candidates : \A k \in Candidates : j <= k])

Merging == result # <<>> /\ ~failed /\ \E j \in DOMAIN queues : queues[j] # <<>>

Pick ==
    /\ Merging /\ Candidates # {}
    /\ result' = Append(result, FirstGood)
    /\ queues' = [j \in DOMAIN queues |->
                     IF queues[j] # <<>> /\ Head(queues[j]) = FirstGood
                     THEN Tail(queues[j]) ELSE queues[j]]
    /\ UNCHANGED <<parents, cpls, failed>>

Fail ==
    /\ Merging /\ Candidates = {}
    /\ failed' = TRUE
    /\ UNCHANGED <<parents, cpls, queues, result>>

FinishMerge ==
    /\ result # <<>> /\ ~failed /\ ~Merging
    /\ cpls' = Append(cpls, result)
    /\ queues' = <<>> /\ result' = <<>>
    /\ UNCHANGED <<parents, failed>>

C3Next == Simple \/ StartMerge \/ Pick \/ Fail \/ FinishMerge

C3Spec == C3Init /\ [][C3Next]_c3Vars

-----------------------------------------------------------------------------
\* list, for class i, starts with i, has its ancestors once each, and keeps the
\* order of its parents and the order of every parent's list.
Agrees(list, i) ==
    LET own == ToSet(parents[i]) IN
    /\ Head(list) = i
    /\ OnceEach(list)
    /\ ToSet(list) = {i} \cup UNION {ToSet(cpls[p]) : p \in own}
    /\ Respects(list, parents[i])
    /\ \A p \in own : Respects(list, cpls[p])

\* The classes' lists are linear extensions of what they are computed from: what
\* is more specific for a class stays so for its subclasses, which dispatch
\* relies on.
ListsAgree == \A i \in DOMAIN cpls : Agrees(cpls[i], i)

\* A class is refused only if there is no such list.
RefusedForCause ==
    failed =>
        LET orders == ToSet(ParentCpls) \cup {parents[Current]}
            above == UNION {ToSet(o) : o \in orders}
        IN ~\E list \in SetToSeqs(above) : \A o \in orders : Respects(list, o)
=============================================================================
