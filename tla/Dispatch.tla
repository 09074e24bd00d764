------------------------------ MODULE Dispatch ------------------------------
(* One generic function, one call site with an inline cache and one call     *)
(* site that the compiler resolves, used by several threads: dispatch.rs and *)
(* the code emit_dispatch generates (nod-llvm, codegen.rs).                  *)
(*                                                                           *)
(* The method table is behind a lock, whose critical sections are single     *)
(* steps.  The generation is a separate atomic, bumped after the lock is     *)
(* released.  The words of the cache are relaxed atomics, read and written   *)
(* one by one; x86-64 keeps the order of the program.                        *)
EXTENDS MethodTable, FiniteSets

CONSTANTS
    Threads,
    Nil,
    Args,            \* the tuples of argument classes that calls pass
    Signatures,      \* the specialisers that methods may have
    Bodies,
    Domains,         \* what `define sealed domain` may declare
    SealedClasses,
    MaxGeneration    \* bounds the changes of the method table

ASSUME DispatchAssumption ==
    /\ IsFiniteSet(Threads)
    /\ Nil \notin Args \cup Bodies \cup DOMAIN Cpl
    /\ Args \subseteq Seq(DOMAIN Cpl) \ {<<>>}
    /\ Signatures \subseteq Seq(DOMAIN Cpl)
    /\ MaxGeneration \in Nat \ {0}

VARIABLES
    methods,         \* GenericFunction.methods
    generation,      \* GenericFunction.generation
    sealed,          \* GenericFunction.sealed
    domains,         \* GenericFunction.sealed_domains
    slot,            \* the CacheSlot of the first call site
    direct,          \* what the second call site is resolved to
    pc, args,        \* of each thread: where it is, what it calls with
    seen,            \* the words of the slot a thread has loaded, or will store
    step,            \* the word it loads or stores next
    method,          \* the method it adds
    called,          \* the body it runs
    allowed,         \* ghost: what lookup has given at some time of the call
    before,          \* ghost: the table that an unfinished change replaces
    disturbed,       \* ghost: a fill overlapped another use or a change
    bypassed         \* ghost: a change since the call was resolved that was not
                     \* submitted to the seals of its time

vars == <<methods, generation, sealed, domains, slot, direct, pc, args, seen,
          step, method, called, allowed, before, disturbed,
          bypassed>>
tableVars == <<methods, generation, sealed, domains>>
callVars == <<args, seen, step, called>>
ghosts == <<allowed, before, disturbed, bypassed>>

\* CacheSlot's words in the order in which they are loaded, followed by the
\* generic's generation, and in which they are stored.
Words == <<"class", "method", "generation">>
ColdSlot == [class |-> Nil, method |-> Nil, generation |-> 0]
Methods == [specialisers : Signatures, body : Bodies]
\* The resolver's estimate and methods; as a ghost, the seals it found.
Unresolved == [estimate |-> Nil, sealed |-> FALSE, domains |-> {}, chain |-> <<>>]
Look(table, a) == Lookup(table, a, Nil)

Init ==
    /\ methods = {} /\ generation = 1 /\ sealed = FALSE /\ domains = {}
    /\ slot = ColdSlot
    /\ direct = Unresolved
    /\ pc = [t \in Threads |-> "idle"]
    /\ args = [t \in Threads |-> Nil]
    /\ seen = [t \in Threads |-> ColdSlot]
    /\ step = [t \in Threads |-> 1]
    /\ method = [t \in Threads |-> Nil]
    /\ called = [t \in Threads |-> Nil]
    /\ allowed = [t \in Threads |-> {}]
    /\ before = [t \in Threads |-> Nil]
    /\ disturbed = FALSE /\ bypassed = FALSE

Goto(t, l) == pc' = [pc EXCEPT ![t] = l]
At(l) == {t \in Threads : pc[t] \in l}
Loading == {"loading"}
Filling == {"reading", "filling"}
Calling == {"loading", "missed", "reading", "filling", "running"}
Changing == At({"bumping", "checked"})
Disturb(others) == disturbed' = (disturbed \/ others # {})

-----------------------------------------------------------------------------
(* The call site's compiled code.                                            *)

\* A table is current until the change that replaces it has been announced.
Current == {methods} \cup {before[t] : t \in At({"bumping"})}

BeginCall(t) ==
    /\ pc[t] = "idle"
    /\ Goto(t, "loading")
    /\ \E a \in Args :
          /\ args' = [args EXCEPT ![t] = a]
          /\ allowed' = [allowed EXCEPT ![t] = {Look(m, a) : m \in Current}]
    /\ Disturb(At(Filling))
    /\ UNCHANGED <<tableVars, slot, direct, seen, step, method, called, before,
                   bypassed>>

\* Load one of the three words of the slot.
Load(t) ==
    /\ pc[t] = "loading" /\ step[t] \in DOMAIN Words
    /\ seen' = [seen EXCEPT ![t][Words[step[t]]] = slot[Words[step[t]]]]
    /\ step' = [step EXCEPT ![t] = @ + 1]
    /\ UNCHANGED <<tableVars, slot, direct, pc, args, method, called, ghosts>>

\* Mutant: the generation is not compared.
HitAtAnyTime(t) == seen[t].class # Nil /\ seen[t].class = args[t][1]

\* Load the generic's generation and compare: the class of the first argument,
\* and of no other.
Hit(t) ==
    /\ seen[t].class # Nil
    /\ seen[t].class = args[t][1]
    /\ seen[t].generation = generation

FastCall(t) ==
    /\ pc[t] = "loading" /\ step[t] = 4 /\ Hit(t)
    /\ called' = [called EXCEPT ![t] = seen[t].method]
    /\ seen' = [seen EXCEPT ![t] = ColdSlot]
    /\ step' = [step EXCEPT ![t] = 1]
    /\ Goto(t, "running")
    /\ UNCHANGED <<tableVars, slot, direct, args, method, ghosts>>

Miss(t) ==
    /\ pc[t] = "loading" /\ step[t] = 4 /\ ~Hit(t)
    /\ seen' = [seen EXCEPT ![t] = ColdSlot]
    /\ step' = [step EXCEPT ![t] = 1]
    /\ Goto(t, "missed")
    /\ UNCHANGED <<tableVars, slot, direct, args, method, called, ghosts>>

\* nod_dispatch: look up, under the table's lock.
SlowCall(t) ==
    /\ pc[t] = "missed"
    /\ LET found == Look(methods, args[t]) IN
       /\ called' = [called EXCEPT ![t] = found]
       /\ IF found = Nil
          THEN Goto(t, "running") /\ UNCHANGED disturbed   \* signals
          ELSE /\ Goto(t, "reading")
               /\ Disturb(At(Loading \cup Filling) \ {t})
    /\ UNCHANGED <<tableVars, slot, direct, args, seen, step, method,
                   allowed, before, bypassed>>

\* nod_dispatch: the generation that goes with what was found.
ReadGeneration(t) ==
    /\ pc[t] = "reading"
    /\ seen' = [seen EXCEPT ![t] = [class |-> args[t][1], method |-> called[t],
                                    generation |-> generation]]
    /\ Goto(t, "filling")
    /\ UNCHANGED <<tableVars, slot, direct, args, step, method, called, ghosts>>

Store(t) ==
    /\ pc[t] = "filling"
    /\ slot' = [slot EXCEPT ![Words[step[t]]] = seen[t][Words[step[t]]]]
    /\ IF step[t] < Len(Words)
       THEN /\ step' = [step EXCEPT ![t] = @ + 1]
            /\ UNCHANGED <<pc, seen>>
       ELSE /\ step' = [step EXCEPT ![t] = 1]
            /\ seen' = [seen EXCEPT ![t] = ColdSlot]
            /\ Goto(t, "running")
    /\ UNCHANGED <<tableVars, direct, args, method, called, ghosts>>

\* The body returns, or the signal is handled.
Return(t) ==
    /\ pc[t] = "running"
    /\ Goto(t, "idle")
    /\ args' = [args EXCEPT ![t] = Nil]
    /\ called' = [called EXCEPT ![t] = Nil]
    /\ allowed' = [allowed EXCEPT ![t] = {}]
    /\ UNCHANGED <<tableVars, slot, direct, seen, step, method, before, disturbed,
                   bypassed>>

-----------------------------------------------------------------------------
(* Changes of the method table.                                              *)

\* Under the table's write lock.  `checked`: the seals allow the change by now.
Change(t, table, checked) ==
    /\ methods' = table
    /\ before' = [before EXCEPT ![t] = methods]
    /\ allowed' = [u \in Threads |-> IF pc[u] \in Calling
                                     THEN allowed[u] \cup {Look(table, args[u])}
                                     ELSE allowed[u]]
    /\ Disturb(At(Filling))
    /\ bypassed' = (bypassed \/ (direct.chain # <<>> /\ ~checked))
    /\ Goto(t, "bumping")

MayChange(t) ==
    /\ pc[t] = "idle"
    /\ generation + Cardinality(Changing) < MaxGeneration

\* add_method and remove_method look at no seal.
AddMethod(t) ==
    /\ MayChange(t)
    /\ \E m \in Methods : Change(t, With(methods, m), FALSE)
    /\ UNCHANGED <<generation, sealed, domains, slot, direct, callVars, method>>

RemoveMethod(t) ==
    /\ MayChange(t)
    /\ \E s \in Signatures : Change(t, Without(methods, s), FALSE)
    /\ UNCHANGED <<generation, sealed, domains, slot, direct, callVars, method>>

\* Mutant of Refused: the domains are not looked at.
RefusedIfSealed(m) == sealed

\* try_add_method: the checks, which take no lock that outlives them.
Refused(m) == sealed \/ \E d \in domains : Covers(d, m.specialisers)

CheckSealing(t) ==
    /\ MayChange(t)
    /\ \E m \in Methods :
          /\ ~Refused(m)
          /\ method' = [method EXCEPT ![t] = m]
    /\ Goto(t, "checked")
    /\ UNCHANGED <<tableVars, slot, direct, callVars, ghosts>>

AddChecked(t) ==
    /\ pc[t] = "checked"
    /\ Change(t, With(methods, method[t]), ~Refused(method[t]))
    /\ method' = [method EXCEPT ![t] = Nil]
    /\ UNCHANGED <<generation, sealed, domains, slot, direct, callVars>>

\* Mutant: changes are not announced.
SameGeneration(t) == generation
Bumped(t) == generation + 1

BumpGeneration(t) ==
    /\ pc[t] = "bumping"
    /\ generation' = Bumped(t)
    /\ before' = [before EXCEPT ![t] = Nil]
    /\ Goto(t, "idle")
    /\ disturbed' = (disturbed /\ At(Calling) # {})
    /\ UNCHANGED <<methods, sealed, domains, slot, direct, callVars, method,
                   allowed, bypassed>>

MarkSealed(t) ==
    /\ pc[t] = "idle" /\ ~sealed
    /\ sealed' = TRUE
    /\ UNCHANGED <<methods, generation, domains, slot, direct, pc, callVars,
                   method, ghosts>>

RegisterSealedDomain(t) ==
    /\ pc[t] = "idle"
    /\ \E d \in Domains \ domains : domains' = domains \cup {d}
    /\ UNCHANGED <<methods, generation, sealed, slot, direct, pc, callVars,
                   method, ghosts>>

-----------------------------------------------------------------------------
(* The resolver.  It records the generation, too, which nobody reads: the     *)
(* compiled call is direct, and compares nothing.                            *)

\* resolve_one: does closure hold for the estimate?
CheckClosure(t) ==
    /\ pc[t] = "idle" /\ direct.estimate = Nil
    /\ \E e \in Args :
          /\ Closed(sealed, domains, SealedClasses, e)
          /\ direct' = [estimate |-> e, sealed |-> sealed, domains |-> domains,
                        chain |-> <<>>]
    /\ Goto(t, "resolving")
    /\ UNCHANGED <<tableVars, slot, callVars, method, ghosts>>

\* resolve_one, resolve_dispatches: the methods for the estimate, under the
\* table's lock; the call is left alone if there are none.
Resolve(t) ==
    /\ pc[t] = "resolving"
    /\ LET chain == Chain(methods, direct.estimate) IN
          direct' = IF chain = <<>> THEN Unresolved
                                    ELSE [direct EXCEPT !.chain = chain]
    /\ Goto(t, "idle")
    /\ UNCHANGED <<tableVars, slot, callVars, method, ghosts>>

Next ==
    \E t \in Threads :
        \/ BeginCall(t) \/ Load(t) \/ FastCall(t) \/ Miss(t) \/ SlowCall(t)
        \/ ReadGeneration(t) \/ Store(t) \/ Return(t)
        \/ AddMethod(t) \/ RemoveMethod(t) \/ CheckSealing(t) \/ AddChecked(t)
        \/ BumpGeneration(t) \/ MarkSealed(t) \/ RegisterSealedDomain(t)
        \/ CheckClosure(t) \/ Resolve(t)

Spec == Init /\ [][Next]_vars

-----------------------------------------------------------------------------
(* Properties.                                                               *)

\* Types; in particular no two methods of the table have the same specialisers.
TypeOK ==
    /\ methods \subseteq Methods
    /\ \A m, n \in methods : m.specialisers = n.specialisers => m = n
    /\ generation \in 1 .. MaxGeneration
    /\ sealed \in BOOLEAN /\ domains \subseteq Domains
    /\ slot.class \in DOMAIN Cpl \cup {Nil} /\ slot.method \in Bodies \cup {Nil}
    /\ \A t \in Threads :
          /\ called[t] \in Bodies \cup {Nil}
          /\ step[t] \in 1 .. 4
          /\ args[t] = Nil <=> pc[t] \notin Calling
    /\ direct.estimate \in Args \cup {Nil} /\ direct.domains \subseteq Domains

\* A call, cached or not, runs a body that the lookup gives for its arguments at
\* some time of the call, or with a table whose replacement has not yet been
\* announced by the generation; unless the cache was filled while another
\* thread used it or changed the methods, and the methods have not changed since.
CallsCurrentMethod ==
    ~disturbed => \A t \in At({"running"}) : called[t] \in allowed[t]

\* A cache that compares as valid holds what the lookup gives for every
\* arguments that would hit it, under the same proviso.
CacheIsCurrent ==
    /\ ~disturbed /\ At(Filling \cup {"bumping"}) = {}
    /\ slot.class # Nil /\ slot.generation = generation
    => \A a \in Args : a[1] = slot.class => slot.method = Look(methods, a)

\* What the seals under which a call was resolved say of a method is that none
\* with these specialisers is added.
Sheltered(m) == \/ direct.sealed
                \/ \E d \in direct.domains : Covers(d, m.specialisers)

\* A call resolved under a seal goes on, however long it is kept and whatever
\* methods are added, to run what the dispatcher would run, and to have the same
\* next-methods, as far as these are methods that the seal speaks of; if the
\* seals were asked before each change (try_add_method) and did not change
\* between the question and the addition, and if no such method is for a part of
\* the estimate only.  (The resolver leaves that one out from the beginning.)
SealedCallsKeepTheirMethods ==
    direct.chain # <<>> /\ ~bypassed =>
      \A a \in Args :
        LET now == Chain(methods, a)
            kept == {m \in Applicable(methods, a) : Sheltered(m)}
        IN  /\ Covers(direct.estimate, a)
            /\ \A m \in kept : Covers(m.specialisers, direct.estimate)
            => /\ kept = {m \in ToSet(direct.chain) : Sheltered(m)}
               /\ now # <<>> /\ now[1] \in kept => now[1] = direct.chain[1]
=============================================================================
