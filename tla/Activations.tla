---------------------------- MODULE Activations ----------------------------
(* The stacks of one thread that follow its calls (nod-runtime,              *)
(* conditions.rs, dispatch.rs, stack_map.rs): handlers, captured locals,     *)
(* next-method chains and the safepoints of compiled frames, as calls return *)
(* and as signals and exit procedures unwind them.                           *)
(*                                                                           *)
(* An activation is one call from compiled code: of a method, of a block     *)
(* (nod_run_block with the thunk it runs), or of nod_signal with the handler *)
(* thunk it runs.  What the compiled code on top does next is free.          *)
EXTENDS Naturals, Sequences, SequencesExt, FiniteSets

CONSTANTS
    Nil,
    Classes,         \* classes of conditions
    Kinds,           \* class -> it and its superclasses
    Blocks,          \* block id -> the classes its clauses handle, in order
    MaxDepth,        \* bounds the activations
    MaxFrames,       \* bounds the chain frames; once one has been left behind,
                     \* no more are pushed
    MaxChain         \* bounds the less specific methods of a call

\* What a Rust panic carries up the stack: NlxPayload, with the activation that
\* could catch it when it began, a ghost; "panic" is any other panic.
Payloads == [target : DOMAIN Blocks \cup {"panic"}, catcher : 0 .. MaxDepth]

ASSUME ActivationsAssumption ==
    /\ Kinds \in [Classes -> SUBSET Classes]
    /\ \A id \in DOMAIN Blocks : Blocks[id] \in Seq(Classes)
    /\ MaxDepth \in Nat \ {0} /\ MaxFrames \in Nat /\ MaxChain \in Nat \ {0}
    /\ "panic" \notin DOMAIN Blocks
    /\ Nil \notin Payloads

VARIABLES
    stack,           \* the activations, the newest last, known by their index
    handlers,        \* HANDLER_STACK
    captured,        \* CURRENT_BLOCK_CAPTURED, by the block that pushed
    chain,           \* METHOD_CHAIN_STACK
    safepoints,      \* ACTIVE_JIT_SAFEPOINTS, by the call that pushed
    payload,         \* the panic that unwinds the stack, if any
    over,            \* the program has ended
    leaked           \* ghost: an unwind has left a chain frame behind

vars == <<stack, handlers, captured, chain, safepoints, payload, over, leaked>>
blockVars == <<handlers, captured>>
chainVars == <<chain, leaked>>

Depth == Len(stack)
Top == stack[Depth]
Running == ~over /\ payload = Nil

Init ==
    /\ stack = <<>> /\ handlers = <<>> /\ captured = <<>> /\ chain = <<>>
    /\ safepoints = <<>>
    /\ payload = Nil /\ over = FALSE /\ leaked = FALSE

\* A call site with roots: nod_jit_begin_safepoint, then the callee runs.
Enter(activation) ==
    /\ Running /\ Depth < MaxDepth
    /\ stack' = Append(stack, activation)
    /\ safepoints' = Append(safepoints, Depth + 1)

\* The callee returns: nod_jit_end_safepoint pops, and asserts that it is its own.
Leave ==
    /\ stack' = Front(stack)
    /\ safepoints' = IF safepoints = <<>> THEN <<>> ELSE Front(safepoints)

\* The activation that can catch an exit is the newest of its block that is in
\* its body; 0 if there is none.
InBody(id) ==
    {i \in DOMAIN stack : /\ stack[i].kind = "block" /\ stack[i].id = id
                          /\ stack[i].phase = "body"}
Newest(set) == IF set = {} THEN 0 ELSE CHOOSE i \in set : \A j \in set : j <= i

Throw(target, catcher) == payload' = [target |-> target, catcher |-> catcher]

\* Mutant: frames that an exit has left stay.
KeepAll(seq, n) == seq

Truncate(seq, n) == IF Len(seq) > n THEN SubSeq(seq, 1, n) ELSE seq

-----------------------------------------------------------------------------
(* Methods and next-method.                                                  *)

\* nod_dispatch with several applicable methods ("guarded" by ChainFrameGuard),
\* a sealed direct call ("sealed"), or a call that pushes no frame ("bare"): a
\* cached one, a direct one, or one of a single applicable method.
CallMethod ==
    /\ \E frame \in {"guarded", "sealed", "bare"} :
          /\ Enter([kind |-> "method", frame |-> frame])
          /\ frame # "bare" => Len(chain) < MaxFrames /\ ~leaked
          /\ IF frame = "bare" THEN UNCHANGED chain
             ELSE \E n \in 1 .. MaxChain :
                    chain' = Append(chain, [owner |-> Depth + 1, left |-> n])
    /\ UNCHANGED <<blockVars, payload, over, leaked>>

ReturnMethod ==
    /\ Running /\ stack # <<>> /\ Top.kind = "method"
    /\ Leave
    /\ chain' = IF Top.frame = "bare" \/ chain = <<>> THEN chain ELSE Front(chain)
    /\ UNCHANGED <<blockVars, payload, over, leaked>>

\* nod_next_method takes the next method from the top frame and calls it, with
\* no frame of its own; or it panics.
\* Mutant: a frame is taken for a next method.
FrameThere == Len(chain)

NextMethods == IF chain = <<>> THEN 0 ELSE chain[Len(chain)].left

\* Mutant: the frame goes with its next method.
PopNext == Front(chain)

TakeNext == [chain EXCEPT ![Len(chain)].left = @ - 1]

CallNextMethod ==
    /\ NextMethods > 0
    /\ Enter([kind |-> "method", frame |-> "bare"])
    /\ chain' = TakeNext
    /\ UNCHANGED <<blockVars, payload, over, leaked>>

NoNextMethod ==
    /\ Running /\ stack # <<>>
    /\ NextMethods = 0
    /\ Throw("panic", 0)
    /\ safepoints' = Append(safepoints, 0)
    /\ UNCHANGED <<stack, blockVars, chainVars, over>>

-----------------------------------------------------------------------------
(* Blocks: nod_run_block.                                                    *)

Clauses(id, owner) ==
    [i \in DOMAIN Blocks[id] |->
        [class |-> Blocks[id][i], target |-> id, owner |-> owner]]

EnterBlock ==
    /\ \E id \in DOMAIN Blocks :
          /\ Enter([kind |-> "block", id |-> id, phase |-> "body",
                    handlerBase |-> Len(handlers),
                    safepointBase |-> Depth + 1, pending |-> Nil])
          /\ handlers' = handlers \o Clauses(id, Depth + 1)
    /\ captured' = Append(captured, Depth + 1)
    /\ UNCHANGED <<chainVars, payload, over>>

InBlock(phases) == stack # <<>> /\ Top.kind = "block" /\ Top.phase \in phases
SetPhase(phase) == stack' = [stack EXCEPT ![Depth].phase = phase]

\* The body returns: the cleanup runs, with the guard still armed.
ReturnBody ==
    /\ Running /\ InBlock({"body"})
    /\ SetPhase("cleanup")
    /\ UNCHANGED <<blockVars, chainVars, safepoints, payload, over>>

\* The cleanup returns, which disarms the guard; the afterwards clause runs.
ReturnCleanup ==
    /\ Running /\ InBlock({"cleanup"})
    /\ SetPhase("afterwards")
    /\ UNCHANGED <<blockVars, chainVars, safepoints, payload, over>>

ReturnBlock ==
    /\ Running /\ InBlock({"afterwards"})
    /\ handlers' = Truncate(handlers, Top.handlerBase)
    /\ captured' = Front(captured)
    /\ Leave
    /\ UNCHANGED <<chainVars, payload, over>>

\* Mutant: calls that an exit cut short stay.
NoCheckpoint == safepoints

\* The depth of the safepoint stack at entry is restored.
Checkpoint == Truncate(safepoints, Top.safepointBase)

\* catch_unwind in nod_run_block: the payload carries a block id.
Caught == InBlock({"body"}) /\ payload.target = Top.id

Catch ==
    /\ ~over /\ payload # Nil /\ Caught
    /\ safepoints' = Checkpoint
    /\ payload' = Nil
    /\ SetPhase("cleanup")
    /\ UNCHANGED <<blockVars, chainVars, over>>

\* Mutant: `done` is never set.
EverArmed == InBlock({"body", "cleanup", "afterwards"})

\* The guard's `done` is set between the cleanup and the afterwards clause.
Armed == InBlock({"body", "cleanup"})

\* CleanupGuard::drop, first part, of a guard that is still armed.
DropGuard ==
    /\ ~over /\ payload # Nil /\ Armed /\ ~Caught
    /\ safepoints' = Checkpoint
    /\ handlers' = Truncate(handlers, Top.handlerBase)
    /\ stack' = [stack EXCEPT ![Depth].phase = "dropping",
                              ![Depth].pending = payload]
    /\ payload' = Nil
    /\ UNCHANGED <<captured, chainVars, over>>

\* Its cleanup thunk, if there is one, returns, and the unwinding goes on.
ResumeUnwind ==
    /\ Running /\ InBlock({"dropping"})
    /\ payload' = Top.pending
    /\ stack' = [stack EXCEPT ![Depth].phase = "dropped",
                              ![Depth].pending = Nil]
    /\ UNCHANGED <<blockVars, chainVars, safepoints, over>>

\* The guard of a block that is unwound out of its afterwards clause is not
\* armed; either way the captured locals go last.
UnwindBlock ==
    /\ ~over /\ payload # Nil /\ InBlock({"afterwards", "dropped"})
    /\ safepoints' = Checkpoint
    /\ handlers' = Truncate(handlers, Top.handlerBase)
    /\ captured' = Front(captured)
    /\ stack' = Front(stack)
    /\ UNCHANGED <<chainVars, payload, over>>

\* A panic leaves a destructor that runs in an unwinding.
Abort ==
    /\ ~over /\ payload # Nil /\ InBlock({"dropping"})
    /\ over' = TRUE
    /\ UNCHANGED <<stack, blockVars, chainVars, safepoints, payload>>

-----------------------------------------------------------------------------
(* Signals and exits.                                                        *)

\* nod_signal_inner: the handler stack is searched from its top, and nothing is
\* popped.
Matching(class) ==
    {i \in DOMAIN handlers : handlers[i].class \in Kinds[class]}

\* Mutant: the search goes from the bottom of the stack.
Oldest(class) ==
    CHOOSE i \in Matching(class) : \A j \in Matching(class) : i <= j

Found(class) == Newest(Matching(class))

Signal ==
    /\ stack # <<>>
    /\ \E class \in Classes :
          /\ Matching(class) # {}
          /\ LET h == handlers[Found(class)] IN
             Enter([kind |-> "handler", target |-> h.target,
                    owner |-> h.owner])
    /\ UNCHANGED <<blockVars, chainVars, payload, over>>

Unhandled ==
    /\ Running /\ stack # <<>>
    /\ \E class \in Classes : Matching(class) = {}
    /\ Throw("panic", 0)
    /\ safepoints' = Append(safepoints, 0)
    /\ UNCHANGED <<stack, blockVars, chainVars, over>>

\* The handler thunk returns: the value goes to the block that has the id, which
\* is the block that established the handler if that is in its body.
ReturnHandler ==
    /\ Running /\ stack # <<>> /\ Top.kind = "handler"
    /\ Throw(Top.target, IF Top.owner \in InBody(Top.target) THEN Top.owner
                         ELSE Newest(InBody(Top.target)))
    /\ UNCHANGED <<stack, blockVars, chainVars, safepoints, over>>

\* nod_invoke_exit: an exit procedure, which knows the block's id only, and may
\* be called when the block has been left.
InvokeExit ==
    /\ Running /\ stack # <<>>
    /\ \E id \in DOMAIN Blocks : Throw(id, Newest(InBody(id)))
    /\ safepoints' = Append(safepoints, 0)
    /\ UNCHANGED <<stack, blockVars, chainVars, over>>

\* Once a frame has been left behind, nobody asks whose the others are.
Disowned == [i \in DOMAIN chain |-> [chain[i] EXCEPT !.owner = 0]]

\* Compiled frames, and nod_signal's, have nothing to drop.  The calls made
\* through call_method's `extern "C"` pointers are not expected to unwind: the
\* guard above them may have been optimised away.
UnwindCall ==
    /\ ~over /\ payload # Nil /\ stack # <<>> /\ Top.kind # "block"
    /\ stack' = Front(stack)
    /\ IF Top.kind = "handler" \/ Top.frame = "bare" THEN UNCHANGED chainVars
       ELSE \/ /\ Top.frame = "guarded" /\ chain # <<>>
               /\ chain' = Front(chain)
               /\ UNCHANGED leaked
            \/ leaked' = TRUE /\ chain' = Disowned
    /\ UNCHANGED <<blockVars, safepoints, payload, over>>

\* The panic reaches the top of the thread.
Uncaught ==
    /\ ~over /\ payload # Nil /\ stack = <<>>
    /\ over' = TRUE
    /\ UNCHANGED <<stack, blockVars, chainVars, safepoints, payload>>

Next ==
    \/ CallMethod \/ ReturnMethod \/ CallNextMethod \/ NoNextMethod
    \/ EnterBlock \/ ReturnBody \/ ReturnCleanup \/ ReturnBlock
    \/ Catch \/ DropGuard \/ ResumeUnwind \/ UnwindBlock \/ Abort
    \/ Signal \/ Unhandled \/ ReturnHandler \/ InvokeExit
    \/ UnwindCall \/ Uncaught

Spec == Init /\ [][Next]_vars

-----------------------------------------------------------------------------
(* Properties.                                                               *)

MethodCalls == [kind : {"method"}, frame : {"guarded", "sealed", "bare"}]
BlockCalls ==
    [kind : {"block"}, id : DOMAIN Blocks,
     phase : {"body", "cleanup", "afterwards", "dropping", "dropped"},
     handlerBase : Nat, safepointBase : 1 .. MaxDepth,
     pending : Payloads \cup {Nil}]
HandlerCalls == [kind : {"handler"}, target : DOMAIN Blocks, owner : 1 .. MaxDepth]
Calls == MethodCalls \cup BlockCalls \cup HandlerCalls

Handlers == [class : Classes, target : DOMAIN Blocks, owner : 1 .. MaxDepth]
Frames == [owner : 0 .. MaxDepth, left : 0 .. MaxChain]

\* Types.
TypeOK ==
    /\ stack \in Seq(Calls) /\ Depth <= MaxDepth
    /\ handlers \in Seq(Handlers)
    /\ captured \in Seq(1 .. MaxDepth) /\ safepoints \in Seq(0 .. MaxDepth)
    /\ chain \in Seq(Frames)
    /\ payload \in Payloads \cup {Nil}
    /\ over \in BOOLEAN /\ leaked \in BOOLEAN

\* The sequence has the members of the set, once each, in increasing order.
Lists(seq, set) ==
    /\ {seq[i] : i \in DOMAIN seq} = set
    /\ \A i, j \in DOMAIN seq : i < j => seq[i] < seq[j]

InBlocks == {i \in DOMAIN stack : stack[i].kind = "block"}

\* The blocks that no non-local exit is leaving.
Live == {i \in InBlocks : stack[i].phase \notin {"dropping", "dropped"}}

HandlersOf(i) == {j \in DOMAIN handlers : handlers[j].owner = i}

\* The handler stack is always what the blocks in progress have pushed, in the
\* order they were entered, without those that a non-local exit is leaving; and
\* the captured locals are theirs.  So a signal never finds a handler of a block
\* that has been left.
HandlersOfBlocks ==
    /\ \A j \in DOMAIN handlers : handlers[j].owner \in Live
    /\ \A i, j \in DOMAIN handlers : i < j => handlers[i].owner <= handlers[j].owner
    /\ \A i \in Live :
          LET base == stack[i].handlerBase
              own == Clauses(stack[i].id, i)
          IN /\ HandlersOf(i) = {base + k : k \in DOMAIN own}
             /\ \A k \in DOMAIN own : handlers[base + k] = own[k]
    /\ Lists(captured, InBlocks)

\* When compiled code runs, every compiled frame below it, and no other, is in
\* the safepoint stack, in order: the collector finds its roots and reads no
\* frame that an exit has left.  So nod_jit_end_safepoint's assertion holds.
SafepointsOfFrames == Running => safepoints = [i \in DOMAIN stack |-> i]

\* Unless an unwind has left a frame behind, the chain stack has the frames of
\* the dispatched methods in progress: next-method in such a method goes on
\* with that method's own chain.
Framed ==
    {i \in DOMAIN stack : stack[i].kind = "method" /\ stack[i].frame # "bare"}

ChainOfMethods ==
    ~leaked => Lists([i \in DOMAIN chain |-> chain[i].owner], Framed)

\* An exit is caught by the activation that could catch it when it began, and so
\* a handler's value is returned by the block that established the handler, if
\* that was in its body; and only an exit that had no such activation leaves the
\* thread.  (An exit from the cleanup of an unwinding may abort the process.)
ExitsReachTheirBlock ==
    [][ /\ payload # Nil /\ payload' = Nil /\ Caught => Depth = payload.catcher
        /\ over' /\ stack = <<>> => payload.catcher = 0 ]_vars

\* However a block is left, its cleanup completes once, innermost first.
Scope(i) ==
    [scope |-> i, cleaned |-> stack[i].phase \in {"afterwards", "dropped"}]

ScopesOf == [i \in DOMAIN captured |-> Scope(captured[i])]

BS == INSTANCE BlockScopes WITH Scopes <- 1 .. MaxDepth, scopes <- ScopesOf

ImplementsBlockScopes == BS!Spec
=============================================================================
