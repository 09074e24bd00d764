------------------------ MODULE Activations_proofs ------------------------
(***************************************************************************)
(* Proofs about Activations, for any condition classes, blocks and bounds: *)
(* typing, the four invariants of the stacks, where exits are caught, and  *)
(* that blocks and their cleanups are scoped as BlockScopes says.          *)
(*                                                                         *)
(* The invariant relates each stack to the activations: the handler stack  *)
(* is cut by the handlerBase of every block in progress into the handlers  *)
(* of older blocks and those of newer ones, so that truncating it to the   *)
(* base of the newest block removes that block's handlers and no other.    *)
(* The catcher of an exit is the newest block of its id in the body, which *)
(* no step between its throw and its catch changes; a pending exit, under  *)
(* a cleanup, keeps its catcher among the blocks below that cleanup.       *)
(***************************************************************************)
EXTENDS Activations, Orders

\* The blocks of an id in their bodies, and those of them below an activation.
Bodies(s, id) ==
    {i \in DOMAIN s : s[i].kind = "block" /\ s[i].id = id /\ s[i].phase = "body"}
Below(s, id, n) == {i \in Bodies(s, id) : i < n}

\* Each frame's safepoint is in its place; a panic may leave others above.
SafepointInv ==
    /\ Depth <= Len(safepoints)
    /\ \A i \in DOMAIN stack : safepoints[i] = i
    /\ Running => Len(safepoints) = Depth
    /\ \A i \in InBlocks : stack[i].safepointBase = i

\* Every block cuts the handler stack at its base; one that is live has its own
\* handlers there.
HandlerInv ==
    /\ \A j \in DOMAIN handlers : handlers[j].owner \in Live
    /\ \A i \in InBlocks :
          /\ stack[i].handlerBase <= Len(handlers)
          /\ \A j \in DOMAIN handlers :
                handlers[j].owner < i <=> j <= stack[i].handlerBase
    /\ \A i \in Live :
          LET base == stack[i].handlerBase
              own == Clauses(stack[i].id, i)
          IN /\ base + Len(own) <= Len(handlers)
             /\ \A j \in DOMAIN handlers :
                   handlers[j].owner <= i <=> j <= base + Len(own)
             /\ \A k \in DOMAIN own : handlers[base + k] = own[k]

\* The catcher of an exit under way, of one that waits for a cleanup, and of one
\* that a handler will begin.
ExitInv ==
    /\ payload # Nil => payload.catcher = Newest(Bodies(stack, payload.target))
    /\ \A i \in InBlocks : stack[i].phase = "dropping" =>
          /\ stack[i].pending # Nil
          /\ stack[i].pending.catcher = Newest(Below(stack, stack[i].pending.target, i))
    /\ \A i \in DOMAIN stack : stack[i].kind = "handler" =>
          /\ stack[i].owner < i
          /\ \A j \in Below(stack, stack[i].target, i) : j <= stack[i].owner

-----------------------------------------------------------------------------
\* Vec::truncate leaves the elements below.
LEMMA TruncateOf ==
    ASSUME NEW S, NEW s \in Seq(S), NEW n \in Nat, n <= Len(s)
    PROVE  /\ Truncate(s, n) \in Seq(S)
           /\ Len(Truncate(s, n)) = n /\ DOMAIN Truncate(s, n) = 1 .. n
           /\ \A i \in 1 .. n : Truncate(s, n)[i] = s[i]
<1>1. CASE Len(s) > n
  BY <1>1, PrefixOf, Zenon DEF Truncate
<1>2. CASE ~(Len(s) > n)
  <2>1. Len(s) = n /\ DOMAIN s = 1 .. Len(s)
    BY <1>2, LenProperties
  <2>2. QED
    BY <1>2, <2>1, Zenon DEF Truncate
<1>3. QED
  BY <1>1, <1>2

\* The two ways to say it.
LEMMA SameBodies == \A id : InBody(id) = Bodies(stack, id)
BY DEF InBody, Bodies

\* The newest of some activations is one of them, with none newer.
LEMMA NewestOf ==
    ASSUME NEW n \in Nat, NEW N \in SUBSET (1 .. n)
    PROVE  /\ N # {} => Newest(N) \in N /\ \A j \in N : j <= Newest(N)
           /\ N = {} => Newest(N) = 0
           /\ Newest(N) \in 0 .. n
<1>1. CASE N # {}
  <2> DEFINE M == {n - i : i \in N}
  <2>0. \A i \in N : i \in Nat /\ 1 <= i /\ i <= n
    OBVIOUS
  <2>1. M \in SUBSET Nat /\ M # {}
    <3>1. ASSUME NEW i \in N PROVE n - i \in Nat
      BY <2>0
    <3>2. QED
      BY <1>1, <3>1
  <2>2. PICK m \in M : \A k \in M : m <= k
    BY <2>1, SomeLeast
  <2>3. PICK i \in N : m = n - i
    BY <2>2
  <2>4. \A j \in N : j <= i
    <3>1. ASSUME NEW j \in N PROVE n - j \in M
      OBVIOUS
    <3>2. QED
      BY <2>0, <2>2, <2>3, <3>1
  <2>5. Newest(N) \in N /\ \A j \in N : j <= Newest(N)
    BY <1>1, <2>4 DEF Newest
  <2>6. Newest(N) \in 0 .. n
    <3> DEFINE k == Newest(N)
    <3>1. k \in Nat /\ 1 <= k /\ k <= n
      BY <2>0, <2>5
    <3> HIDE DEF k
    <3>2. k \in 0 .. n
      BY <3>1
    <3>3. QED
      BY <3>2 DEF k
  <2>7. QED
    BY <1>1, <2>5, <2>6
<1>2. CASE N = {}
  BY <1>2 DEF Newest
<1>3. QED
  BY <1>1, <1>2

\* A call has been made.
LEMMA Pushed ==
    ASSUME TypeOK, NEW c \in Calls, stack' = Append(stack, c), Depth < MaxDepth
    PROVE  /\ stack' \in Seq(Calls) /\ Depth \in Nat /\ Depth' = Depth + 1
           /\ Depth' <= MaxDepth /\ Depth' \in 1 .. MaxDepth
           /\ DOMAIN stack = 1 .. Depth /\ DOMAIN stack' = 1 .. Depth + 1
           /\ \A i \in DOMAIN stack : stack'[i] = stack[i]
           /\ stack'[Depth + 1] = c
<1>1. stack \in Seq(Calls) /\ MaxDepth \in Nat
  BY ActivationsAssumption DEF TypeOK
<1>2. /\ stack' \in Seq(Calls) /\ Depth \in Nat /\ Depth' = Depth + 1
      /\ DOMAIN stack = 1 .. Depth /\ DOMAIN stack' = 1 .. Depth + 1
      /\ \A i \in 1 .. Depth : stack'[i] = stack[i]
      /\ stack'[Depth + 1] = c
  <2> HIDE DEF Calls
  <2> QED BY <1>1, AppendOf DEF Depth
<1>3. Depth + 1 <= MaxDepth /\ Depth + 1 \in 1 .. MaxDepth
  BY <1>1, <1>2
<1>4. QED
  BY <1>2, <1>3

\* A call has been left.
LEMMA Popped ==
    ASSUME TypeOK, stack # <<>>, stack' = Front(stack)
    PROVE  /\ stack' \in Seq(Calls) /\ Depth \in Nat \ {0} /\ Depth' = Depth - 1
           /\ Depth' <= MaxDepth
           /\ DOMAIN stack = 1 .. Depth /\ DOMAIN stack' = 1 .. Depth - 1
           /\ DOMAIN stack' \subseteq DOMAIN stack
           /\ \A i \in DOMAIN stack' : stack'[i] = stack[i]
<1>1. stack \in Seq(Calls) /\ MaxDepth \in Nat /\ Depth <= MaxDepth
  BY ActivationsAssumption DEF TypeOK
<1>2. /\ stack' \in Seq(Calls) /\ Depth \in Nat \ {0} /\ Depth' = Depth - 1
      /\ DOMAIN stack = 1 .. Depth /\ DOMAIN stack' = 1 .. Depth - 1
      /\ \A i \in 1 .. Depth - 1 : stack'[i] = stack[i]
  <2> HIDE DEF Calls
  <2> QED BY <1>1, FrontOf, Zenon DEF Depth
<1>3. Depth - 1 <= MaxDepth /\ DOMAIN stack' \subseteq DOMAIN stack
  BY <1>1, <1>2
<1>4. QED
  BY <1>2, <1>3

\* The call on top goes on.
LEMMA Adjusted ==
    ASSUME TypeOK, stack # <<>>, NEW c \in Calls, stack' = [stack EXCEPT ![Depth] = c]
    PROVE  /\ stack' \in Seq(Calls) /\ Depth \in Nat \ {0} /\ Depth' = Depth
           /\ Depth' <= MaxDepth /\ Depth \in DOMAIN stack
           /\ DOMAIN stack = 1 .. Depth /\ DOMAIN stack' = DOMAIN stack
           /\ \A i \in DOMAIN stack : i # Depth => stack'[i] = stack[i]
           /\ stack'[Depth] = c
<1>1. stack \in Seq(Calls) /\ Depth <= MaxDepth
  BY DEF TypeOK
<1>2. Depth \in Nat \ {0} /\ DOMAIN stack = 1 .. Depth /\ Depth \in 1 .. Depth
  <2>1. Depth \in Nat \ {0} /\ DOMAIN stack = 1 .. Depth
    BY <1>1, EmptySeq, LenProperties DEF Depth
  <2>2. QED
    BY <2>1
<1>3. stack' \in Seq(Calls) /\ Depth' = Depth
  BY <1>1, <1>2, ExceptSeq DEF Depth
<1>4. QED
  BY <1>1, <1>2, <1>3

\* What the call on top is.
LEMMA OnTop ==
    ASSUME TypeOK, stack # <<>>
    PROVE  /\ Depth \in Nat \ {0} /\ Depth \in DOMAIN stack /\ Top \in Calls
           /\ DOMAIN stack = 1 .. Depth /\ Depth \in 1 .. MaxDepth
           /\ Top.kind = "method" => Top \in MethodCalls
           /\ Top.kind = "block" => Top \in BlockCalls
           /\ Top.kind = "handler" => Top \in HandlerCalls
<1>1. stack \in Seq(Calls) /\ Depth <= MaxDepth /\ MaxDepth \in Nat
  BY ActivationsAssumption DEF TypeOK
<1>2. Depth \in Nat \ {0} /\ DOMAIN stack = 1 .. Depth
  BY <1>1, EmptySeq, LenProperties DEF Depth
<1>3. Depth \in 1 .. Depth /\ Depth \in 1 .. MaxDepth
  BY <1>1, <1>2
<1>4. Top \in Calls
  BY <1>1, <1>2, <1>3, ElementOfSeq DEF Top, Depth
<1>5. QED
  BY <1>2, <1>3, <1>4 DEF Calls, MethodCalls, BlockCalls, HandlerCalls

\* What is left of a stack has its type.
LEMMA Parts ==
    ASSUME NEW S, NEW s \in Seq(S)
    PROVE  /\ Front(s) \in Seq(S)
           /\ \A n \in Nat : Truncate(s, n) \in Seq(S)
<1>1. CASE s = <<>>
  <2>1. Front(s) = <<>>
    BY <1>1, SubSeqEmpty DEF Front
  <2>2. \A n \in Nat : Truncate(s, n) = s
    BY <1>1 DEF Truncate
  <2>3. QED
    BY <2>1, <2>2
<1>2. CASE s # <<>>
  <2>1. Len(s) \in Nat \ {0} 
    BY <1>2, EmptySeq, LenProperties
  <2>2. Front(s) \in Seq(S)
    BY <2>1 DEF Front
  <2>3. ASSUME NEW n \in Nat PROVE Truncate(s, n) \in Seq(S)
    BY <2>1 DEF Truncate
  <2>4. QED
    BY <2>2, <2>3
<1>3. QED
  BY <1>1, <1>2

\* A block goes on to another phase.
Moves(phase, pending) ==
    /\ stack # <<>> /\ Top \in BlockCalls /\ pending \in Payloads \cup {Nil}
    /\ phase \in {"cleanup", "afterwards", "dropping", "dropped"}
    /\ stack' = [stack EXCEPT ![Depth] =
                    [Top EXCEPT !.phase = phase, !.pending = pending]]

\* What such a step does to the stack.
LEMMA Moved ==
    ASSUME TypeOK, NEW phase, NEW pending, Moves(phase, pending)
    PROVE  /\ stack' \in Seq(Calls) /\ Depth \in Nat \ {0} /\ Depth' = Depth
           /\ Depth' <= MaxDepth /\ Depth \in DOMAIN stack
           /\ DOMAIN stack = 1 .. Depth /\ DOMAIN stack' = DOMAIN stack
           /\ \A i \in DOMAIN stack : i # Depth => stack'[i] = stack[i]
           /\ stack[Depth].kind = "block" /\ stack'[Depth].kind = "block"
           /\ stack'[Depth].id = stack[Depth].id
           /\ stack'[Depth].handlerBase = stack[Depth].handlerBase
           /\ stack'[Depth].safepointBase = stack[Depth].safepointBase
           /\ stack'[Depth].phase = phase /\ stack'[Depth].pending = pending
<1> DEFINE c == [Top EXCEPT !.phase = phase, !.pending = pending]
<1>1. c \in Calls
  BY DEF Moves, BlockCalls, Calls
<1>2. /\ c.kind = "block" /\ Top.kind = "block" /\ c.id = Top.id
      /\ c.handlerBase = Top.handlerBase /\ c.safepointBase = Top.safepointBase
      /\ c.phase = phase /\ c.pending = pending
  BY DEF Moves, BlockCalls
<1>3. stack # <<>> /\ stack' = [stack EXCEPT ![Depth] = c]
  BY DEF Moves
<1> HIDE DEF c
<1>4. QED
  BY <1>1, <1>2, <1>3, Adjusted DEF Top

\* The actions that do that.
LEMMA Movers ==
    ASSUME TypeOK
    PROVE  /\ ReturnBody => Moves("cleanup", Top.pending)
           /\ ReturnCleanup => Moves("afterwards", Top.pending)
           /\ Catch => Moves("cleanup", Top.pending)
           /\ DropGuard => Moves("dropping", payload)
           /\ ResumeUnwind => Moves("dropped", Nil)
<1>1. ASSUME stack # <<>>, Top.kind = "block"
      PROVE  /\ Depth \in DOMAIN stack /\ Top \in BlockCalls
             /\ Top.pending \in Payloads \cup {Nil}
             /\ DOMAIN Top = {"kind", "id", "phase", "handlerBase",
                              "safepointBase", "pending"}
  BY <1>1, OnTop DEF BlockCalls
<1>2. ASSUME stack # <<>>, Top.kind = "block", NEW p, SetPhase(p)
      PROVE  stack' = [stack EXCEPT ![Depth] =
                         [Top EXCEPT !.phase = p, !.pending = Top.pending]]
  <2>1. [Top EXCEPT !.phase = p, !.pending = Top.pending] = [Top EXCEPT !.phase = p]
    BY <1>1, <1>2 DEF BlockCalls
  <2>2. QED
    BY <1>1, <1>2, <2>1 DEF SetPhase, Top
<1>3. ReturnBody => Moves("cleanup", Top.pending)
  BY <1>1, <1>2 DEF ReturnBody, InBlock, Moves
<1>4. ReturnCleanup => Moves("afterwards", Top.pending)
  BY <1>1, <1>2 DEF ReturnCleanup, InBlock, Moves
<1>5. Catch => Moves("cleanup", Top.pending)
  BY <1>1, <1>2 DEF Catch, Caught, InBlock, Moves
<1>6. DropGuard => Moves("dropping", payload)
  <2>1. SUFFICES ASSUME DropGuard PROVE Moves("dropping", payload)
    OBVIOUS
  <2>2. stack # <<>> /\ Top.kind = "block" /\ payload \in Payloads \cup {Nil}
    BY <2>1 DEF DropGuard, Armed, InBlock, TypeOK
  <2>3. stack' = [stack EXCEPT ![Depth] =
                    [Top EXCEPT !.phase = "dropping", !.pending = payload]]
    BY <1>1, <2>1, <2>2 DEF DropGuard, Top
  <2>4. QED
    BY <1>1, <2>2, <2>3 DEF Moves
<1>7. ResumeUnwind => Moves("dropped", Nil)
  <2>1. SUFFICES ASSUME ResumeUnwind PROVE Moves("dropped", Nil)
    OBVIOUS
  <2>2. stack # <<>> /\ Top.kind = "block"
    BY <2>1 DEF ResumeUnwind, InBlock
  <2>3. stack' = [stack EXCEPT ![Depth] =
                    [Top EXCEPT !.phase = "dropped", !.pending = Nil]]
    BY <1>1, <2>1, <2>2 DEF ResumeUnwind, Top
  <2>4. QED
    BY <1>1, <2>2, <2>3 DEF Moves
<1>8. QED
  BY <1>3, <1>4, <1>5, <1>6, <1>7

\* The bounds.
LEMMA TypeSets ==
    /\ MaxDepth \in Nat /\ MaxChain \in Nat
    /\ 0 \in 0 .. MaxDepth /\ 1 .. MaxDepth \subseteq 0 .. MaxDepth
    /\ 1 .. MaxDepth \subseteq Nat /\ 1 .. MaxChain \subseteq 0 .. MaxChain
BY ActivationsAssumption

\* The catcher of an exit.
LEMMA CatcherType ==
    ASSUME TypeOK, NEW id
    PROVE  Newest(InBody(id)) \in 0 .. MaxDepth
<1>1. Depth \in Nat /\ DOMAIN stack = 1 .. Depth /\ Depth <= MaxDepth
  BY LenProperties DEF TypeOK, Depth
<1>2. InBody(id) \in SUBSET (1 .. Depth)
  BY <1>1 DEF InBody
<1>3. Newest(InBody(id)) \in 0 .. Depth
  BY <1>1, <1>2, NewestOf, Zenon
<1>4. QED
  BY <1>1, <1>3, TypeSets

\* The bound on activations leaves room for the one entered.
LEMMA Room ==
    ASSUME TypeOK, Depth < MaxDepth
    PROVE  /\ Depth \in Nat /\ Depth + 1 \in 1 .. MaxDepth
           /\ Depth + 1 \in 0 .. MaxDepth
<1>1. Depth \in Nat
  BY LenProperties DEF TypeOK, Depth
<1>2. QED
  BY <1>1, TypeSets

\* A call keeps the types of the stack and of the safepoints.
LEMMA Entered ==
    ASSUME TypeOK, NEW c \in Calls, Enter(c)
    PROVE  /\ stack' \in Seq(Calls) /\ Depth' <= MaxDepth
           /\ safepoints' \in Seq(0 .. MaxDepth) /\ Depth + 1 \in 0 .. MaxDepth
<1>1. stack' \in Seq(Calls) /\ Depth' <= MaxDepth
  BY Pushed DEF Enter
<1>2. Depth + 1 \in 0 .. MaxDepth
  BY Room DEF Enter
<1>3. safepoints' \in Seq(0 .. MaxDepth)
  BY <1>2, AppendOf, Zenon DEF Enter, TypeOK
<1>4. QED
  BY <1>1, <1>2, <1>3

\* Taking a next method leaves the frames and whose they are.
LEMMA TakenNext ==
    ASSUME TypeOK, NextMethods > 0
    PROVE  /\ chain # <<>> /\ TakeNext \in Seq(Frames)
           /\ DOMAIN TakeNext = DOMAIN chain
           /\ \A i \in DOMAIN chain : TakeNext[i].owner = chain[i].owner
<1>1. chain # <<>> /\ chain \in Seq(Frames)
  BY DEF NextMethods, TypeOK
<1>2. Len(chain) \in 1 .. Len(chain) /\ DOMAIN chain = 1 .. Len(chain)
  <2>1. Len(chain) \in Nat \ {0} /\ DOMAIN chain = 1 .. Len(chain)
    BY <1>1, EmptySeq, LenProperties
  <2>2. QED
    BY <2>1
<1> DEFINE f == chain[Len(chain)]
<1>3. f \in Frames
  BY <1>1, <1>2, ElementOfSeq
<1>4. [f EXCEPT !.left = @ - 1] \in Frames
  BY <1>1, <1>3, TypeSets, SMTT(30) DEF Frames, NextMethods
<1>5. TakeNext = [chain EXCEPT ![Len(chain)] = [f EXCEPT !.left = @ - 1]]
  BY <1>2 DEF TakeNext
<1>6. TakeNext \in Seq(Frames)
  <2> HIDE DEF f, Frames
  <2> QED BY <1>1, <1>2, <1>4, <1>5, ExceptSeq
<1>7. /\ DOMAIN TakeNext = DOMAIN chain
      /\ \A i \in DOMAIN chain : TakeNext[i].owner = chain[i].owner
  BY <1>2, <1>3, <1>5 DEF Frames
<1>8. QED
  BY <1>1, <1>6, <1>7

\* Frames that nobody owns are frames.
LEMMA DisownedOf ==
    ASSUME TypeOK
    PROVE  Disowned \in Seq(Frames)
<1>1. /\ Len(chain) \in Nat /\ DOMAIN chain = 1 .. Len(chain)
      /\ \A i \in 1 .. Len(chain) : chain[i] \in Frames
  BY LenProperties, ElementOfSeq DEF TypeOK
<1>2. \A i \in 1 .. Len(chain) : [chain[i] EXCEPT !.owner = 0] \in Frames
  BY <1>1, TypeSets DEF Frames
<1>3. QED
  BY <1>1, <1>2, IsASeq DEF Disowned

\* The handlers of a block.
LEMMA ClausesOf ==
    ASSUME NEW id \in DOMAIN Blocks, NEW i \in 1 .. MaxDepth
    PROVE  /\ Clauses(id, i) \in Seq(Handlers)
           /\ DOMAIN Clauses(id, i) = DOMAIN Blocks[id]
           /\ Len(Clauses(id, i)) = Len(Blocks[id]) /\ Len(Blocks[id]) \in Nat
           /\ DOMAIN Blocks[id] = 1 .. Len(Blocks[id])
           /\ \A k \in DOMAIN Blocks[id] :
                 Clauses(id, i)[k] = [class |-> Blocks[id][k], target |-> id, owner |-> i]
<1>1. Blocks[id] \in Seq(Classes)
  BY ActivationsAssumption
<1> DEFINE n == Len(Blocks[id])
<1>2. n \in Nat /\ DOMAIN Blocks[id] = 1 .. n /\ \A k \in 1 .. n : Blocks[id][k] \in Classes
  BY <1>1, LenProperties, ElementOfSeq
<1> HIDE DEF n
<1>3. /\ DOMAIN Clauses(id, i) = 1 .. n
      /\ \A k \in 1 .. n :
            Clauses(id, i)[k] = [class |-> Blocks[id][k], target |-> id, owner |-> i]
  BY <1>2 DEF Clauses
<1>4. \A k \in 1 .. n : Clauses(id, i)[k] \in Handlers
  BY <1>2, <1>3 DEF Handlers
<1>5. Clauses(id, i) = [k \in 1 .. n |-> Clauses(id, i)[k]]
  BY <1>2 DEF Clauses
<1>6. Clauses(id, i) \in Seq(Handlers)
  <2> HIDE DEF Clauses
  <2> QED BY <1>2, <1>4, <1>5, IsASeq
<1>7. Len(Clauses(id, i)) = n
  BY <1>2, <1>3, <1>6, LenProperties
<1>8. QED
  BY <1>2, <1>3, <1>6, <1>7 DEF n

\* What a search finds.
LEMMA FoundOf ==
    ASSUME TypeOK, NEW class, Matching(class) # {}
    PROVE  /\ Found(class) \in DOMAIN handlers /\ Found(class) \in Matching(class)
           /\ \A j \in Matching(class) : j <= Found(class)
           /\ handlers[Found(class)] \in Handlers
<1>1. Len(handlers) \in Nat /\ DOMAIN handlers = 1 .. Len(handlers)
  BY LenProperties DEF TypeOK
<1>2. Matching(class) \in SUBSET (1 .. Len(handlers))
  BY <1>1 DEF Matching
<1>3. Found(class) \in Matching(class) /\ \A j \in Matching(class) : j <= Found(class)
  BY <1>1, <1>2, NewestOf, Zenon DEF Found
<1>4. Found(class) \in DOMAIN handlers
  BY <1>1, <1>2, <1>3
<1>5. QED
  BY <1>1, <1>3, <1>4, ElementOfSeq DEF TypeOK

\* The actions that make calls.
LEMMA Callers ==
    ASSUME TypeOK
    PROVE  /\ CallMethod => \E c \in MethodCalls :
                 /\ Enter(c)
                 /\ IF c.frame = "bare" THEN UNCHANGED chain
                    ELSE \E n \in 1 .. MaxChain :
                           chain' = Append(chain, [owner |-> Depth + 1, left |-> n])
           /\ CallNextMethod => \E c \in MethodCalls : Enter(c) /\ c.frame = "bare"
           /\ EnterBlock => \E c \in BlockCalls :
                 /\ Enter(c) /\ c.phase = "body" /\ c.handlerBase = Len(handlers)
                 /\ c.safepointBase = Depth + 1
                 /\ handlers' = handlers \o Clauses(c.id, Depth + 1)
           /\ Signal => \E class \in Classes : \E c \in HandlerCalls :
                 /\ Enter(c) /\ Matching(class) # {}
                 /\ c.target = handlers[Found(class)].target
                 /\ c.owner = handlers[Found(class)].owner
<1>1. ASSUME CallMethod
      PROVE  \E c \in MethodCalls :
                 /\ Enter(c)
                 /\ IF c.frame = "bare" THEN UNCHANGED chain
                    ELSE \E n \in 1 .. MaxChain :
                           chain' = Append(chain, [owner |-> Depth + 1, left |-> n])
  <2>1. PICK frame \in {"guarded", "sealed", "bare"} :
           /\ Enter([kind |-> "method", frame |-> frame])
           /\ IF frame = "bare" THEN UNCHANGED chain
              ELSE \E n \in 1 .. MaxChain :
                     chain' = Append(chain, [owner |-> Depth + 1, left |-> n])
    BY <1>1 DEF CallMethod
  <2> DEFINE c == [kind |-> "method", frame |-> frame]
  <2>2. c \in MethodCalls /\ c.frame = frame
    BY DEF MethodCalls
  <2>3. QED
    BY <2>1, <2>2
<1>2. CallNextMethod => \E c \in MethodCalls : Enter(c) /\ c.frame = "bare"
  <2> DEFINE c == [kind |-> "method", frame |-> "bare"]
  <2>1. c \in MethodCalls /\ c.frame = "bare"
    BY DEF MethodCalls
  <2>2. CallNextMethod => Enter(c)
    BY DEF CallNextMethod
  <2>3. QED
    BY <2>1, <2>2
<1>3. ASSUME EnterBlock
      PROVE  \E c \in BlockCalls :
                 /\ Enter(c) /\ c.phase = "body" /\ c.handlerBase = Len(handlers)
                 /\ c.safepointBase = Depth + 1
                 /\ handlers' = handlers \o Clauses(c.id, Depth + 1)
  <2>1. PICK id \in DOMAIN Blocks :
           /\ Enter([kind |-> "block", id |-> id, phase |-> "body",
                     handlerBase |-> Len(handlers),
                     safepointBase |-> Depth + 1, pending |-> Nil])
           /\ handlers' = handlers \o Clauses(id, Depth + 1)
    BY <1>3 DEF EnterBlock
  <2> DEFINE c == [kind |-> "block", id |-> id, phase |-> "body",
                   handlerBase |-> Len(handlers),
                   safepointBase |-> Depth + 1, pending |-> Nil]
  <2>2. Depth + 1 \in 1 .. MaxDepth /\ Len(handlers) \in Nat
    BY <2>1, Room, LenProperties DEF Enter, TypeOK
  <2>3. /\ c \in BlockCalls /\ c.phase = "body" /\ c.handlerBase = Len(handlers)
        /\ c.safepointBase = Depth + 1 /\ c.id = id
    BY <2>2 DEF BlockCalls
  <2> HIDE DEF c
  <2>4. QED
    BY <2>1, <2>3 DEF c
<1>4. ASSUME Signal
      PROVE  \E class \in Classes : \E c \in HandlerCalls :
                 /\ Enter(c) /\ Matching(class) # {}
                 /\ c.target = handlers[Found(class)].target
                 /\ c.owner = handlers[Found(class)].owner
  <2>1. PICK class \in Classes :
           /\ Matching(class) # {}
           /\ Enter([kind |-> "handler", target |-> handlers[Found(class)].target,
                     owner |-> handlers[Found(class)].owner])
    BY <1>4 DEF Signal
  <2> DEFINE c == [kind |-> "handler", target |-> handlers[Found(class)].target,
                   owner |-> handlers[Found(class)].owner]
  <2>2. handlers[Found(class)] \in Handlers
    BY <2>1, FoundOf
  <2>3. /\ c \in HandlerCalls /\ c.target = handlers[Found(class)].target
        /\ c.owner = handlers[Found(class)].owner
    BY <2>2 DEF HandlerCalls, Handlers
  <2>4. QED
    BY <2>1, <2>3
<1>5. QED
  BY <1>1, <1>2, <1>3, <1>4

\* Every step keeps the types.
LEMMA TypeStep ==
    ASSUME TypeOK, [Next]_vars
    PROVE  TypeOK'
<1>1. ASSUME CallMethod PROVE TypeOK'
  <2>1. PICK c \in Calls : Enter(c)
    BY <1>1, Callers, Zenon DEF Calls
  <2>2. /\ stack' \in Seq(Calls) /\ Depth' <= MaxDepth
        /\ safepoints' \in Seq(0 .. MaxDepth)
    BY <2>1, Entered
  <2>3. chain' \in Seq(Frames)
    <3>1. CASE UNCHANGED chain
      BY <3>1 DEF TypeOK
    <3>2. ASSUME NEW n \in 1 .. MaxChain,
                 chain' = Append(chain, [owner |-> Depth + 1, left |-> n])
          PROVE  chain' \in Seq(Frames)
      <4>1. [owner |-> Depth + 1, left |-> n] \in Frames
        BY <2>1, Entered, TypeSets DEF Frames
      <4>2. QED
        BY <3>2, <4>1, AppendOf, Zenon DEF TypeOK
    <3>3. QED
      BY <1>1, <3>1, <3>2 DEF CallMethod
  <2>4. QED
    BY <1>1, <2>2, <2>3 DEF TypeOK, CallMethod, blockVars
<1>2. ASSUME ReturnMethod PROVE TypeOK'
  <2>1. stack # <<>> /\ stack' = Front(stack)
    BY <1>2 DEF ReturnMethod, Leave, InBlock
  <2>2. stack' \in Seq(Calls) /\ Depth' <= MaxDepth
    BY <2>1, Popped
  <2>3. chain' \in Seq(Frames)
    BY <1>2, Parts DEF ReturnMethod, Leave, TypeOK
  <2>4. safepoints' \in Seq(0 .. MaxDepth)
    BY <1>2, Parts DEF ReturnMethod, Leave, TypeOK
  <2>5. QED
    BY <1>2, <2>2, <2>3, <2>4 DEF TypeOK, ReturnMethod, blockVars
<1>3. ASSUME CallNextMethod PROVE TypeOK'
  <2>1. PICK c \in Calls : Enter(c)
    BY <1>3, Callers, Zenon DEF Calls
  <2>2. /\ stack' \in Seq(Calls) /\ Depth' <= MaxDepth
        /\ safepoints' \in Seq(0 .. MaxDepth)
    BY <2>1, Entered
  <2>3. chain' \in Seq(Frames)
    BY <1>3, TakenNext DEF CallNextMethod
  <2>4. QED
    BY <1>3, <2>2, <2>3 DEF TypeOK, CallNextMethod, blockVars
<1>4. ASSUME NoNextMethod PROVE TypeOK'
  <2>1. safepoints' \in Seq(0 .. MaxDepth)
    BY <1>4, AppendOf, TypeSets DEF TypeOK, NoNextMethod
  <2>2. payload' \in Payloads
    BY <1>4, ActivationsAssumption, TypeSets DEF NoNextMethod, Throw, Payloads
  <2>3. QED
    BY <1>4, <2>1, <2>2 DEF TypeOK, Depth, NoNextMethod, blockVars, chainVars
<1>5. ASSUME EnterBlock PROVE TypeOK'
  <2>1. PICK c \in Calls : Enter(c)
    BY <1>5, Callers, Zenon DEF Calls
  <2>2. /\ stack' \in Seq(Calls) /\ Depth' <= MaxDepth
        /\ safepoints' \in Seq(0 .. MaxDepth)
    BY <2>1, Entered
  <2>3. Depth + 1 \in 1 .. MaxDepth
    BY <2>1, Room DEF Enter
  <2>4. handlers' \in Seq(Handlers)
    <3>1. PICK id \in DOMAIN Blocks : handlers' = handlers \o Clauses(id, Depth + 1)
      BY <1>5 DEF EnterBlock
    <3>2. QED
      BY <2>3, <3>1, ClausesOf, ConcatProperties, Zenon DEF TypeOK
  <2>5. captured' \in Seq(1 .. MaxDepth)
    BY <1>5, <2>3, AppendOf DEF EnterBlock, TypeOK
  <2>6. QED
    BY <1>5, <2>2, <2>4, <2>5 DEF TypeOK, EnterBlock, chainVars
<1>6. ASSUME ReturnBody PROVE TypeOK'
  <2>1. Moves("cleanup", Top.pending)
    BY <1>6, Movers
  <2>2. stack' \in Seq(Calls) /\ Depth' <= MaxDepth
    BY <2>1, Moved
  <2>3. QED
    BY <1>6, <2>2 DEF TypeOK, ReturnBody, blockVars, chainVars
<1>7. ASSUME ReturnCleanup PROVE TypeOK'
  <2>1. Moves("afterwards", Top.pending)
    BY <1>7, Movers
  <2>2. stack' \in Seq(Calls) /\ Depth' <= MaxDepth
    BY <2>1, Moved
  <2>3. QED
    BY <1>7, <2>2 DEF TypeOK, ReturnCleanup, blockVars, chainVars
<1>8. ASSUME ReturnBlock PROVE TypeOK'
  <2>1. stack # <<>> /\ stack' = Front(stack)
    BY <1>8 DEF ReturnBlock, Leave, InBlock
  <2>2. stack' \in Seq(Calls) /\ Depth' <= MaxDepth
    BY <2>1, Popped
  <2>3. Top.kind = "block" /\ Top.handlerBase \in Nat /\ Top.safepointBase \in Nat
    BY <1>8, <2>1, OnTop, TypeSets DEF ReturnBlock, InBlock, BlockCalls
  <2>4. handlers' \in Seq(Handlers)
    BY <1>8, <2>3, Parts DEF ReturnBlock, TypeOK
  <2>5. captured' \in Seq(1 .. MaxDepth)
    BY <1>8, Parts DEF ReturnBlock, Leave, TypeOK
  <2>6. safepoints' \in Seq(0 .. MaxDepth)
    BY <1>8, Parts DEF ReturnBlock, Leave, TypeOK
  <2>7. QED
    BY <1>8, <2>2, <2>4, <2>5, <2>6 DEF TypeOK, ReturnBlock, chainVars
<1>9. ASSUME Catch PROVE TypeOK'
  <2>1. Moves("cleanup", Top.pending)
    BY <1>9, Movers
  <2>2. stack' \in Seq(Calls) /\ Depth' <= MaxDepth
    BY <2>1, Moved
  <2>3. safepoints' \in Seq(0 .. MaxDepth)
    BY <1>9, <2>1, Parts, TypeSets DEF Catch, Checkpoint, Moves, BlockCalls, TypeOK
  <2>4. QED
    BY <1>9, <2>2, <2>3 DEF TypeOK, Catch, blockVars, chainVars
<1>10. ASSUME DropGuard PROVE TypeOK'
  <2>1. Moves("dropping", payload)
    BY <1>10, Movers
  <2>2. stack' \in Seq(Calls) /\ Depth' <= MaxDepth
    BY <2>1, Moved
  <2>3. safepoints' \in Seq(0 .. MaxDepth)
    BY <1>10, <2>1, Parts, TypeSets DEF DropGuard, Checkpoint, Moves, BlockCalls, TypeOK
  <2>4. handlers' \in Seq(Handlers)
    BY <1>10, <2>1, Parts DEF DropGuard, Moves, BlockCalls, TypeOK
  <2>5. QED
    BY <1>10, <2>2, <2>3, <2>4 DEF TypeOK, DropGuard, chainVars
<1>11. ASSUME ResumeUnwind PROVE TypeOK'
  <2>1. Moves("dropped", Nil)
    BY <1>11, Movers
  <2>2. stack' \in Seq(Calls) /\ Depth' <= MaxDepth
    BY <2>1, Moved
  <2>3. payload' \in Payloads \cup {Nil}
    BY <1>11, <2>1 DEF ResumeUnwind, Moves, BlockCalls
  <2>4. QED
    BY <1>11, <2>2, <2>3 DEF TypeOK, ResumeUnwind, blockVars, chainVars
<1>12. ASSUME UnwindBlock PROVE TypeOK'
  <2>1. stack # <<>> /\ stack' = Front(stack)
    BY <1>12 DEF UnwindBlock, Leave, InBlock
  <2>2. stack' \in Seq(Calls) /\ Depth' <= MaxDepth
    BY <2>1, Popped
  <2>3. Top.kind = "block" /\ Top.handlerBase \in Nat /\ Top.safepointBase \in Nat
    BY <1>12, <2>1, OnTop, TypeSets DEF UnwindBlock, InBlock, BlockCalls
  <2>4. handlers' \in Seq(Handlers)
    BY <1>12, <2>3, Parts DEF UnwindBlock, TypeOK
  <2>5. captured' \in Seq(1 .. MaxDepth)
    BY <1>12, Parts DEF UnwindBlock, Leave, TypeOK
  <2>6. safepoints' \in Seq(0 .. MaxDepth)
    BY <1>12, <2>3, Parts DEF UnwindBlock, Checkpoint, TypeOK
  <2>7. QED
    BY <1>12, <2>2, <2>4, <2>5, <2>6 DEF TypeOK, UnwindBlock, chainVars
<1>13. ASSUME Abort PROVE TypeOK'
  BY <1>13 DEF TypeOK, Depth, Abort, blockVars, chainVars
<1>14. ASSUME Signal PROVE TypeOK'
  <2>1. PICK c \in Calls : Enter(c)
    BY <1>14, Callers, Zenon DEF Calls
  <2>2. /\ stack' \in Seq(Calls) /\ Depth' <= MaxDepth
        /\ safepoints' \in Seq(0 .. MaxDepth)
    BY <2>1, Entered
  <2>3. QED
    BY <1>14, <2>2 DEF TypeOK, Signal, blockVars, chainVars
<1>15. ASSUME Unhandled PROVE TypeOK'
  <2>1. safepoints' \in Seq(0 .. MaxDepth)
    BY <1>15, AppendOf, TypeSets DEF TypeOK, Unhandled
  <2>2. payload' \in Payloads
    BY <1>15, ActivationsAssumption, TypeSets DEF Unhandled, Throw, Payloads
  <2>3. QED
    BY <1>15, <2>1, <2>2 DEF TypeOK, Depth, Unhandled, blockVars, chainVars
<1>16. ASSUME ReturnHandler PROVE TypeOK'
  <2>1. stack # <<>> /\ Top.kind = "handler"
    BY <1>16 DEF ReturnHandler
  <2>2. Top.target \in DOMAIN Blocks /\ Top.owner \in 0 .. MaxDepth
    BY <2>1, OnTop, TypeSets DEF HandlerCalls
  <2>3. payload' \in Payloads
    BY <1>16, <2>2, CatcherType DEF ReturnHandler, Throw, Payloads
  <2>4. QED
    BY <1>16, <2>3 DEF TypeOK, Depth, ReturnHandler, blockVars, chainVars
<1>17. ASSUME InvokeExit PROVE TypeOK'
  <2>1. safepoints' \in Seq(0 .. MaxDepth)
    BY <1>17, AppendOf, TypeSets DEF TypeOK, InvokeExit
  <2>2. payload' \in Payloads
    <3>1. PICK id \in DOMAIN Blocks : Throw(id, Newest(InBody(id)))
      BY <1>17 DEF InvokeExit
    <3>2. QED
      BY <3>1, CatcherType DEF Throw, Payloads
  <2>3. QED
    BY <1>17, <2>1, <2>2 DEF TypeOK, Depth, InvokeExit, blockVars, chainVars
<1>18. ASSUME UnwindCall PROVE TypeOK'
  <2>1. stack # <<>> /\ stack' = Front(stack)
    BY <1>18 DEF UnwindCall, Leave, InBlock
  <2>2. stack' \in Seq(Calls) /\ Depth' <= MaxDepth
    BY <2>1, Popped
  <2>3. chain' \in Seq(Frames) /\ leaked' \in BOOLEAN
    <3>1. Disowned \in Seq(Frames)
      BY DisownedOf
    <3>2. QED
      BY <1>18, <3>1, Parts DEF UnwindCall, chainVars, TypeOK
  <2>4. QED
    BY <1>18, <2>2, <2>3 DEF TypeOK, UnwindCall, blockVars
<1>19. ASSUME Uncaught PROVE TypeOK'
  BY <1>19 DEF TypeOK, Depth, Uncaught, blockVars, chainVars
<1>20. CASE UNCHANGED vars
  BY <1>20 DEF vars, TypeOK, Depth
<1>21. QED
  BY <1>1, <1>2, <1>3, <1>4, <1>5, <1>6, <1>7, <1>8, <1>9, <1>10, <1>11, <1>12,
     <1>13, <1>14, <1>15, <1>16, <1>17, <1>18, <1>19, <1>20 DEF Next

\* The actions that throw.
LEMMA Throwers ==
    ASSUME TypeOK
    PROVE  /\ NoNextMethod \/ Unhandled =>
                payload' # Nil /\ payload'.target = "panic" /\ payload'.catcher = 0
           /\ ReturnHandler =>
                /\ payload' # Nil /\ payload'.target = Top.target
                /\ payload'.catcher = IF Top.owner \in Bodies(stack, Top.target)
                                       THEN Top.owner
                                       ELSE Newest(Bodies(stack, Top.target))
           /\ InvokeExit => \E id \in DOMAIN Blocks :
                /\ payload' # Nil /\ payload'.target = id
                /\ payload'.catcher = Newest(Bodies(stack, id))
<1>1. ASSUME NEW id \in DOMAIN Blocks \cup {"panic"}, NEW n \in 0 .. MaxDepth,
             Throw(id, n)
      PROVE  payload' # Nil /\ payload'.target = id /\ payload'.catcher = n
  BY <1>1, ActivationsAssumption DEF Throw, Payloads
<1>2. ASSUME NoNextMethod \/ Unhandled
      PROVE  payload' # Nil /\ payload'.target = "panic" /\ payload'.catcher = 0
  BY <1>1, <1>2, TypeSets DEF NoNextMethod, Unhandled
<1>3. ASSUME ReturnHandler
      PROVE  /\ payload' # Nil /\ payload'.target = Top.target
             /\ payload'.catcher = IF Top.owner \in Bodies(stack, Top.target)
                                    THEN Top.owner
                                    ELSE Newest(Bodies(stack, Top.target))
  <2>1. Top.target \in DOMAIN Blocks /\ Top.owner \in 0 .. MaxDepth
    BY <1>3, OnTop, TypeSets DEF ReturnHandler, HandlerCalls
  <2>2. QED
    BY <1>1, <1>3, <2>1, CatcherType, SameBodies DEF ReturnHandler
<1>4. ASSUME InvokeExit
      PROVE  \E id \in DOMAIN Blocks :
                /\ payload' # Nil /\ payload'.target = id
                /\ payload'.catcher = Newest(Bodies(stack, id))
  BY <1>1, <1>4, CatcherType, SameBodies DEF InvokeExit
<1>5. QED
  BY <1>2, <1>3, <1>4

\* Every step keeps the safepoints.
LEMMA SafepointStep ==
    ASSUME TypeOK, SafepointInv, [Next]_vars
    PROVE  SafepointInv'
<1>0. /\ safepoints \in Seq(0 .. MaxDepth) /\ Len(safepoints) \in Nat
      /\ DOMAIN safepoints = 1 .. Len(safepoints) /\ Depth \in Nat
      /\ DOMAIN stack = 1 .. Depth
  BY LenProperties DEF TypeOK, Depth
<1>a. ASSUME NEW c \in Calls, Enter(c),
             c.kind = "block" => c.safepointBase = Depth + 1,
             payload' = payload, over' = over
      PROVE  SafepointInv'
  <2>1. /\ Depth' = Depth + 1 /\ DOMAIN stack' = 1 .. Depth + 1
        /\ \A i \in DOMAIN stack : stack'[i] = stack[i]
        /\ stack'[Depth + 1] = c
    BY <1>a, Pushed DEF Enter
  <2>2. /\ Len(safepoints) = Depth /\ Len(safepoints') = Depth + 1
        /\ safepoints'[Depth + 1] = Depth + 1
        /\ \A i \in 1 .. Depth : safepoints'[i] = i
    <3>1. /\ Len(safepoints) = Depth
          /\ safepoints' = Append(safepoints, Depth + 1)
      BY <1>a DEF Enter, SafepointInv
    <3>2. Depth + 1 \in 0 .. MaxDepth
      BY <1>a, Room DEF Enter
    <3>3. /\ Len(safepoints') = Len(safepoints) + 1
          /\ \A i \in 1 .. Len(safepoints) : safepoints'[i] = safepoints[i]
          /\ safepoints'[Len(safepoints) + 1] = Depth + 1
      BY <1>0, <3>1, <3>2, AppendOf
    <3>4. QED
      BY <1>0, <3>1, <3>3 DEF SafepointInv
  <2>3. ASSUME NEW i \in InBlocks' PROVE stack'[i].safepointBase = i
    <3>1. CASE i = Depth + 1
      BY <1>a, <2>1, <3>1 DEF InBlocks
    <3>2. CASE i # Depth + 1
      <4>1. i \in InBlocks /\ stack'[i] = stack[i]
        BY <1>0, <2>1, <3>2 DEF InBlocks
      <4>2. QED
        BY <4>1 DEF SafepointInv
    <3>3. QED
      BY <3>1, <3>2
  <2>4. QED
    BY <1>0, <2>1, <2>2, <2>3 DEF SafepointInv
<1>b. ASSUME Running, stack # <<>>, Leave PROVE SafepointInv'
  <2>1. /\ Depth \in Nat \ {0} /\ Depth' = Depth - 1
        /\ DOMAIN stack' = 1 .. Depth - 1 /\ DOMAIN stack' \subseteq DOMAIN stack
        /\ \A i \in DOMAIN stack' : stack'[i] = stack[i]
    BY <1>b, Popped DEF Leave
  <2>2. Len(safepoints) = Depth /\ safepoints # <<>>
    BY <1>b, <2>1 DEF SafepointInv
  <2>3. /\ Len(safepoints') = Depth - 1
        /\ \A i \in 1 .. Depth - 1 : safepoints'[i] = safepoints[i]
    BY <1>0, <1>b, <2>2, FrontOf DEF Leave
  <2>4. QED
    BY <1>0, <2>1, <2>2, <2>3 DEF SafepointInv, InBlocks
<1>c. ASSUME payload' # Nil, safepoints' = Append(safepoints, 0), UNCHANGED stack
      PROVE  SafepointInv'
  <2>1. /\ Len(safepoints') = Len(safepoints) + 1
        /\ \A i \in 1 .. Len(safepoints) : safepoints'[i] = safepoints[i]
    BY <1>0, <1>c, AppendOf, TypeSets
  <2>2. Depth <= Len(safepoints) /\ \A i \in 1 .. Depth : safepoints[i] = i
    BY <1>0 DEF SafepointInv
  <2>3. Depth <= Len(safepoints') /\ \A i \in 1 .. Depth : safepoints'[i] = i
    BY <1>0, <2>1, <2>2
  <2>4. QED
    BY <1>0, <1>c, <2>3 DEF SafepointInv, InBlocks, Running, Depth
<1>h. ASSUME stack # <<>>, Top.kind = "block"
      PROVE  /\ Len(Checkpoint) = Depth
             /\ \A i \in 1 .. Depth : Checkpoint[i] = i
  <2>1. Top.safepointBase = Depth /\ Depth <= Len(safepoints)
    BY <1>h, OnTop DEF SafepointInv, InBlocks, Top
  <2>2. /\ Len(Truncate(safepoints, Depth)) = Depth
        /\ \A i \in 1 .. Depth : Truncate(safepoints, Depth)[i] = safepoints[i]
    BY <1>0, <2>1, TruncateOf, ZenonT(40)
  <2>3. QED
    BY <1>0, <2>1, <2>2 DEF SafepointInv, Checkpoint
<1>d. ASSUME NEW phase, NEW pending, Moves(phase, pending), safepoints' = Checkpoint
      PROVE  SafepointInv'
  <2>1. Len(safepoints') = Depth /\ \A i \in 1 .. Depth : safepoints'[i] = i
    BY <1>d, <1>h DEF Moves, BlockCalls
  <2>2. Depth' = Depth /\ DOMAIN stack' = 1 .. Depth
    BY <1>0, <1>d, Moved
  <2>3. \A i \in InBlocks' : stack'[i].safepointBase = i
    BY <1>d, Moved DEF SafepointInv, InBlocks
  <2>4. QED
    BY <2>1, <2>2, <2>3 DEF SafepointInv
<1>e. ASSUME NEW phase, NEW pending, Moves(phase, pending),
             safepoints' = safepoints, Running
      PROVE  SafepointInv'
  BY <1>0, <1>e, Moved DEF SafepointInv, InBlocks
<1>f. ASSUME stack # <<>>, Top.kind = "block", safepoints' = Checkpoint,
             stack' = Front(stack), payload' # Nil
      PROVE  SafepointInv'
  <2>1. Len(safepoints') = Depth /\ \A i \in 1 .. Depth : safepoints'[i] = i
    BY <1>f, <1>h
  <2>2. /\ Depth \in Nat \ {0} /\ Depth' = Depth - 1
        /\ DOMAIN stack' = 1 .. Depth - 1 /\ DOMAIN stack' \subseteq DOMAIN stack
        /\ \A i \in DOMAIN stack' : stack'[i] = stack[i]
    BY <1>f, Popped
  <2>3. \A i \in InBlocks' : stack'[i].safepointBase = i
    BY <1>0, <2>2 DEF SafepointInv, InBlocks
  <2>4. Depth' <= Len(safepoints') /\ \A i \in DOMAIN stack' : safepoints'[i] = i
    BY <2>1, <2>2
  <2>5. QED
    BY <1>f, <2>3, <2>4 DEF SafepointInv, Running
<1>g. ASSUME stack # <<>>, safepoints' = safepoints, stack' = Front(stack),
             payload' # Nil
      PROVE  SafepointInv'
  <2>1. /\ Depth \in Nat \ {0} /\ Depth' = Depth - 1
        /\ DOMAIN stack' = 1 .. Depth - 1 /\ DOMAIN stack' \subseteq DOMAIN stack
        /\ \A i \in DOMAIN stack' : stack'[i] = stack[i]
    BY <1>g, Popped
  <2>2. \A i \in InBlocks' : stack'[i].safepointBase = i
    BY <1>0, <2>1 DEF SafepointInv, InBlocks
  <2>3. Depth <= Len(safepoints) /\ \A i \in DOMAIN stack' : safepoints[i] = i
    BY <2>1 DEF SafepointInv
  <2>4. Depth' <= Len(safepoints)
    BY <1>0, <2>1, <2>3
  <2>5. QED
    BY <1>g, <2>2, <2>3, <2>4 DEF SafepointInv, Running
<1>1. ASSUME CallMethod PROVE SafepointInv'
  <2>1. PICK c \in Calls : Enter(c) /\ (c.kind = "block" => c.safepointBase = Depth + 1)
    BY <1>1, Callers DEF Calls, MethodCalls, BlockCalls, HandlerCalls
  <2>2. payload' = payload /\ over' = over
    BY <1>1 DEF CallMethod
  <2>3. QED
    BY <2>1, <2>2, <1>a
<1>2. ASSUME ReturnMethod PROVE SafepointInv'
  BY <1>2, <1>b DEF ReturnMethod, InBlock
<1>3. ASSUME CallNextMethod PROVE SafepointInv'
  <2>1. PICK c \in Calls : Enter(c) /\ (c.kind = "block" => c.safepointBase = Depth + 1)
    BY <1>3, Callers DEF Calls, MethodCalls, BlockCalls, HandlerCalls
  <2>2. payload' = payload /\ over' = over
    BY <1>3 DEF CallNextMethod
  <2>3. QED
    BY <2>1, <2>2, <1>a
<1>4. ASSUME NoNextMethod PROVE SafepointInv'
  <2>1. payload' # Nil
    BY <1>4, Throwers
  <2>2. safepoints' = Append(safepoints, 0) /\ UNCHANGED stack
    BY <1>4 DEF NoNextMethod
  <2>3. QED
    BY <2>1, <2>2, <1>c
<1>5. ASSUME EnterBlock PROVE SafepointInv'
  <2>1. PICK c \in Calls : Enter(c) /\ (c.kind = "block" => c.safepointBase = Depth + 1)
    BY <1>5, Callers DEF Calls, MethodCalls, BlockCalls, HandlerCalls
  <2>2. payload' = payload /\ over' = over
    BY <1>5 DEF EnterBlock
  <2>3. QED
    BY <2>1, <2>2, <1>a
<1>6. ASSUME ReturnBody PROVE SafepointInv'
  <2>1. Moves("cleanup", Top.pending)
    BY <1>6, Movers
  <2>2. safepoints' = safepoints
    BY <1>6 DEF ReturnBody
  <2>3. QED
    BY <1>6, <2>1, <2>2, <1>e DEF ReturnBody
<1>7. ASSUME ReturnCleanup PROVE SafepointInv'
  <2>1. Moves("afterwards", Top.pending)
    BY <1>7, Movers
  <2>2. safepoints' = safepoints
    BY <1>7 DEF ReturnCleanup
  <2>3. QED
    BY <1>7, <2>1, <2>2, <1>e DEF ReturnCleanup
<1>8. ASSUME ReturnBlock PROVE SafepointInv'
  BY <1>8, <1>b DEF ReturnBlock, InBlock
<1>9. ASSUME Catch PROVE SafepointInv'
  <2>1. Moves("cleanup", Top.pending)
    BY <1>9, Movers
  <2>2. safepoints' = Checkpoint
    BY <1>9 DEF Catch
  <2>3. QED
    BY <2>1, <2>2, <1>d
<1>10. ASSUME DropGuard PROVE SafepointInv'
  <2>1. Moves("dropping", payload)
    BY <1>10, Movers
  <2>2. safepoints' = Checkpoint
    BY <1>10 DEF DropGuard
  <2>3. QED
    BY <2>1, <2>2, <1>d
<1>11. ASSUME ResumeUnwind PROVE SafepointInv'
  <2>1. Moves("dropped", Nil)
    BY <1>11, Movers
  <2>2. safepoints' = safepoints
    BY <1>11 DEF ResumeUnwind
  <2>3. QED
    BY <1>11, <2>1, <2>2, <1>e DEF ResumeUnwind
<1>12. ASSUME UnwindBlock PROVE SafepointInv'
  <2>1. /\ stack # <<>> /\ Top.kind = "block" /\ safepoints' = Checkpoint
        /\ stack' = Front(stack) /\ payload' # Nil
    BY <1>12 DEF UnwindBlock, InBlock
  <2>2. QED
    BY <2>1, <1>f
<1>13. ASSUME Abort PROVE SafepointInv'
  BY <1>13 DEF Abort, SafepointInv, Running, Depth, InBlocks
<1>14. ASSUME Signal PROVE SafepointInv'
  <2>1. PICK c \in Calls : Enter(c) /\ (c.kind = "block" => c.safepointBase = Depth + 1)
    BY <1>14, Callers DEF Calls, MethodCalls, BlockCalls, HandlerCalls
  <2>2. payload' = payload /\ over' = over
    BY <1>14 DEF Signal
  <2>3. QED
    BY <2>1, <2>2, <1>a
<1>15. ASSUME Unhandled PROVE SafepointInv'
  <2>1. payload' # Nil
    BY <1>15, Throwers
  <2>2. safepoints' = Append(safepoints, 0) /\ UNCHANGED stack
    BY <1>15 DEF Unhandled
  <2>3. QED
    BY <2>1, <2>2, <1>c
<1>16. ASSUME ReturnHandler PROVE SafepointInv'
  <2>1. payload' # Nil
    BY <1>16, Throwers
  <2>2. QED
    BY <1>16, <2>1 DEF ReturnHandler, SafepointInv, Running, Depth, InBlocks
<1>17. ASSUME InvokeExit PROVE SafepointInv'
  <2>1. payload' # Nil
    BY <1>17, Throwers
  <2>2. safepoints' = Append(safepoints, 0) /\ UNCHANGED stack
    BY <1>17 DEF InvokeExit
  <2>3. QED
    BY <2>1, <2>2, <1>c
<1>18. ASSUME UnwindCall PROVE SafepointInv'
  <2>1. /\ stack # <<>> /\ stack' = Front(stack) /\ payload' # Nil
        /\ safepoints' = safepoints
    BY <1>18 DEF UnwindCall
  <2>2. QED
    BY <2>1, <1>g
<1>19. ASSUME Uncaught PROVE SafepointInv'
  BY <1>19 DEF Uncaught, SafepointInv, Running, Depth, InBlocks
<1>20. CASE UNCHANGED vars
  BY <1>20 DEF vars, SafepointInv, Running, Depth, InBlocks
<1>21. QED
  BY <1>1, <1>2, <1>3, <1>4, <1>5, <1>6, <1>7, <1>8, <1>9, <1>10, <1>11, <1>12,
     <1>13, <1>14, <1>15, <1>16, <1>17, <1>18, <1>19, <1>20 DEF Next

\* What the changes of the stack do to the sets of activations.
LEMMA PushedSets ==
    ASSUME TypeOK, NEW c \in Calls, Enter(c)
    PROVE  /\ \A i \in DOMAIN stack : i \in DOMAIN stack' /\ stack'[i] = stack[i]
           /\ Depth \in Nat /\ Depth + 1 \notin DOMAIN stack
           /\ DOMAIN stack = 1 .. Depth /\ stack'[Depth + 1] = c
           /\ InBlocks' = InBlocks \cup {i \in {Depth + 1} : c.kind = "block"}
           /\ Live' = Live \cup {i \in {Depth + 1} :
                  c.kind = "block" /\ c.phase \notin {"dropping", "dropped"}}
           /\ Framed' = Framed \cup {i \in {Depth + 1} :
                  c.kind = "method" /\ c.frame # "bare"}
           /\ \A id, n : n \in DOMAIN stack => Below(stack', id, n) = Below(stack, id, n)
           /\ \A id : Below(stack, id, Depth + 1) = Bodies(stack, id)
           /\ \A id, n : n = Depth + 1 => Below(stack', id, n) = Bodies(stack, id)
<1>1. /\ DOMAIN stack = 1 .. Depth /\ DOMAIN stack' = DOMAIN stack \cup {Depth + 1}
      /\ Depth \in Nat /\ Depth + 1 \notin DOMAIN stack
      /\ \A i \in DOMAIN stack : stack'[i] = stack[i]
      /\ stack'[Depth + 1] = c
      /\ \A i \in DOMAIN stack : i < Depth + 1
  BY Pushed DEF Enter
<1>2. InBlocks' = InBlocks \cup {i \in {Depth + 1} : c.kind = "block"}
  BY <1>1 DEF InBlocks
<1>3. Live' = Live \cup {i \in {Depth + 1} :
                  c.kind = "block" /\ c.phase \notin {"dropping", "dropped"}}
  BY <1>1 DEF InBlocks, Live
<1>4. Framed' = Framed \cup {i \in {Depth + 1} :
                  c.kind = "method" /\ c.frame # "bare"}
  BY <1>1 DEF Framed
<1>5. ASSUME NEW id, NEW n \in Nat, n <= Depth + 1
      PROVE  Below(stack', id, n) = Below(stack, id, n)
  <2>1. \A i : i \in DOMAIN stack' /\ i < n <=> i \in DOMAIN stack /\ i < n
    BY <1>1, <1>5
  <2>2. QED
    BY <1>1, <2>1 DEF Below, Bodies
<1>6. \A id : Below(stack, id, Depth + 1) = Bodies(stack, id)
  BY <1>1 DEF Below, Bodies
<1>7. ASSUME NEW id, NEW n, n = Depth + 1 PROVE Below(stack', id, n) = Bodies(stack, id)
  <2>1. n \in Nat /\ n <= Depth + 1
    BY <1>1, <1>7
  <2>2. Below(stack', id, n) = Below(stack, id, n)
    BY <2>1, <1>5
  <2>3. QED
    BY <2>2, <1>6, <1>7
<1>8. \A id, n : n \in DOMAIN stack => Below(stack', id, n) = Below(stack, id, n)
  <2>1. ASSUME NEW n \in DOMAIN stack PROVE n \in Nat /\ n <= Depth + 1
    BY <1>1
  <2>2. QED
    BY <2>1, <1>5
<1>9. QED
  BY <1>1, <1>2, <1>3, <1>4, <1>6, <1>7, <1>8

\* The call on top is left.
LEMMA PoppedSets ==
    ASSUME TypeOK, stack # <<>>, stack' = Front(stack)
    PROVE  /\ \A i \in DOMAIN stack' : i \in DOMAIN stack /\ i # Depth /\ stack'[i] = stack[i]
           /\ Depth \in DOMAIN stack /\ DOMAIN stack = 1 .. Depth
           /\ Depth \in Nat /\ \A i \in DOMAIN stack : i # Depth => i < Depth
           /\ InBlocks' = InBlocks \ {Depth}
           /\ Live' = Live \ {Depth}
           /\ Framed' = Framed \ {Depth}
           /\ \A id, n : n \in DOMAIN stack => Below(stack', id, n) = Below(stack, id, n)
           /\ \A id : Bodies(stack', id) = Bodies(stack, id) \ {Depth}
<1>1. /\ DOMAIN stack' = DOMAIN stack \ {Depth} /\ Depth \in DOMAIN stack
      /\ DOMAIN stack = 1 .. Depth
      /\ Depth \in Nat /\ \A i \in DOMAIN stack : i # Depth => i < Depth
      /\ \A i \in DOMAIN stack' : stack'[i] = stack[i]
  BY Popped
<1>2. InBlocks' = InBlocks \ {Depth} /\ Live' = Live \ {Depth}
  BY <1>1 DEF InBlocks, Live
<1>3. Framed' = Framed \ {Depth}
  BY <1>1 DEF Framed
<1>4. \A id : Bodies(stack', id) = Bodies(stack, id) \ {Depth}
  BY <1>1 DEF Bodies
<1>5. ASSUME NEW id, NEW n \in DOMAIN stack PROVE Below(stack', id, n) = Below(stack, id, n)
  <2>1. n <= Depth /\ n \in Nat
    BY <1>1
  <2>2. ~(Depth < n)
    BY <1>1, <2>1
  <2>3. \A i : i \in DOMAIN stack' /\ i < n <=> i \in DOMAIN stack /\ i < n
    BY <1>1, <2>2
  <2>4. QED
    BY <1>1, <2>3 DEF Below, Bodies
<1>6. QED
  BY <1>1, <1>2, <1>3, <1>4, <1>5

\* The block on top goes on.
LEMMA MovedSets ==
    ASSUME TypeOK, NEW phase, NEW pending, Moves(phase, pending)
    PROVE  /\ \A i \in DOMAIN stack : i # Depth => stack'[i] = stack[i]
           /\ Depth \in DOMAIN stack /\ DOMAIN stack = 1 .. Depth
           /\ Depth \in Nat /\ Depth \in InBlocks
           /\ DOMAIN stack' = DOMAIN stack /\ Depth' = Depth
           /\ InBlocks' = InBlocks /\ Framed' = Framed
           /\ Live' = (Live \ {Depth}) \cup
                        {i \in {Depth} : phase \notin {"dropping", "dropped"}}
           /\ \A i \in InBlocks : /\ stack'[i].id = stack[i].id
                                  /\ stack'[i].handlerBase = stack[i].handlerBase
           /\ \A id, n : n \in DOMAIN stack => Below(stack', id, n) = Below(stack, id, n)
           /\ \A id : Bodies(stack', id) = Below(stack, id, Depth)
<1>1. /\ DOMAIN stack' = DOMAIN stack /\ Depth \in DOMAIN stack
      /\ DOMAIN stack = 1 .. Depth /\ Depth' = Depth
      /\ Depth \in Nat /\ \A i \in DOMAIN stack : i # Depth <=> i < Depth
      /\ \A i \in DOMAIN stack : i # Depth => stack'[i] = stack[i]
      /\ stack[Depth].kind = "block" /\ stack'[Depth].kind = "block"
      /\ stack'[Depth].id = stack[Depth].id
      /\ stack'[Depth].handlerBase = stack[Depth].handlerBase
      /\ stack'[Depth].phase = phase /\ phase # "body"
  <2>1. phase # "body"
    BY DEF Moves
  <2>2. QED
    BY <2>1, Moved
<1>2. InBlocks' = InBlocks
  BY <1>1 DEF InBlocks
<1>3. Live' = (Live \ {Depth}) \cup {i \in {Depth} : phase \notin {"dropping", "dropped"}}
  BY <1>1 DEF InBlocks, Live
<1>4. Framed' = Framed
  BY <1>1 DEF Framed
<1>5. \A id : Bodies(stack', id) = Below(stack, id, Depth)
  BY <1>1 DEF Below, Bodies
<1>6. ASSUME NEW id, NEW n \in DOMAIN stack PROVE Below(stack', id, n) = Below(stack, id, n)
  <2>1. \A i : i \in DOMAIN stack /\ i < n => i # Depth
    BY <1>1
  <2>2. QED
    BY <1>1, <2>1 DEF Below, Bodies
<1>7. \A i \in InBlocks : /\ stack'[i].id = stack[i].id
                          /\ stack'[i].handlerBase = stack[i].handlerBase
  BY <1>1 DEF InBlocks
<1>8. QED
  BY <1>1, <1>2, <1>3, <1>4, <1>5, <1>6, <1>7 DEF InBlocks

\* An increasing enumeration that grows or shrinks at its end.
LEMMA ListGrows ==
    ASSUME NEW n \in Nat, NEW f, DOMAIN f = 1 .. n, NEW g, DOMAIN g = 1 .. n + 1,
           \A i \in 1 .. n : g[i] = f[i], NEW S \in SUBSET Nat, Lists(f, S),
           NEW m \in Nat, g[n + 1] = m, \A k \in S : k < m
    PROVE  Lists(g, S \cup {m})
<1>1. {g[i] : i \in DOMAIN g} = S \cup {m}
  <2>1. ASSUME NEW i \in DOMAIN g PROVE g[i] \in S \cup {m}
    BY DEF Lists
  <2>2. m \in {g[i] : i \in DOMAIN g}
    BY n + 1 \in 1 .. n + 1
  <2>3. ASSUME NEW k \in S PROVE k \in {g[i] : i \in DOMAIN g}
    <3>1. PICK i \in 1 .. n : f[i] = k
      BY DEF Lists
    <3>2. i \in 1 .. n + 1 /\ g[i] = k
      BY <3>1
    <3>3. QED
      BY <3>2
  <2>4. QED
    BY <2>1, <2>2, <2>3
<1>2. ASSUME NEW i \in DOMAIN g, NEW j \in DOMAIN g, i < j PROVE g[i] < g[j]
  <2>1. i \in 1 .. n /\ f[i] \in S /\ g[i] = f[i]
    BY <1>2 DEF Lists
  <2>2. CASE j = n + 1
    BY <2>1, <2>2
  <2>3. CASE j # n + 1
    BY <1>2, <2>1, <2>3 DEF Lists
  <2>4. QED
    BY <2>2, <2>3
<1>3. QED
  BY <1>1, <1>2 DEF Lists

\* What it loses is its greatest.
LEMMA ListShrinks ==
    ASSUME NEW n \in Nat, NEW f, DOMAIN f = 1 .. n, NEW g, DOMAIN g = 1 .. n - 1,
           \A i \in 1 .. n - 1 : g[i] = f[i], NEW S \in SUBSET Nat, Lists(f, S),
           NEW m \in S, \A k \in S : k <= m
    PROVE  Lists(g, S \ {m}) /\ n # 0 /\ f[n] = m
<1>1. PICK l \in 1 .. n : f[l] = m
  BY DEF Lists
<1>2. n \in 1 .. n /\ f[n] \in S /\ f[n] <= m /\ f[n] \in Nat /\ m \in Nat
  <2>1. n \in 1 .. n
    BY <1>1
  <2>2. f[n] \in S
    BY <2>1 DEF Lists
  <2>3. QED
    BY <2>1, <2>2
<1>3. l = n
  <2>1. SUFFICES ASSUME l < n PROVE FALSE
    BY <1>1
  <2>2. f[l] < f[n]
    BY <1>1, <1>2, <2>1 DEF Lists
  <2>3. QED
    BY <1>1, <1>2, <2>2
<1>4. ASSUME NEW i \in 1 .. n - 1 PROVE g[i] \in S \ {m}
  <2>1. i \in 1 .. n /\ i < n /\ g[i] = f[i]
    BY <1>2
  <2>2. f[i] < f[n] /\ f[i] \in S /\ f[n] = m
    BY <1>1, <1>2, <1>3, <2>1 DEF Lists
  <2>3. QED
    BY <2>1, <2>2
<1>5. ASSUME NEW k \in S \ {m} PROVE k \in {g[i] : i \in DOMAIN g}
  <2>1. PICK i \in 1 .. n : f[i] = k
    BY DEF Lists
  <2>2. i \in 1 .. n - 1 /\ g[i] = k
    BY <1>1, <1>3, <2>1
  <2>3. QED
    BY <2>2
<1>6. \A i, j \in DOMAIN g : i < j => g[i] < g[j]
  BY DEF Lists
<1>7. QED
  BY <1>1, <1>2, <1>3, <1>4, <1>5, <1>6 DEF Lists

\* The owners of the chain frames.
Owners == [i \in DOMAIN chain |-> chain[i].owner]

\* Every step keeps the chain frames those of the methods.
LEMMA ChainStep ==
    ASSUME TypeOK, ChainOfMethods, [Next]_vars
    PROVE  ChainOfMethods'
<1>0. /\ chain \in Seq(Frames) /\ Len(chain) \in Nat
      /\ DOMAIN chain = 1 .. Len(chain) /\ DOMAIN Owners = 1 .. Len(chain)
      /\ \A i \in 1 .. Len(chain) : Owners[i] = chain[i].owner
      /\ Framed \in SUBSET Nat
  <2>1. chain \in Seq(Frames) /\ stack \in Seq(Calls)
    BY DEF TypeOK
  <2>2. DOMAIN stack = 1 .. Len(stack) /\ Len(stack) \in Nat
    BY <2>1, LenProperties
  <2>3. Framed \in SUBSET Nat
    BY <2>2 DEF Framed
  <2>4. QED
    BY <2>1, <2>3, LenProperties DEF Owners
<1>a. ASSUME UNCHANGED chainVars, Framed' = Framed PROVE ChainOfMethods'
  BY <1>a DEF ChainOfMethods, chainVars
<1>b. ASSUME stack # <<>>, stack' = Front(stack), Depth \in Framed,
             chain # <<>> => chain' = Front(chain), UNCHANGED leaked, ~leaked
      PROVE  Lists(Owners', Framed')
  <2>1. /\ Framed' = Framed \ {Depth}
        /\ \A k \in Framed : k <= Depth
    BY <1>b, PoppedSets DEF Framed
  <2>2. Lists(Owners, Framed)
    BY <1>b DEF ChainOfMethods, Owners
  <2>3. chain # <<>>
    <3>1. SUFFICES ASSUME chain = <<>> PROVE FALSE
      OBVIOUS
    <3>2. DOMAIN Owners = {}
      BY <3>1 DEF Owners
    <3>3. QED
      BY <1>b, <2>2, <3>2 DEF Lists
  <2>4. /\ DOMAIN chain' = 1 .. Len(chain) - 1
        /\ \A i \in 1 .. Len(chain) - 1 : chain'[i] = chain[i]
    BY <1>0, <1>b, <2>3, FrontOf
  <2>5. /\ DOMAIN Owners' = 1 .. Len(chain) - 1
        /\ \A i \in 1 .. Len(chain) - 1 : Owners'[i] = Owners[i]
    BY <1>0, <2>4 DEF Owners
  <2>6. Lists(Owners', Framed \ {Depth})
    BY <1>0, <1>b, <2>1, <2>2, <2>5, ListShrinks, Zenon
  <2>7. QED
    BY <2>1, <2>6
<1>1. ASSUME CallMethod PROVE ChainOfMethods'
  <2>1. PICK c \in MethodCalls :
           /\ Enter(c)
           /\ IF c.frame = "bare" THEN UNCHANGED chain
              ELSE \E n \in 1 .. MaxChain :
                     chain' = Append(chain, [owner |-> Depth + 1, left |-> n])
    BY <1>1, Callers
  <2>2. /\ c \in Calls /\ c.kind = "method" /\ UNCHANGED leaked
    BY <1>1 DEF CallMethod, Calls, MethodCalls
  <2>3. CASE c.frame = "bare"
    <3>1. Framed' = Framed
      BY <2>1, <2>2, <2>3, PushedSets
    <3>2. QED
      BY <2>1, <2>2, <2>3, <3>1, <1>a DEF chainVars
  <2>4. CASE c.frame # "bare"
    <3>1. PICK n \in 1 .. MaxChain :
             chain' = Append(chain, [owner |-> Depth + 1, left |-> n])
      BY <2>1, <2>4
    <3>2. /\ Framed' = Framed \cup {Depth + 1} /\ Depth + 1 \in Nat
          /\ \A k \in Framed : k < Depth + 1
      BY <2>1, <2>2, <2>4, PushedSets DEF Framed
    <3>3. [owner |-> Depth + 1, left |-> n] \in Frames
      BY <2>1, Room, TypeSets DEF Enter, Frames
    <3>4. /\ DOMAIN chain' = 1 .. Len(chain) + 1
          /\ \A i \in 1 .. Len(chain) : chain'[i] = chain[i]
          /\ chain'[Len(chain) + 1].owner = Depth + 1
      BY <1>0, <3>1, <3>3, AppendOf
    <3>5. /\ DOMAIN Owners' = 1 .. Len(chain) + 1
          /\ \A i \in 1 .. Len(chain) : Owners'[i] = Owners[i]
          /\ Owners'[Len(chain) + 1] = Depth + 1
      BY <1>0, <3>4 DEF Owners
    <3>6. ASSUME ~leaked PROVE Lists(Owners', Framed \cup {Depth + 1})
      <4>1. Lists(Owners, Framed)
        BY <3>6 DEF ChainOfMethods, Owners
      <4>2. QED
        BY <1>0, <3>2, <3>5, <4>1, ListGrows, Zenon
    <3>7. QED
      BY <2>2, <3>2, <3>6 DEF ChainOfMethods, Owners
  <2>5. QED
    BY <2>3, <2>4
<1>2. ASSUME ReturnMethod PROVE ChainOfMethods'
  <2>1. /\ stack # <<>> /\ stack' = Front(stack) /\ Top.kind = "method"
        /\ UNCHANGED leaked
        /\ chain' = IF Top.frame = "bare" \/ chain = <<>> THEN chain ELSE Front(chain)
    BY <1>2 DEF ReturnMethod, Leave
  <2>2. CASE Top.frame = "bare"
    <3>1. Framed' = Framed
      BY <2>1, <2>2, PoppedSets DEF Framed, Top
    <3>2. QED
      BY <2>1, <2>2, <3>1, <1>a DEF chainVars
  <2>3. CASE Top.frame # "bare"
    <3>1. Depth \in Framed
      BY <2>1, <2>3, PoppedSets DEF Framed, Top
    <3>2. QED
      BY <2>1, <2>3, <3>1, <1>b DEF ChainOfMethods, Owners
  <2>4. QED
    BY <2>2, <2>3
<1>3. ASSUME CallNextMethod PROVE ChainOfMethods'
  <2>1. PICK c \in MethodCalls : Enter(c) /\ c.frame = "bare"
    BY <1>3, Callers
  <2>2. Framed' = Framed
    BY <2>1, PushedSets DEF Calls
  <2>3. Owners' = Owners /\ UNCHANGED leaked
    BY <1>3, TakenNext DEF CallNextMethod, Owners
  <2>4. QED
    BY <2>2, <2>3 DEF ChainOfMethods, Owners
<1>4. ASSUME NoNextMethod PROVE ChainOfMethods'
  <2>1. UNCHANGED chainVars /\ UNCHANGED stack
    BY <1>4 DEF NoNextMethod, chainVars
  <2>2. QED
    BY <2>1, <1>a DEF Framed
<1>5. ASSUME EnterBlock PROVE ChainOfMethods'
  <2>1. PICK c \in BlockCalls : Enter(c)
    BY <1>5, Callers, Zenon
  <2>2. c \in Calls /\ c.kind # "method"
    BY DEF Calls, BlockCalls
  <2>3. Framed' = Framed
    BY <2>1, <2>2, PushedSets
  <2>4. UNCHANGED chainVars
    BY <1>5 DEF EnterBlock, chainVars
  <2>5. QED
    BY <2>3, <2>4, <1>a
<1>6. ASSUME ReturnBody PROVE ChainOfMethods'
  <2>1. Moves("cleanup", Top.pending)
    BY <1>6, Movers
  <2>2. UNCHANGED chainVars
    BY <1>6 DEF ReturnBody, chainVars
  <2>3. QED
    BY <2>1, <2>2, <1>a, MovedSets, Zenon
<1>7. ASSUME ReturnCleanup PROVE ChainOfMethods'
  <2>1. Moves("afterwards", Top.pending)
    BY <1>7, Movers
  <2>2. UNCHANGED chainVars
    BY <1>7 DEF ReturnCleanup, chainVars
  <2>3. QED
    BY <2>1, <2>2, <1>a, MovedSets, Zenon
<1>8. ASSUME ReturnBlock PROVE ChainOfMethods'
  <2>1. stack # <<>> /\ stack' = Front(stack) /\ UNCHANGED chainVars /\ Top.kind = "block"
    BY <1>8 DEF ReturnBlock, Leave, InBlock, chainVars
  <2>2. Framed' = Framed
    BY <2>1, PoppedSets DEF Framed, Top
  <2>3. QED
    BY <2>1, <2>2, <1>a
<1>9. ASSUME Catch PROVE ChainOfMethods'
  <2>1. Moves("cleanup", Top.pending)
    BY <1>9, Movers
  <2>2. UNCHANGED chainVars
    BY <1>9 DEF Catch, chainVars
  <2>3. QED
    BY <2>1, <2>2, <1>a, MovedSets, Zenon
<1>10. ASSUME DropGuard PROVE ChainOfMethods'
  <2>1. Moves("dropping", payload)
    BY <1>10, Movers
  <2>2. UNCHANGED chainVars
    BY <1>10 DEF DropGuard, chainVars
  <2>3. QED
    BY <2>1, <2>2, <1>a, MovedSets, Zenon
<1>11. ASSUME ResumeUnwind PROVE ChainOfMethods'
  <2>1. Moves("dropped", Nil)
    BY <1>11, Movers
  <2>2. UNCHANGED chainVars
    BY <1>11 DEF ResumeUnwind, chainVars
  <2>3. QED
    BY <2>1, <2>2, <1>a, MovedSets, Zenon
<1>12. ASSUME UnwindBlock PROVE ChainOfMethods'
  <2>1. stack # <<>> /\ stack' = Front(stack) /\ UNCHANGED chainVars /\ Top.kind = "block"
    BY <1>12 DEF UnwindBlock, Leave, InBlock, chainVars
  <2>2. Framed' = Framed
    BY <2>1, PoppedSets DEF Framed, Top
  <2>3. QED
    BY <2>1, <2>2, <1>a
<1>13. ASSUME Abort PROVE ChainOfMethods'
  <2>1. UNCHANGED chainVars /\ UNCHANGED stack
    BY <1>13 DEF Abort, chainVars
  <2>2. QED
    BY <2>1, <1>a DEF Framed
<1>14. ASSUME Signal PROVE ChainOfMethods'
  <2>1. PICK c \in HandlerCalls : Enter(c)
    BY <1>14, Callers, Zenon
  <2>2. c \in Calls /\ c.kind # "method"
    BY DEF Calls, HandlerCalls
  <2>3. Framed' = Framed
    BY <2>1, <2>2, PushedSets
  <2>4. UNCHANGED chainVars
    BY <1>14 DEF Signal, chainVars
  <2>5. QED
    BY <2>3, <2>4, <1>a
<1>15. ASSUME Unhandled PROVE ChainOfMethods'
  <2>1. UNCHANGED chainVars /\ UNCHANGED stack
    BY <1>15 DEF Unhandled, chainVars
  <2>2. QED
    BY <2>1, <1>a DEF Framed
<1>16. ASSUME ReturnHandler PROVE ChainOfMethods'
  <2>1. UNCHANGED chainVars /\ UNCHANGED stack
    BY <1>16 DEF ReturnHandler, chainVars
  <2>2. QED
    BY <2>1, <1>a DEF Framed
<1>17. ASSUME InvokeExit PROVE ChainOfMethods'
  <2>1. UNCHANGED chainVars /\ UNCHANGED stack
    BY <1>17 DEF InvokeExit, chainVars
  <2>2. QED
    BY <2>1, <1>a DEF Framed
<1>18. ASSUME UnwindCall PROVE ChainOfMethods'
  <2>1. stack # <<>> /\ stack' = Front(stack) /\ Top.kind # "block"
    BY <1>18 DEF UnwindCall
  <2>2. CASE UNCHANGED chainVars /\ (Top.kind = "handler" \/ Top.frame = "bare")
    <3>1. Framed' = Framed
      BY <2>1, <2>2, PoppedSets DEF Framed, Top
    <3>2. QED
      BY <2>2, <3>1, <1>a
  <2>3. CASE /\ Top.kind # "handler" /\ Top.frame # "bare"
             /\ chain' = Front(chain) /\ UNCHANGED leaked
    <3>1. Top.kind = "method"
      BY <2>1, <2>3, OnTop DEF Calls, MethodCalls, BlockCalls, HandlerCalls
    <3>2. Depth \in Framed
      BY <2>1, <2>3, <3>1, PoppedSets DEF Framed, Top
    <3>3. QED
      BY <2>1, <2>3, <3>2, <1>b DEF ChainOfMethods, Owners
  <2>4. CASE leaked' = TRUE
    BY <2>4 DEF ChainOfMethods
  <2>5. QED
    BY <1>18, <2>2, <2>3, <2>4 DEF UnwindCall
<1>19. ASSUME Uncaught PROVE ChainOfMethods'
  <2>1. UNCHANGED chainVars /\ UNCHANGED stack
    BY <1>19 DEF Uncaught, chainVars
  <2>2. QED
    BY <2>1, <1>a DEF Framed
<1>20. CASE UNCHANGED vars
  BY <1>20 DEF vars, ChainOfMethods, Framed
<1>21. QED
  BY <1>1, <1>2, <1>3, <1>4, <1>5, <1>6, <1>7, <1>8, <1>9, <1>10, <1>11, <1>12,
     <1>13, <1>14, <1>15, <1>16, <1>17, <1>18, <1>19, <1>20 DEF Next

\* The captured locals are those of the blocks.
CapturedInv == Lists(captured, InBlocks)

\* Every step keeps the captured locals those of the blocks.
LEMMA CapturedStep ==
    ASSUME TypeOK, CapturedInv, [Next]_vars
    PROVE  CapturedInv'
<1>0. /\ captured \in Seq(1 .. MaxDepth) /\ Len(captured) \in Nat
      /\ DOMAIN captured = 1 .. Len(captured)
      /\ InBlocks \in SUBSET Nat
  <2>1. captured \in Seq(1 .. MaxDepth) /\ stack \in Seq(Calls)
    BY DEF TypeOK
  <2>2. DOMAIN stack = 1 .. Len(stack) /\ Len(stack) \in Nat
    BY <2>1, LenProperties
  <2>3. InBlocks \in SUBSET Nat
    BY <2>2 DEF InBlocks
  <2>4. QED
    BY <2>1, <2>3, LenProperties
<1>a. ASSUME UNCHANGED captured, InBlocks' = InBlocks PROVE CapturedInv'
  BY <1>a DEF CapturedInv
<1>b. ASSUME stack # <<>>, stack' = Front(stack), Top.kind = "block",
             captured' = Front(captured)
      PROVE  CapturedInv'
  <2>1. /\ InBlocks' = InBlocks \ {Depth} /\ Depth \in InBlocks
        /\ \A k \in InBlocks : k <= Depth
    BY <1>b, PoppedSets DEF InBlocks, Top
  <2>2. captured # <<>>
    <3>1. SUFFICES ASSUME captured = <<>> PROVE FALSE
      OBVIOUS
    <3>2. DOMAIN captured = {}
      BY <3>1
    <3>3. QED
      BY <2>1, <3>2 DEF CapturedInv, Lists
  <2>3. /\ DOMAIN captured' = 1 .. Len(captured) - 1
        /\ \A i \in 1 .. Len(captured) - 1 : captured'[i] = captured[i]
    BY <1>0, <1>b, <2>2, FrontOf
  <2>4. Lists(captured', InBlocks \ {Depth})
    BY <1>0, <2>1, <2>3, ListShrinks, Zenon DEF CapturedInv
  <2>5. QED
    BY <2>1, <2>4 DEF CapturedInv
<1>1. ASSUME CallMethod PROVE CapturedInv'
  <2>1. PICK c \in MethodCalls : Enter(c)
    BY <1>1, Callers, Zenon
  <2>2. c \in Calls /\ c.kind # "block"
    BY DEF Calls, MethodCalls
  <2>3. InBlocks' = InBlocks
    BY <2>1, <2>2, PushedSets
  <2>4. UNCHANGED captured
    BY <1>1 DEF CallMethod, blockVars
  <2>5. QED
    BY <2>3, <2>4, <1>a
<1>2. ASSUME ReturnMethod PROVE CapturedInv'
  <2>1. stack # <<>> /\ stack' = Front(stack) /\ Top.kind # "block" /\ UNCHANGED captured
    BY <1>2 DEF ReturnMethod, Leave, blockVars
  <2>2. InBlocks' = InBlocks
    BY <2>1, PoppedSets DEF InBlocks, Top
  <2>3. QED
    BY <2>1, <2>2, <1>a
<1>3. ASSUME CallNextMethod PROVE CapturedInv'
  <2>1. PICK c \in MethodCalls : Enter(c)
    BY <1>3, Callers, Zenon
  <2>2. c \in Calls /\ c.kind # "block"
    BY DEF Calls, MethodCalls
  <2>3. InBlocks' = InBlocks
    BY <2>1, <2>2, PushedSets
  <2>4. UNCHANGED captured
    BY <1>3 DEF CallNextMethod, blockVars
  <2>5. QED
    BY <2>3, <2>4, <1>a
<1>4. ASSUME NoNextMethod PROVE CapturedInv'
  <2>1. UNCHANGED captured /\ UNCHANGED stack
    BY <1>4 DEF NoNextMethod, blockVars
  <2>2. QED
    BY <2>1, <1>a DEF InBlocks
<1>5. ASSUME EnterBlock PROVE CapturedInv'
  <2>1. PICK c \in BlockCalls : Enter(c)
    BY <1>5, Callers, Zenon
  <2>2. c \in Calls /\ c.kind = "block"
    BY DEF Calls, BlockCalls
  <2>3. /\ InBlocks' = InBlocks \cup {Depth + 1} /\ Depth + 1 \in Nat
        /\ \A k \in InBlocks : k < Depth + 1
    BY <2>1, <2>2, PushedSets DEF InBlocks
  <2>4. captured' = Append(captured, Depth + 1) /\ Depth + 1 \in 1 .. MaxDepth
    BY <1>5, <2>1, Room DEF EnterBlock, Enter
  <2>5. /\ DOMAIN captured' = 1 .. Len(captured) + 1
        /\ \A i \in 1 .. Len(captured) : captured'[i] = captured[i]
        /\ captured'[Len(captured) + 1] = Depth + 1
    BY <1>0, <2>4, AppendOf
  <2>6. Lists(captured', InBlocks \cup {Depth + 1})
    BY <1>0, <2>3, <2>5, ListGrows, Zenon DEF CapturedInv
  <2>7. QED
    BY <2>3, <2>6 DEF CapturedInv
<1>6. ASSUME ReturnBody PROVE CapturedInv'
  <2>1. Moves("cleanup", Top.pending)
    BY <1>6, Movers
  <2>2. UNCHANGED captured
    BY <1>6 DEF ReturnBody, blockVars
  <2>3. QED
    BY <2>1, <2>2, <1>a, MovedSets, Zenon
<1>7. ASSUME ReturnCleanup PROVE CapturedInv'
  <2>1. Moves("afterwards", Top.pending)
    BY <1>7, Movers
  <2>2. UNCHANGED captured
    BY <1>7 DEF ReturnCleanup, blockVars
  <2>3. QED
    BY <2>1, <2>2, <1>a, MovedSets, Zenon
<1>8. ASSUME ReturnBlock PROVE CapturedInv'
  <2>1. /\ stack # <<>> /\ stack' = Front(stack) /\ Top.kind = "block"
        /\ captured' = Front(captured)
    BY <1>8 DEF ReturnBlock, Leave, InBlock
  <2>2. QED
    BY <2>1, <1>b
<1>9. ASSUME Catch PROVE CapturedInv'
  <2>1. Moves("cleanup", Top.pending)
    BY <1>9, Movers
  <2>2. UNCHANGED captured
    BY <1>9 DEF Catch, blockVars
  <2>3. QED
    BY <2>1, <2>2, <1>a, MovedSets, Zenon
<1>10. ASSUME DropGuard PROVE CapturedInv'
  <2>1. Moves("dropping", payload)
    BY <1>10, Movers
  <2>2. UNCHANGED captured
    BY <1>10 DEF DropGuard, blockVars
  <2>3. QED
    BY <2>1, <2>2, <1>a, MovedSets, Zenon
<1>11. ASSUME ResumeUnwind PROVE CapturedInv'
  <2>1. Moves("dropped", Nil)
    BY <1>11, Movers
  <2>2. UNCHANGED captured
    BY <1>11 DEF ResumeUnwind, blockVars
  <2>3. QED
    BY <2>1, <2>2, <1>a, MovedSets, Zenon
<1>12. ASSUME UnwindBlock PROVE CapturedInv'
  <2>1. /\ stack # <<>> /\ stack' = Front(stack) /\ Top.kind = "block"
        /\ captured' = Front(captured)
    BY <1>12 DEF UnwindBlock, Leave, InBlock
  <2>2. QED
    BY <2>1, <1>b
<1>13. ASSUME Abort PROVE CapturedInv'
  <2>1. UNCHANGED captured /\ UNCHANGED stack
    BY <1>13 DEF Abort, blockVars
  <2>2. QED
    BY <2>1, <1>a DEF InBlocks
<1>14. ASSUME Signal PROVE CapturedInv'
  <2>1. PICK c \in HandlerCalls : Enter(c)
    BY <1>14, Callers, Zenon
  <2>2. c \in Calls /\ c.kind # "block"
    BY DEF Calls, HandlerCalls
  <2>3. InBlocks' = InBlocks
    BY <2>1, <2>2, PushedSets
  <2>4. UNCHANGED captured
    BY <1>14 DEF Signal, blockVars
  <2>5. QED
    BY <2>3, <2>4, <1>a
<1>15. ASSUME Unhandled PROVE CapturedInv'
  <2>1. UNCHANGED captured /\ UNCHANGED stack
    BY <1>15 DEF Unhandled, blockVars
  <2>2. QED
    BY <2>1, <1>a DEF InBlocks
<1>16. ASSUME ReturnHandler PROVE CapturedInv'
  <2>1. UNCHANGED captured /\ UNCHANGED stack
    BY <1>16 DEF ReturnHandler, blockVars
  <2>2. QED
    BY <2>1, <1>a DEF InBlocks
<1>17. ASSUME InvokeExit PROVE CapturedInv'
  <2>1. UNCHANGED captured /\ UNCHANGED stack
    BY <1>17 DEF InvokeExit, blockVars
  <2>2. QED
    BY <2>1, <1>a DEF InBlocks
<1>18. ASSUME UnwindCall PROVE CapturedInv'
  <2>1. stack # <<>> /\ stack' = Front(stack) /\ Top.kind # "block" /\ UNCHANGED captured
    BY <1>18 DEF UnwindCall, Leave, blockVars
  <2>2. InBlocks' = InBlocks
    BY <2>1, PoppedSets DEF InBlocks, Top
  <2>3. QED
    BY <2>1, <2>2, <1>a
<1>19. ASSUME Uncaught PROVE CapturedInv'
  <2>1. UNCHANGED captured /\ UNCHANGED stack
    BY <1>19 DEF Uncaught, blockVars
  <2>2. QED
    BY <2>1, <1>a DEF InBlocks
<1>20. CASE UNCHANGED vars
  BY <1>20 DEF vars, CapturedInv, InBlocks
<1>21. QED
  BY <1>1, <1>2, <1>3, <1>4, <1>5, <1>6, <1>7, <1>8, <1>9, <1>10, <1>11, <1>12,
     <1>13, <1>14, <1>15, <1>16, <1>17, <1>18, <1>19, <1>20 DEF Next

\* Types of what the handler stack is related to.
LEMMA InvTypes ==
    ASSUME TypeOK
    PROVE  /\ handlers \in Seq(Handlers) /\ Len(handlers) \in Nat
           /\ DOMAIN handlers = 1 .. Len(handlers)
           /\ \A j \in DOMAIN handlers : handlers[j].owner \in Nat
           /\ InBlocks \subseteq Nat /\ Live \subseteq InBlocks
           /\ \A i \in InBlocks : /\ stack[i].handlerBase \in Nat
                                  /\ stack[i].id \in DOMAIN Blocks
                                  /\ i \in 1 .. MaxDepth
                                  /\ Len(Blocks[stack[i].id]) \in Nat
<1>1. /\ handlers \in Seq(Handlers) /\ Len(handlers) \in Nat
      /\ DOMAIN handlers = 1 .. Len(handlers)
      /\ \A j \in DOMAIN handlers : handlers[j] \in Handlers
  BY LenProperties, ElementOfSeq DEF TypeOK
<1>2. \A j \in DOMAIN handlers : handlers[j].owner \in Nat
  BY <1>1, TypeSets DEF Handlers
<1>3. /\ DOMAIN stack = 1 .. Depth /\ Depth \in Nat /\ Depth <= MaxDepth
      /\ \A i \in DOMAIN stack : stack[i] \in Calls
  BY LenProperties, ElementOfSeq DEF TypeOK, Depth
<1>4. ASSUME NEW i \in InBlocks
      PROVE  /\ stack[i] \in BlockCalls /\ i \in 1 .. MaxDepth
             /\ Len(Blocks[stack[i].id]) \in Nat
  <2>1. stack[i] \in BlockCalls
    BY <1>3 DEF InBlocks, Calls, MethodCalls, HandlerCalls
  <2>2. i \in 1 .. MaxDepth
    BY <1>3, TypeSets DEF InBlocks
  <2>3. Blocks[stack[i].id] \in Seq(Classes)
    BY <2>1, ActivationsAssumption DEF BlockCalls
  <2>4. QED
    BY <2>1, <2>2, <2>3, LenProperties
<1>5. QED
  BY <1>1, <1>2, <1>4, TypeSets DEF BlockCalls, Live

\* No activation is above the one on top.
LEMMA Tops ==
    ASSUME TypeOK
    PROVE  \A i \in InBlocks : i <= Depth
BY LenProperties DEF TypeOK, InBlocks, Depth

\* Every step keeps the handlers those of the blocks.
LEMMA HandlerStep ==
    ASSUME TypeOK, HandlerInv, [Next]_vars
    PROVE  HandlerInv'
<1>0. /\ handlers \in Seq(Handlers) /\ Len(handlers) \in Nat
      /\ DOMAIN handlers = 1 .. Len(handlers)
      /\ \A j \in DOMAIN handlers : handlers[j].owner \in Nat
      /\ InBlocks \subseteq Nat /\ Live \subseteq InBlocks
      /\ \A i \in InBlocks : /\ stack[i].handlerBase \in Nat
                             /\ stack[i].id \in DOMAIN Blocks
                             /\ i \in 1 .. MaxDepth
                             /\ Len(Blocks[stack[i].id]) \in Nat
  BY InvTypes
<1>a. ASSUME UNCHANGED handlers, InBlocks' = InBlocks, Live' = Live,
             \A i \in InBlocks' : /\ stack'[i].id = stack[i].id
                                  /\ stack'[i].handlerBase = stack[i].handlerBase
      PROVE  HandlerInv'
  BY <1>0, <1>a DEF HandlerInv
<1>b. ASSUME Depth \in InBlocks, handlers' = Truncate(handlers, Top.handlerBase),
             Live' = Live \ {Depth}, InBlocks' \subseteq InBlocks,
             \A i \in InBlocks' : /\ stack'[i].id = stack[i].id
                                  /\ stack'[i].handlerBase = stack[i].handlerBase
      PROVE  HandlerInv'
  <2> DEFINE base == stack[Depth].handlerBase
  <2>1. /\ base \in Nat /\ base <= Len(handlers) /\ Depth \in Nat
        /\ \A j \in DOMAIN handlers : handlers[j].owner < Depth <=> j <= base
    BY <1>0, <1>b DEF HandlerInv
  <2>2. Top.handlerBase = base
    BY DEF Top
  <2> HIDE DEF base
  <2>3. /\ DOMAIN handlers' = 1 .. base /\ Len(handlers') = base
        /\ \A j \in 1 .. base : j \in DOMAIN handlers /\ handlers'[j] = handlers[j]
    <3>1. /\ DOMAIN handlers' = 1 .. base /\ Len(handlers') = base
          /\ \A j \in 1 .. base : handlers'[j] = handlers[j]
      <4>1. handlers' = Truncate(handlers, base)
        BY <1>b, <2>2
      <4>2. /\ DOMAIN Truncate(handlers, base) = 1 .. base
            /\ Len(Truncate(handlers, base)) = base
            /\ \A j \in 1 .. base : Truncate(handlers, base)[j] = handlers[j]
        BY <1>0, <2>1, TruncateOf
      <4>3. QED
        BY <4>1, <4>2
    <3>2. \A j \in 1 .. base : j \in DOMAIN handlers
      BY <1>0, <2>1
    <3>3. QED
      BY <3>1, <3>2
  <2>4. ASSUME NEW i \in InBlocks' PROVE i <= Depth /\ i \in InBlocks /\ i \in Nat
    BY <1>0, <1>b, Tops
  <2>5. ASSUME NEW j \in DOMAIN handlers' PROVE handlers'[j].owner \in Live'
    <3>1. handlers'[j].owner \in Live /\ handlers'[j].owner < Depth
      BY <2>1, <2>3 DEF HandlerInv
    <3>2. QED
      BY <1>b, <2>1, <3>1
  <2>6. ASSUME NEW i \in InBlocks', ~(stack[i].handlerBase <= base) PROVE FALSE
    <3>1. base + 1 \in DOMAIN handlers /\ base + 1 <= stack[i].handlerBase
      BY <1>0, <2>1, <2>4, <2>6 DEF HandlerInv
    <3>2. handlers[base + 1].owner < i
      BY <2>4, <3>1 DEF HandlerInv
    <3>3. handlers[base + 1].owner < Depth
      BY <1>0, <2>1, <2>4, <3>1, <3>2
    <3>4. QED
      BY <2>1, <3>1, <3>3
  <2>7. ASSUME NEW i \in InBlocks'
        PROVE  /\ stack'[i].handlerBase <= Len(handlers')
               /\ \A j \in DOMAIN handlers' :
                     handlers'[j].owner < i <=> j <= stack'[i].handlerBase
    <3>1. stack'[i].handlerBase = stack[i].handlerBase /\ i \in InBlocks
      BY <1>b, <2>4
    <3>2. \A j \in DOMAIN handlers : handlers[j].owner < i <=> j <= stack[i].handlerBase
      BY <3>1 DEF HandlerInv
    <3>3. QED
      BY <2>3, <2>6, <3>1, <3>2
  <2>8. ASSUME NEW i \in Live'
        PROVE  LET start == stack'[i].handlerBase
                   own == Clauses(stack'[i].id, i)
               IN /\ start + Len(own) <= Len(handlers')
                  /\ \A j \in DOMAIN handlers' :
                        handlers'[j].owner <= i <=> j <= start + Len(own)
                  /\ \A k \in DOMAIN own : handlers'[start + k] = own[k]
    <3>1. i \in Live /\ i # Depth /\ i \in InBlocks'
      BY <1>b DEF Live
    <3>2. /\ stack'[i].handlerBase = stack[i].handlerBase
          /\ stack'[i].id = stack[i].id
          /\ i \in Nat /\ i < Depth
      BY <1>b, <2>1, <2>4, <3>1
    <3> DEFINE start == stack[i].handlerBase
               own == Clauses(stack[i].id, i)
    <3>3. /\ start + Len(own) <= Len(handlers)
          /\ \A j \in DOMAIN handlers :
                handlers[j].owner <= i <=> j <= start + Len(own)
          /\ \A k \in DOMAIN own : handlers[start + k] = own[k]
      BY <3>1 DEF HandlerInv
    <3>4. /\ start \in Nat /\ Len(own) \in Nat /\ DOMAIN own = 1 .. Len(own)
      BY <1>0, <2>4, <3>1, ClausesOf
    <3> HIDE DEF start, own
    <3>5. start + Len(own) <= base
      <4>1. SUFFICES ASSUME ~(start + Len(own) <= base) PROVE FALSE
        OBVIOUS
      <4>2. base + 1 \in DOMAIN handlers /\ base + 1 <= start + Len(own)
        BY <1>0, <2>1, <3>3, <3>4, <4>1
      <4>3. handlers[base + 1].owner <= i
        BY <3>3, <4>2
      <4>4. handlers[base + 1].owner < Depth
        BY <1>0, <2>1, <3>2, <4>2, <4>3
      <4>5. QED
        BY <2>1, <4>2, <4>4
    <3>6. \A k \in DOMAIN own : start + k \in 1 .. base
      BY <2>1, <3>4, <3>5
    <3>7. /\ start + Len(own) <= Len(handlers')
          /\ \A j \in DOMAIN handlers' :
                handlers'[j].owner <= i <=> j <= start + Len(own)
          /\ \A k \in DOMAIN own : handlers'[start + k] = own[k]
      BY <2>3, <3>3, <3>5, <3>6
    <3>8. QED
      BY <3>2, <3>7 DEF start, own
  <2>9. QED
    BY <2>5, <2>7, <2>8 DEF HandlerInv
<1>1. ASSUME CallMethod PROVE HandlerInv'
  <2>1. PICK c \in MethodCalls : Enter(c)
    BY <1>1, Callers, Zenon
  <2>2. c \in Calls /\ c.kind # "block"
    BY DEF Calls, MethodCalls
  <2>3. /\ InBlocks' = InBlocks /\ Live' = Live
        /\ \A i \in InBlocks : stack'[i] = stack[i]
    BY <2>1, <2>2, PushedSets DEF InBlocks
  <2>4. UNCHANGED handlers
    BY <1>1 DEF CallMethod, blockVars
  <2>5. QED
    BY <2>3, <2>4, <1>a
<1>2. ASSUME ReturnMethod PROVE HandlerInv'
  <2>1. stack # <<>> /\ stack' = Front(stack) /\ Top.kind # "block" /\ UNCHANGED handlers
    BY <1>2 DEF ReturnMethod, Leave, blockVars
  <2>2. /\ InBlocks' = InBlocks /\ Live' = Live
        /\ \A i \in InBlocks' : stack'[i] = stack[i]
    BY <2>1, PoppedSets DEF InBlocks, Live, Top
  <2>3. QED
    BY <2>1, <2>2, <1>a
<1>3. ASSUME CallNextMethod PROVE HandlerInv'
  <2>1. PICK c \in MethodCalls : Enter(c)
    BY <1>3, Callers, Zenon
  <2>2. c \in Calls /\ c.kind # "block"
    BY DEF Calls, MethodCalls
  <2>3. /\ InBlocks' = InBlocks /\ Live' = Live
        /\ \A i \in InBlocks : stack'[i] = stack[i]
    BY <2>1, <2>2, PushedSets DEF InBlocks
  <2>4. UNCHANGED handlers
    BY <1>3 DEF CallNextMethod, blockVars
  <2>5. QED
    BY <2>3, <2>4, <1>a
<1>4. ASSUME NoNextMethod PROVE HandlerInv'
  <2>1. UNCHANGED <<stack, handlers>>
    BY <1>4 DEF NoNextMethod, blockVars
  <2>2. QED
    BY <2>1 DEF HandlerInv, InBlocks, Live
<1>5. ASSUME EnterBlock PROVE HandlerInv'
  <2>1. PICK c \in BlockCalls :
           /\ Enter(c) /\ c.phase = "body" /\ c.handlerBase = Len(handlers)
           /\ handlers' = handlers \o Clauses(c.id, Depth + 1)
    BY <1>5, Callers, Zenon
  <2>2. c \in Calls /\ c.kind = "block" /\ c.id \in DOMAIN Blocks
    BY DEF Calls, BlockCalls
  <2> DEFINE d == Depth + 1
             n == Len(handlers)
             new == Clauses(c.id, d)
  <2>3. /\ InBlocks' = InBlocks \cup {d} /\ Live' = Live \cup {d} /\ d \in Nat
        /\ d \notin InBlocks
        /\ \A i \in InBlocks : i < d /\ stack'[i] = stack[i]
        /\ stack'[d] = c
    <3>1. /\ InBlocks' = InBlocks \cup {d} /\ Live' = Live \cup {d}
          /\ stack'[d] = c
      BY <2>1, <2>2, PushedSets
    <3>2. d \in Nat /\ \A i \in InBlocks : i < d /\ stack'[i] = stack[i]
      BY <2>1, <2>2, PushedSets DEF InBlocks
    <3>3. QED
      BY <1>0, <3>1, <3>2
  <2>4. d \in 1 .. MaxDepth
    BY <2>1, Room DEF Enter
  <2>5. new \in Seq(Handlers) /\ Len(new) \in Nat /\ DOMAIN new = 1 .. Len(new)
        /\ \A k \in DOMAIN new : new[k].owner = d
    <3>1. /\ new \in Seq(Handlers) /\ DOMAIN new = DOMAIN Blocks[c.id]
          /\ \A k \in DOMAIN Blocks[c.id] :
                new[k] = [class |-> Blocks[c.id][k], target |-> c.id, owner |-> d]
      <4> HIDE DEF d
      <4> QED BY <2>2, <2>4, ClausesOf
    <3> HIDE DEF new
    <3>2. Len(new) \in Nat /\ DOMAIN new = 1 .. Len(new)
      BY <3>1, LenProperties
    <3>3. ASSUME NEW k \in DOMAIN new PROVE new[k].owner = d
      <4> DEFINE cl == Blocks[c.id][k]
      <4>1. new[k] = [class |-> cl, target |-> c.id, owner |-> d]
        BY <3>1
      <4> HIDE DEF d, cl
      <4>2. QED
        BY <4>1
    <3>4. QED
      BY <3>1, <3>2, <3>3
  <2> HIDE DEF d, new
  <2>6. /\ n \in Nat /\ DOMAIN handlers = 1 .. n
        /\ DOMAIN handlers' = 1 .. n + Len(new) /\ Len(handlers') = n + Len(new)
        /\ \A j \in 1 .. n : handlers'[j] = handlers[j]
        /\ \A k \in 1 .. Len(new) : handlers'[n + k] = new[k]
    <3>1. handlers' = handlers \o new
      BY <2>1 DEF d, new
    <3>2. handlers \o new \in Seq(Handlers) /\ Len(handlers \o new) = n + Len(new)
      BY <1>0, <2>5, ConcatProperties, Zenon
    <3>3. DOMAIN handlers' = 1 .. Len(handlers')
      BY <3>1, <3>2, LenProperties
    <3>4. QED
      BY <1>0, <2>5, <3>1, <3>2, <3>3
  <2> HIDE DEF n
  <2>7. /\ \A j \in 1 .. n : handlers'[j].owner \in Live /\ handlers'[j].owner < d
        /\ \A j \in 1 .. n + Len(new) : ~(j <= n) => handlers'[j].owner = d
    <3>1. \A j \in 1 .. n : handlers'[j].owner \in Live
      BY <2>6 DEF HandlerInv
    <3>2. ASSUME NEW j \in 1 .. n + Len(new), ~(j <= n) PROVE handlers'[j].owner = d
      <4>1. j - n \in 1 .. Len(new) /\ j = n + (j - n)
        BY <2>5, <2>6, <3>2
      <4>2. handlers'[j] = new[j - n]
        BY <2>6, <4>1
      <4>3. QED
        BY <2>5, <4>1, <4>2
    <3>3. QED
      BY <1>0, <2>3, <3>1, <3>2
  <2>8. \A j \in DOMAIN handlers' : handlers'[j].owner \in Live'
    BY <2>3, <2>6, <2>7
  <2>9. ASSUME NEW i \in InBlocks'
        PROVE  /\ stack'[i].handlerBase <= Len(handlers')
               /\ \A j \in DOMAIN handlers' :
                     handlers'[j].owner < i <=> j <= stack'[i].handlerBase
    <3>1. CASE i = d
      BY <2>1, <2>3, <2>5, <2>6, <2>7, <3>1 DEF n
    <3>2. CASE i \in InBlocks
      <4>1. /\ stack[i].handlerBase <= n /\ stack[i].handlerBase \in Nat
            /\ \A j \in 1 .. n : handlers[j].owner < i <=> j <= stack[i].handlerBase
        BY <1>0, <2>6, <3>2 DEF HandlerInv, n
      <4>2. i \in Nat /\ i < d /\ stack'[i] = stack[i]
        BY <1>0, <2>3, <3>2
      <4>3. QED
        BY <2>3, <2>5, <2>6, <2>7, <4>1, <4>2
    <3>3. QED
      BY <2>3, <3>1, <3>2
  <2>10. ASSUME NEW i \in Live'
         PROVE  LET start == stack'[i].handlerBase
                    own == Clauses(stack'[i].id, i)
                IN /\ start + Len(own) <= Len(handlers')
                   /\ \A j \in DOMAIN handlers' :
                         handlers'[j].owner <= i <=> j <= start + Len(own)
                   /\ \A k \in DOMAIN own : handlers'[start + k] = own[k]
    <3>1. CASE i = d
      <4>1. Clauses(stack'[i].id, i) = new /\ stack'[i].handlerBase = n
        BY <2>1, <2>3, <3>1 DEF new, n
      <4>2. \A j \in DOMAIN handlers' : handlers'[j].owner <= i <=> j <= n + Len(new)
        BY <1>0, <2>3, <2>5, <2>6, <2>7, <3>1
      <4>3. QED
        BY <2>5, <2>6, <4>1, <4>2
    <3>2. CASE i \in Live
      <4> DEFINE start == stack[i].handlerBase
                 own == Clauses(stack[i].id, i)
      <4>1. /\ start + Len(own) <= n
            /\ \A j \in 1 .. n :
                  handlers[j].owner <= i <=> j <= start + Len(own)
            /\ \A k \in DOMAIN own : handlers[start + k] = own[k]
        BY <2>6, <3>2 DEF HandlerInv, n
      <4>2. i \in Nat /\ i < d /\ stack'[i] = stack[i]
        BY <1>0, <2>3, <3>2
      <4>3. /\ start \in Nat /\ Len(own) \in Nat /\ DOMAIN own = 1 .. Len(own)
        BY <1>0, <3>2, ClausesOf
      <4> HIDE DEF start, own
      <4>4. \A k \in DOMAIN own : start + k \in 1 .. n
        BY <2>6, <4>1, <4>3
      <4>5. start + Len(own) <= Len(handlers')
        BY <2>5, <2>6, <4>1, <4>3
      <4>6. \A j \in DOMAIN handlers' :
               handlers'[j].owner <= i <=> j <= start + Len(own)
        BY <2>3, <2>5, <2>6, <2>7, <4>1, <4>2, <4>3
      <4>7. \A k \in DOMAIN own : handlers'[start + k] = own[k]
        BY <2>6, <4>1, <4>4
      <4>8. QED
        BY <4>2, <4>5, <4>6, <4>7 DEF start, own
    <3>3. QED
      BY <2>3, <3>1, <3>2
  <2>11. QED
    BY <2>8, <2>9, <2>10 DEF HandlerInv
<1>6. ASSUME ReturnBody PROVE HandlerInv'
  <2>1. Moves("cleanup", Top.pending)
    BY <1>6, Movers
  <2>2. UNCHANGED handlers /\ Top.phase \in {"body", "cleanup"}
    BY <1>6 DEF ReturnBody, blockVars, InBlock, Caught
  <2>3. Live' = Live
    BY <2>1, <2>2, MovedSets DEF Live, Top
  <2>4. QED
    BY <2>1, <2>2, <2>3, <1>a, MovedSets
<1>7. ASSUME ReturnCleanup PROVE HandlerInv'
  <2>1. Moves("afterwards", Top.pending)
    BY <1>7, Movers
  <2>2. UNCHANGED handlers /\ Top.phase \in {"body", "cleanup"}
    BY <1>7 DEF ReturnCleanup, blockVars, InBlock, Caught
  <2>3. Live' = Live
    BY <2>1, <2>2, MovedSets DEF Live, Top
  <2>4. QED
    BY <2>1, <2>2, <2>3, <1>a, MovedSets
<1>8. ASSUME ReturnBlock PROVE HandlerInv'
  <2>1. /\ stack # <<>> /\ stack' = Front(stack) /\ Top.kind = "block"
        /\ handlers' = Truncate(handlers, Top.handlerBase)
    BY <1>8 DEF ReturnBlock, Leave, InBlock
  <2>2. /\ Live' = Live \ {Depth} /\ InBlocks' \subseteq InBlocks
        /\ Depth \in InBlocks
        /\ \A i \in InBlocks' : stack'[i] = stack[i]
    BY <2>1, PoppedSets DEF InBlocks, Top
  <2>3. QED
    BY <2>1, <2>2, <1>b
<1>9. ASSUME Catch PROVE HandlerInv'
  <2>1. Moves("cleanup", Top.pending)
    BY <1>9, Movers
  <2>2. UNCHANGED handlers /\ Top.phase \in {"body", "cleanup"}
    BY <1>9 DEF Catch, blockVars, InBlock, Caught
  <2>3. Live' = Live
    BY <2>1, <2>2, MovedSets DEF Live, Top
  <2>4. QED
    BY <2>1, <2>2, <2>3, <1>a, MovedSets
<1>10. ASSUME DropGuard PROVE HandlerInv'
  <2>1. Moves("dropping", payload)
    BY <1>10, Movers
  <2>2. handlers' = Truncate(handlers, Top.handlerBase)
    BY <1>10 DEF DropGuard
  <2>3. /\ Live' = Live \ {Depth} /\ InBlocks' \subseteq InBlocks
        /\ Depth \in InBlocks
        /\ \A i \in InBlocks : /\ stack'[i].id = stack[i].id
                               /\ stack'[i].handlerBase = stack[i].handlerBase
    BY <2>1, MovedSets
  <2>4. QED
    BY <2>2, <2>3, <1>b
<1>11. ASSUME ResumeUnwind PROVE HandlerInv'
  <2>1. Moves("dropped", Nil)
    BY <1>11, Movers
  <2>2. UNCHANGED handlers /\ Top.phase = "dropping"
    BY <1>11 DEF ResumeUnwind, blockVars, InBlock, Caught
  <2>3. Live' = Live
    BY <2>1, <2>2, MovedSets DEF Live, Top
  <2>4. QED
    BY <2>1, <2>2, <2>3, <1>a, MovedSets
<1>12. ASSUME UnwindBlock PROVE HandlerInv'
  <2>1. /\ stack # <<>> /\ stack' = Front(stack) /\ Top.kind = "block"
        /\ handlers' = Truncate(handlers, Top.handlerBase)
    BY <1>12 DEF UnwindBlock, Leave, InBlock
  <2>2. /\ Live' = Live \ {Depth} /\ InBlocks' \subseteq InBlocks
        /\ Depth \in InBlocks
        /\ \A i \in InBlocks' : stack'[i] = stack[i]
    BY <2>1, PoppedSets DEF InBlocks, Top
  <2>3. QED
    BY <2>1, <2>2, <1>b
<1>13. ASSUME Abort PROVE HandlerInv'
  <2>1. UNCHANGED <<stack, handlers>>
    BY <1>13 DEF Abort, blockVars
  <2>2. QED
    BY <2>1 DEF HandlerInv, InBlocks, Live
<1>14. ASSUME Signal PROVE HandlerInv'
  <2>1. PICK c \in HandlerCalls : Enter(c)
    BY <1>14, Callers, Zenon
  <2>2. c \in Calls /\ c.kind # "block"
    BY DEF Calls, HandlerCalls
  <2>3. /\ InBlocks' = InBlocks /\ Live' = Live
        /\ \A i \in InBlocks : stack'[i] = stack[i]
    BY <2>1, <2>2, PushedSets DEF InBlocks
  <2>4. UNCHANGED handlers
    BY <1>14 DEF Signal, blockVars
  <2>5. QED
    BY <2>3, <2>4, <1>a
<1>15. ASSUME Unhandled PROVE HandlerInv'
  <2>1. UNCHANGED <<stack, handlers>>
    BY <1>15 DEF Unhandled, blockVars
  <2>2. QED
    BY <2>1 DEF HandlerInv, InBlocks, Live
<1>16. ASSUME ReturnHandler PROVE HandlerInv'
  <2>1. UNCHANGED <<stack, handlers>>
    BY <1>16 DEF ReturnHandler, blockVars
  <2>2. QED
    BY <2>1 DEF HandlerInv, InBlocks, Live
<1>17. ASSUME InvokeExit PROVE HandlerInv'
  <2>1. UNCHANGED <<stack, handlers>>
    BY <1>17 DEF InvokeExit, blockVars
  <2>2. QED
    BY <2>1 DEF HandlerInv, InBlocks, Live
<1>18. ASSUME UnwindCall PROVE HandlerInv'
  <2>1. stack # <<>> /\ stack' = Front(stack) /\ Top.kind # "block" /\ UNCHANGED handlers
    BY <1>18 DEF UnwindCall, Leave, blockVars
  <2>2. /\ InBlocks' = InBlocks /\ Live' = Live
        /\ \A i \in InBlocks' : stack'[i] = stack[i]
    BY <2>1, PoppedSets DEF InBlocks, Live, Top
  <2>3. QED
    BY <2>1, <2>2, <1>a
<1>19. ASSUME Uncaught PROVE HandlerInv'
  <2>1. UNCHANGED <<stack, handlers>>
    BY <1>19 DEF Uncaught, blockVars
  <2>2. QED
    BY <2>1 DEF HandlerInv, InBlocks, Live
<1>20. CASE UNCHANGED vars
  BY <1>20 DEF vars, HandlerInv, InBlocks, Live
<1>21. QED
  BY <1>1, <1>2, <1>3, <1>4, <1>5, <1>6, <1>7, <1>8, <1>9, <1>10, <1>11, <1>12,
     <1>13, <1>14, <1>15, <1>16, <1>17, <1>18, <1>19, <1>20 DEF Next

\* A panic with no block's id has no catcher.
LEMMA PanicIsNobodys ==
    ASSUME TypeOK
    PROVE  Newest(Bodies(stack, "panic")) = 0
<1>1. \A i \in DOMAIN stack : stack[i] \in Calls
  BY ElementOfSeq, LenProperties DEF TypeOK
<1>2. \A i \in DOMAIN stack : stack[i].kind = "block" => stack[i].id \in DOMAIN Blocks
  BY <1>1 DEF Calls, MethodCalls, BlockCalls, HandlerCalls
<1>3. Bodies(stack, "panic") = {}
  BY <1>2, ActivationsAssumption DEF Bodies
<1>4. QED
  BY <1>3 DEF Newest

\* The block that established the handler that a signal finds has no newer
\* block of its id in the body.
LEMMA NewestHandler ==
    ASSUME TypeOK, HandlerInv, NEW class, Matching(class) # {}
    PROVE  LET h == handlers[Found(class)] IN
           /\ h.owner \in DOMAIN stack
           /\ \A j \in Bodies(stack, h.target) : j <= h.owner
<1> DEFINE f == Found(class)
           o == handlers[f].owner
<1>1. /\ f \in DOMAIN handlers /\ f \in Matching(class)
      /\ \A j \in Matching(class) : j <= f
  BY FoundOf
<1>2. /\ DOMAIN handlers = 1 .. Len(handlers) /\ Len(handlers) \in Nat
      /\ InBlocks \subseteq Nat /\ Live \subseteq InBlocks
      /\ \A i \in InBlocks : /\ stack[i].handlerBase \in Nat
                             /\ stack[i].id \in DOMAIN Blocks
                             /\ i \in 1 .. MaxDepth
                             /\ Len(Blocks[stack[i].id]) \in Nat
  BY InvTypes
<1>3. o \in Live /\ o \in DOMAIN stack /\ o \in Nat
  BY <1>1, <1>2 DEF HandlerInv, InBlocks, Live
<1> HIDE DEF f
<1> DEFINE id == stack[o].id
           base == stack[o].handlerBase
           n == Len(Blocks[id])
<1>4. /\ id \in DOMAIN Blocks /\ n \in Nat /\ base \in Nat
      /\ Len(Clauses(id, o)) = n
      /\ \A k \in 1 .. n :
            Clauses(id, o)[k] = [class |-> Blocks[id][k], target |-> id, owner |-> o]
      /\ DOMAIN Clauses(id, o) = 1 .. n
  <2>1. id \in DOMAIN Blocks /\ o \in 1 .. MaxDepth /\ base \in Nat
    BY <1>2, <1>3
  <2> HIDE DEF id, o, base
  <2>2. QED
    BY <2>1, ClausesOf
<1>5. /\ f <= base + n
      /\ ~(f <= base)
      /\ \A k \in 1 .. n : handlers[base + k] = Clauses(id, o)[k]
  <2>1. /\ f <= base + Len(Clauses(id, o))
        /\ \A k \in DOMAIN Clauses(id, o) : handlers[base + k] = Clauses(id, o)[k]
    BY <1>1, <1>3 DEF HandlerInv
  <2>2. ~(f <= base)
    BY <1>1, <1>2, <1>3 DEF HandlerInv
  <2> HIDE DEF id, o, base, n
  <2>3. QED
    BY <1>4, <2>1, <2>2
<1>6. f - base \in 1 .. n /\ f = base + (f - base)
  <2> HIDE DEF id, o, base, n
  <2> QED BY <1>1, <1>2, <1>4, <1>5
<1> DEFINE k == f - base
<1>7. handlers[f].target = id /\ handlers[f].class = Blocks[id][k]
  <2>1. handlers[f] = Clauses(id, o)[k]
    <3> HIDE DEF id, o, base, n
    <3> QED BY <1>5, <1>6
  <2>2. Clauses(id, o)[k] = [class |-> Blocks[id][k], target |-> id, owner |-> o]
    <3> HIDE DEF id, o, base, n
    <3> QED BY <1>4, <1>6
  <2> DEFINE cl == Blocks[id][k]
  <2>3. handlers[f] = [class |-> cl, target |-> id, owner |-> o]
    BY <2>1, <2>2
  <2> HIDE DEF id, o, base, n, k, cl
  <2>4. handlers[f].target = id /\ handlers[f].class = cl
    BY <2>3
  <2>5. QED
    BY <2>4 DEF cl
<1>8. ASSUME NEW j \in Bodies(stack, id), ~(j <= o) PROVE FALSE
  <2>1. j \in Live /\ stack[j].id = id /\ j \in Nat
    BY <1>2, <1>8 DEF Bodies, InBlocks, Live
  <2> DEFINE start == stack[j].handlerBase
  <2>2. start \in Nat /\ j \in 1 .. MaxDepth
    BY <1>2, <2>1
  <2>3. /\ DOMAIN Clauses(id, j) = 1 .. n
        /\ Clauses(id, j)[k].class = Blocks[id][k]
        /\ Len(Clauses(id, j)) = n
    <3>1. /\ DOMAIN Clauses(id, j) = DOMAIN Blocks[id]
          /\ Len(Clauses(id, j)) = n
          /\ DOMAIN Blocks[id] = 1 .. n
          /\ \A l \in DOMAIN Blocks[id] :
                Clauses(id, j)[l] = [class |-> Blocks[id][l], target |-> id, owner |-> j]
      <4> HIDE DEF id, o, base, k
      <4> QED BY <1>4, <2>2, ClausesOf
    <3>2. k \in 1 .. n
      BY <1>6
    <3> HIDE DEF k, n, id
    <3>3. QED
      BY <3>1, <3>2
  <2>4. /\ start + Len(Clauses(id, j)) <= Len(handlers)
        /\ handlers[start + k] = Clauses(id, j)[k]
    <3>1. k \in DOMAIN Clauses(stack[j].id, j)
      BY <1>6, <2>1, <2>3
    <3> HIDE DEF k, n
    <3>2. QED
      BY <2>1, <3>1 DEF HandlerInv
  <2>5. f <= start
    <3>1. handlers[f].owner < j
      BY <1>3, <1>8, <2>1
    <3>2. QED
      BY <1>1, <2>1, <3>1 DEF HandlerInv, Live
  <2>6. start + k \in DOMAIN handlers /\ ~(start + k <= f)
    <3>1. k \in 1 .. n /\ f \in Nat
      BY <1>1, <1>2, <1>6
    <3>2. start + n <= Len(handlers) /\ n \in Nat
      BY <1>4, <2>3, <2>4
    <3> HIDE DEF k, start, n, id, o, base
    <3>3. QED
      BY <1>2, <2>2, <2>5, <3>1, <3>2
  <2>7. start + k \in Matching(class)
    <3>1. handlers[start + k].class = handlers[f].class
      BY <1>7, <2>3, <2>4
    <3> HIDE DEF k, start
    <3>2. QED
      BY <1>1, <2>6, <3>1 DEF Matching
  <2>8. QED
    BY <1>1, <2>6, <2>7
<1>9. QED
  <2>1. \A j \in Bodies(stack, id) : j <= o
    BY <1>8
  <2> HIDE DEF id
  <2>2. QED
    BY <1>3, <1>7, <2>1 DEF f

\* Every step keeps the catchers of the exits.
LEMMA ExitStep ==
    ASSUME TypeOK, HandlerInv, ExitInv, [Next]_vars
    PROVE  ExitInv'
<1>a. ASSUME NEW c \in Calls, Enter(c), UNCHANGED payload,
             c.kind = "block" => c.phase # "dropping",
             c.kind = "handler" => /\ c.owner \in DOMAIN stack
                                   /\ \A j \in Bodies(stack, c.target) : j <= c.owner
      PROVE  ExitInv'
  <2>1. payload' = Nil
    BY <1>a DEF Enter, Running
  <2>2. /\ \A i \in DOMAIN stack : stack'[i] = stack[i]
        /\ Depth \in Nat /\ DOMAIN stack = 1 .. Depth /\ stack'[Depth + 1] = c
        /\ InBlocks' = InBlocks \cup {i \in {Depth + 1} : c.kind = "block"}
        /\ \A id, n : n \in DOMAIN stack => Below(stack', id, n) = Below(stack, id, n)
        /\ \A id, n : n = Depth + 1 => Below(stack', id, n) = Bodies(stack, id)
    BY <1>a, PushedSets
  <2>3. ASSUME NEW i \in InBlocks', stack'[i].phase = "dropping"
        PROVE  /\ stack'[i].pending # Nil
               /\ stack'[i].pending.catcher = Newest(Below(stack', stack'[i].pending.target, i))
    <3>1. i \in InBlocks /\ stack'[i] = stack[i] /\ i \in DOMAIN stack
      BY <1>a, <2>2, <2>3 DEF InBlocks
    <3>2. Below(stack', stack[i].pending.target, i) = Below(stack, stack[i].pending.target, i)
      <4>1. PICK t : t = stack[i].pending.target
        OBVIOUS
      <4>2. Below(stack', t, i) = Below(stack, t, i)
        BY <2>2, <3>1
      <4>3. QED
        BY <3>1, <4>1, <4>2 DEF Below, Bodies
    <3>3. QED
      BY <2>3, <3>1, <3>2 DEF ExitInv
  <2>4. ASSUME NEW i \in DOMAIN stack', stack'[i].kind = "handler"
        PROVE  /\ stack'[i].owner < i
               /\ \A j \in Below(stack', stack'[i].target, i) : j <= stack'[i].owner
    <3>1. i \in DOMAIN stack \/ i = Depth + 1
      BY <1>a, <2>2, Pushed DEF Enter
    <3>2. CASE i \in DOMAIN stack
      <4>1. stack'[i] = stack[i]
        BY <2>2, <3>2
      <4>2. PICK t : t = stack[i].target
        OBVIOUS
      <4>3. Below(stack', t, i) = Below(stack, t, i)
        BY <2>2, <3>2
      <4>4. stack[i].owner < i /\ \A j \in Below(stack, t, i) : j <= stack[i].owner
        BY <2>4, <3>2, <4>1, <4>2 DEF ExitInv
      <4>5. QED
        BY <4>1, <4>2, <4>3, <4>4 DEF Below, Bodies
    <3>3. CASE i = Depth + 1
      <4>1. /\ c.owner \in DOMAIN stack /\ stack'[i] = c
            /\ \A j \in Bodies(stack, c.target) : j <= c.owner
        BY <1>a, <2>2, <2>4, <3>3
      <4>2. PICK t : t = c.target
        OBVIOUS
      <4>3. Below(stack', t, i) = Bodies(stack, t)
        BY <2>2, <3>3
      <4>4. c.owner < i
        BY <2>2, <3>3, <4>1
      <4>5. QED
        BY <4>1, <4>2, <4>3, <4>4 DEF Below, Bodies
    <3>4. QED
      BY <3>1, <3>2, <3>3
  <2>5. QED
    BY <2>1, <2>3, <2>4 DEF ExitInv, Below, Bodies
<1>e. ASSUME NEW i, i \in DOMAIN stack /\ i \in DOMAIN stack',
             stack'[i] = stack[i],
             \A id : Below(stack', id, i) = Below(stack, id, i)
      PROVE  /\ stack'[i].kind = "block" /\ stack'[i].phase = "dropping" =>
                   /\ stack'[i].pending # Nil
                   /\ stack'[i].pending.catcher
                        = Newest(Below(stack', stack'[i].pending.target, i))
             /\ stack'[i].kind = "handler" =>
                   /\ stack'[i].owner < i
                   /\ \A j \in Below(stack', stack'[i].target, i) : j <= stack'[i].owner
  <2>1. ASSUME NEW t, t = stack[i].target \/ t = stack[i].pending.target
        PROVE  Below(stack', t, i) = Below(stack, t, i)
    BY <1>e
  <2>2. /\ Below(stack', stack'[i].target, i) = Below(stack, stack[i].target, i)
        /\ Below(stack', stack'[i].pending.target, i) = Below(stack, stack[i].pending.target, i)
    <3>1. PICK t, u : t = stack[i].target /\ u = stack[i].pending.target
      OBVIOUS
    <3>2. Below(stack', t, i) = Below(stack, t, i) /\ Below(stack', u, i) = Below(stack, u, i)
      BY <1>e
    <3>3. QED
      BY <1>e, <3>1, <3>2 DEF Below, Bodies
  <2>3. QED
    BY <1>e, <2>2 DEF ExitInv, InBlocks
<1>b. ASSUME stack # <<>>, stack' = Front(stack), UNCHANGED payload,
             payload # Nil => Depth \notin Bodies(stack, payload.target)
      PROVE  ExitInv'
  <2>1. /\ \A i \in DOMAIN stack' : i \in DOMAIN stack /\ stack'[i] = stack[i]
        /\ \A id, n : n \in DOMAIN stack => Below(stack', id, n) = Below(stack, id, n)
        /\ \A id : Bodies(stack', id) = Bodies(stack, id) \ {Depth}
    BY <1>b, PoppedSets
  <2>2. ASSUME NEW i \in DOMAIN stack'
        PROVE  /\ stack'[i].kind = "block" /\ stack'[i].phase = "dropping" =>
                     /\ stack'[i].pending # Nil
                     /\ stack'[i].pending.catcher
                          = Newest(Below(stack', stack'[i].pending.target, i))
               /\ stack'[i].kind = "handler" =>
                     /\ stack'[i].owner < i
                     /\ \A j \in Below(stack', stack'[i].target, i) : j <= stack'[i].owner
    BY <2>1, <1>e
  <2>3. ASSUME payload' # Nil
        PROVE  payload'.catcher = Newest(Bodies(stack', payload'.target))
    <3>1. payload' = payload /\ payload.catcher = Newest(Bodies(stack, payload.target))
      BY <1>b, <2>3 DEF ExitInv
    <3>2. PICK t : t = payload.target
      OBVIOUS
    <3>3. Bodies(stack', t) = Bodies(stack, t)
      BY <1>b, <2>1, <2>3, <3>2
    <3>4. QED
      BY <3>1, <3>2, <3>3 DEF Bodies
  <2>4. QED
    BY <2>2, <2>3 DEF ExitInv, InBlocks, Below, Bodies, Newest
<1>c. ASSUME NEW phase, NEW pending, Moves(phase, pending),
             payload' # Nil => payload'.catcher = Newest(Bodies(stack', payload'.target)),
             phase = "dropping" => /\ pending # Nil
                                   /\ pending.catcher = Newest(Below(stack, pending.target, Depth))
      PROVE  ExitInv'
  <2>1. /\ \A i \in DOMAIN stack : i # Depth => stack'[i] = stack[i]
        /\ Depth \in DOMAIN stack /\ DOMAIN stack' = DOMAIN stack
        /\ \A id, n : n \in DOMAIN stack => Below(stack', id, n) = Below(stack, id, n)
        /\ stack'[Depth].kind = "block" /\ stack'[Depth].phase = phase
        /\ stack'[Depth].pending = pending
    BY <1>c, MovedSets, Moved
  <2>2. ASSUME NEW i \in DOMAIN stack', i # Depth
        PROVE  /\ stack'[i].kind = "block" /\ stack'[i].phase = "dropping" =>
                     /\ stack'[i].pending # Nil
                     /\ stack'[i].pending.catcher
                          = Newest(Below(stack', stack'[i].pending.target, i))
               /\ stack'[i].kind = "handler" =>
                     /\ stack'[i].owner < i
                     /\ \A j \in Below(stack', stack'[i].target, i) : j <= stack'[i].owner
    BY <2>1, <2>2, <1>e
  <2>3. ASSUME NEW i, i = Depth, phase = "dropping"
        PROVE  pending # Nil /\ pending.catcher = Newest(Below(stack', pending.target, i))
    <3>1. PICK t : t = pending.target
      OBVIOUS
    <3>2. Below(stack', t, i) = Below(stack, t, i)
      BY <2>1, <2>3
    <3>3. QED
      BY <1>c, <2>3, <3>1, <3>2 DEF Below, Bodies
  <2>4. ASSUME NEW i \in InBlocks', stack'[i].phase = "dropping"
        PROVE  /\ stack'[i].pending # Nil
               /\ stack'[i].pending.catcher = Newest(Below(stack', stack'[i].pending.target, i))
    <3>1. CASE i = Depth
      BY <2>1, <2>3, <2>4, <3>1 DEF Below, Bodies
    <3>2. CASE i # Depth
      BY <2>2, <2>4, <3>2 DEF InBlocks
    <3>3. QED
      BY <3>1, <3>2
  <2>5. ASSUME NEW i \in DOMAIN stack', stack'[i].kind = "handler"
        PROVE  /\ stack'[i].owner < i
               /\ \A j \in Below(stack', stack'[i].target, i) : j <= stack'[i].owner
    BY <2>1, <2>2, <2>5
  <2>6. QED
    BY <1>c, <2>4, <2>5 DEF ExitInv, Below, Bodies, Newest
<1>d. ASSUME UNCHANGED stack, payload'.catcher = Newest(Bodies(stack, payload'.target))
      PROVE  ExitInv'
  <2>1. \A id, n : Below(stack', id, n) = Below(stack, id, n) /\ Bodies(stack', id) = Bodies(stack, id)
    BY <1>d DEF Below, Bodies
  <2>2. QED
    BY <1>d DEF ExitInv, InBlocks, Below, Bodies, Newest
<1>1. ASSUME CallMethod PROVE ExitInv'
  <2>1. PICK c \in MethodCalls : Enter(c)
    BY <1>1, Callers, Zenon
  <2>2. c \in Calls /\ c.kind = "method"
    BY DEF Calls, MethodCalls
  <2>3. UNCHANGED payload
    BY <1>1 DEF CallMethod, CallNextMethod
  <2>4. QED
    BY <2>1, <2>2, <2>3, <1>a
<1>2. ASSUME ReturnMethod PROVE ExitInv'
  <2>1. stack # <<>> /\ stack' = Front(stack) /\ UNCHANGED payload /\ payload = Nil
    BY <1>2 DEF ReturnMethod, Leave, InBlock, Running
  <2>2. QED
    BY <2>1, <1>b
<1>3. ASSUME CallNextMethod PROVE ExitInv'
  <2>1. PICK c \in MethodCalls : Enter(c)
    BY <1>3, Callers, Zenon
  <2>2. c \in Calls /\ c.kind = "method"
    BY DEF Calls, MethodCalls
  <2>3. UNCHANGED payload
    BY <1>3 DEF CallMethod, CallNextMethod
  <2>4. QED
    BY <2>1, <2>2, <2>3, <1>a
<1>4. ASSUME NoNextMethod PROVE ExitInv'
  <2>1. payload' # Nil /\ payload'.target = "panic" /\ payload'.catcher = 0
    BY <1>4, Throwers
  <2>2. UNCHANGED stack
    BY <1>4 DEF NoNextMethod
  <2>3. QED
    BY <2>1, <2>2, <1>d, PanicIsNobodys
<1>5. ASSUME EnterBlock PROVE ExitInv'
  <2>1. PICK c \in BlockCalls : Enter(c) /\ c.phase = "body"
    BY <1>5, Callers, Zenon
  <2>2. c \in Calls /\ c.kind = "block"
    BY DEF Calls, BlockCalls
  <2>3. UNCHANGED payload
    BY <1>5 DEF EnterBlock
  <2>4. QED
    BY <2>1, <2>2, <2>3, <1>a
<1>6. ASSUME ReturnBody PROVE ExitInv'
  <2>1. Moves("cleanup", Top.pending)
    BY <1>6, Movers
  <2>2. payload' = Nil
    BY <1>6 DEF ReturnBody, Running
  <2>3. QED
    BY <2>1, <2>2, <1>c
<1>7. ASSUME ReturnCleanup PROVE ExitInv'
  <2>1. Moves("afterwards", Top.pending)
    BY <1>7, Movers
  <2>2. payload' = Nil
    BY <1>7 DEF ReturnCleanup, Running
  <2>3. QED
    BY <2>1, <2>2, <1>c
<1>8. ASSUME ReturnBlock PROVE ExitInv'
  <2>1. stack # <<>> /\ stack' = Front(stack) /\ UNCHANGED payload /\ payload = Nil
    BY <1>8 DEF ReturnBlock, Leave, InBlock, Running
  <2>2. QED
    BY <2>1, <1>b
<1>9. ASSUME Catch PROVE ExitInv'
  <2>1. Moves("cleanup", Top.pending)
    BY <1>9, Movers
  <2>2. payload' = Nil
    BY <1>9 DEF Catch, Running
  <2>3. QED
    BY <2>1, <2>2, <1>c
<1>10. ASSUME DropGuard PROVE ExitInv'
  <2>1. Moves("dropping", payload)
    BY <1>10, Movers
  <2>2. payload # Nil /\ payload' = Nil
    BY <1>10 DEF DropGuard
  <2>3. Below(stack, payload.target, Depth) = Bodies(stack, payload.target)
    <3>1. Depth \notin Bodies(stack, payload.target)
      BY <1>10 DEF DropGuard, Caught, Armed, InBlock, Bodies, Top
    <3>2. \A i \in Bodies(stack, payload.target) : i < Depth
      <4>1. \A i \in DOMAIN stack : i # Depth => i < Depth
        BY <2>1, Moved
      <4>2. QED
        BY <3>1, <4>1 DEF Bodies
    <3>3. QED
      BY <3>2 DEF Below
  <2>4. payload.catcher = Newest(Below(stack, payload.target, Depth))
    BY <2>2, <2>3 DEF ExitInv
  <2>5. QED
    BY <2>1, <2>2, <2>4, <1>c
<1>11. ASSUME ResumeUnwind PROVE ExitInv'
  <2>1. Moves("dropped", Nil)
    BY <1>11, Movers
  <2>2. payload' = Top.pending /\ Top.phase = "dropping" /\ Depth \in InBlocks
    BY <1>11, <2>1, MovedSets DEF ResumeUnwind, InBlock
  <2>3. payload' # Nil /\ payload'.catcher = Newest(Below(stack, payload'.target, Depth))
    BY <2>2 DEF ExitInv, Top
  <2>4. Bodies(stack', payload'.target) = Below(stack, payload'.target, Depth)
    <3>1. PICK t : t = payload'.target
      OBVIOUS
    <3>2. Bodies(stack', t) = Below(stack, t, Depth)
      BY <2>1, MovedSets
    <3>3. QED
      BY <3>1, <3>2 DEF Bodies
  <2>5. payload'.catcher = Newest(Bodies(stack', payload'.target))
    BY <2>3, <2>4
  <2>6. QED
    BY <2>1, <2>5, <1>c DEF ExitInv, Bodies, Newest
<1>12. ASSUME UnwindBlock PROVE ExitInv'
  <2>1. /\ stack # <<>> /\ stack' = Front(stack) /\ UNCHANGED payload
        /\ Depth \notin Bodies(stack, payload.target)
    BY <1>12 DEF UnwindBlock, InBlock, Bodies, Top
  <2>2. QED
    BY <2>1, <1>b
<1>13. ASSUME Abort PROVE ExitInv'
  BY <1>13 DEF Abort, ExitInv, Bodies, InBlocks, Below
<1>14. ASSUME Signal PROVE ExitInv'
  <2>1. PICK class \in Classes, c \in HandlerCalls :
           /\ Enter(c) /\ Matching(class) # {}
           /\ c.target = handlers[Found(class)].target
           /\ c.owner = handlers[Found(class)].owner
    BY <1>14, Callers, Zenon
  <2>2. c \in Calls /\ c.kind = "handler"
    BY DEF Calls, HandlerCalls
  <2>3. c.owner \in DOMAIN stack /\ \A j \in Bodies(stack, c.target) : j <= c.owner
    BY <2>1, NewestHandler
  <2>4. UNCHANGED payload
    BY <1>14 DEF Signal
  <2>5. QED
    BY <2>1, <2>2, <2>3, <2>4, <1>a
<1>15. ASSUME Unhandled PROVE ExitInv'
  <2>1. payload' # Nil /\ payload'.target = "panic" /\ payload'.catcher = 0
    BY <1>15, Throwers
  <2>2. UNCHANGED stack
    BY <1>15 DEF Unhandled
  <2>3. QED
    BY <2>1, <2>2, <1>d, PanicIsNobodys
<1>16. ASSUME ReturnHandler PROVE ExitInv'
  <2>1. /\ payload' # Nil /\ payload'.target = Top.target
        /\ payload'.catcher = IF Top.owner \in Bodies(stack, Top.target)
                               THEN Top.owner
                               ELSE Newest(Bodies(stack, Top.target))
    BY <1>16, Throwers
  <2>2. UNCHANGED stack /\ stack # <<>> /\ Top.kind = "handler"
    BY <1>16 DEF ReturnHandler
  <2>3. /\ Depth \in DOMAIN stack /\ Depth \in Nat
        /\ DOMAIN stack = 1 .. Depth
    BY <2>2, OnTop
  <2>4. \A j \in Bodies(stack, Top.target) : j <= Top.owner
    <3>1. \A j \in Below(stack, Top.target, Depth) : j <= Top.owner
      BY <2>2, <2>3 DEF ExitInv, Top
    <3>2. Depth \notin Bodies(stack, Top.target)
      BY <2>2 DEF Bodies, Top
    <3>3. \A j \in DOMAIN stack : j # Depth => j < Depth
      BY <2>3
    <3>4. QED
      BY <3>1, <3>2, <3>3 DEF Below, Bodies
  <2>5. CASE Top.owner \in Bodies(stack, Top.target)
    <3>1. Bodies(stack, Top.target) \in SUBSET (1 .. Depth)
      BY <2>3 DEF Bodies
    <3>2. /\ Newest(Bodies(stack, Top.target)) \in Bodies(stack, Top.target)
          /\ Top.owner <= Newest(Bodies(stack, Top.target))
      BY <2>3, <2>5, <3>1, NewestOf
    <3>3. Top.owner = Newest(Bodies(stack, Top.target))
      BY <2>3, <2>4, <2>5, <3>1, <3>2
    <3>4. QED
      BY <2>1, <2>2, <2>5, <3>3, <1>d
  <2>6. CASE Top.owner \notin Bodies(stack, Top.target)
    BY <2>1, <2>2, <2>6, <1>d
  <2>7. QED
    BY <2>5, <2>6
<1>17. ASSUME InvokeExit PROVE ExitInv'
  <2>1. PICK id \in DOMAIN Blocks :
           /\ payload' # Nil /\ payload'.target = id
           /\ payload'.catcher = Newest(Bodies(stack, id))
    BY <1>17, Throwers
  <2>2. UNCHANGED stack
    BY <1>17 DEF InvokeExit
  <2>3. QED
    BY <2>1, <2>2, <1>d
<1>18. ASSUME UnwindCall PROVE ExitInv'
  <2>1. /\ stack # <<>> /\ stack' = Front(stack) /\ UNCHANGED payload
        /\ Depth \notin Bodies(stack, payload.target)
    BY <1>18 DEF UnwindCall, Bodies, Top
  <2>2. QED
    BY <2>1, <1>b
<1>19. ASSUME Uncaught PROVE ExitInv'
  BY <1>19 DEF Uncaught, ExitInv, Bodies, InBlocks, Below
<1>20. CASE UNCHANGED vars
  BY <1>20 DEF vars, ExitInv, Bodies, InBlocks, Below
<1>21. QED
  BY <1>1, <1>2, <1>3, <1>4, <1>5, <1>6, <1>7, <1>8, <1>9, <1>10, <1>11, <1>12,
     <1>13, <1>14, <1>15, <1>16, <1>17, <1>18, <1>19, <1>20 DEF Next

\* The inductive invariant.
BaseInv ==
    /\ TypeOK /\ SafepointInv /\ ChainOfMethods
    /\ CapturedInv /\ HandlerInv /\ ExitInv

\* No call has been made.
LEMMA InitBase == Init => BaseInv
<1> SUFFICES ASSUME Init PROVE BaseInv
  OBVIOUS
<1>1. /\ stack = <<>> /\ DOMAIN stack = {} /\ Depth = 0 /\ InBlocks = {} /\ Live = {}
      /\ Framed = {} /\ handlers = <<>> /\ DOMAIN handlers = {}
      /\ captured = <<>> /\ DOMAIN captured = {} /\ DOMAIN chain = {}
      /\ safepoints = <<>> /\ Len(safepoints) = 0 /\ payload = Nil
  BY DEF Init, Depth, InBlocks, Live, Framed
<1>2. TypeOK
  <2>1. 0 <= MaxDepth
    BY TypeSets
  <2>2. /\ stack \in Seq(Calls) /\ handlers \in Seq(Handlers)
        /\ captured \in Seq(1 .. MaxDepth) /\ safepoints \in Seq(0 .. MaxDepth)
        /\ chain \in Seq(Frames)
    BY EmptySeq DEF Init
  <2>3. QED
    BY <1>1, <2>1, <2>2 DEF Init, TypeOK
<1>3. SafepointInv /\ HandlerInv /\ ExitInv
  BY <1>1 DEF SafepointInv, HandlerInv, ExitInv
<1>4. CapturedInv /\ ChainOfMethods
  BY <1>1 DEF CapturedInv, ChainOfMethods, Lists
<1>5. QED
  BY <1>2, <1>3, <1>4 DEF BaseInv

\* The invariant holds in every reachable state.
THEOREM Invariance == Spec => []BaseInv
<1>1. BaseInv /\ [Next]_vars => BaseInv'
  BY TypeStep, SafepointStep, ChainStep, CapturedStep, HandlerStep, ExitStep
     DEF BaseInv
<1>2. QED
  BY <1>1, InitBase, PTL DEF Spec

\* The stacks keep their types.
THEOREM TypeCorrectness == Spec => []TypeOK
<1>1. BaseInv => TypeOK
  BY DEF BaseInv
<1>2. QED
  BY <1>1, Invariance, PTL

\* nod_jit_end_safepoint's assertion holds, and a collection that starts in
\* compiled code has the roots of every frame of it and of no other.
THEOREM SafepointsMatchFrames == Spec => []SafepointsOfFrames
<1>1. BaseInv => SafepointsOfFrames
  <2> SUFFICES ASSUME BaseInv, Running
               PROVE  safepoints = [i \in DOMAIN stack |-> i]
    BY DEF SafepointsOfFrames
  <2>1. /\ safepoints \in Seq(0 .. MaxDepth) /\ stack \in Seq(Calls)
        /\ Len(safepoints) = Len(stack)
        /\ \A i \in DOMAIN stack : safepoints[i] = i
    BY DEF BaseInv, SafepointInv, TypeOK, Depth
  <2>2. DOMAIN safepoints = DOMAIN stack
    BY <2>1, LenProperties
  <2>3. safepoints = [i \in DOMAIN safepoints |-> safepoints[i]]
    BY <2>1
  <2>4. QED
    BY <2>1, <2>2, <2>3
<1>2. QED
  BY <1>1, Invariance, PTL

\* The chain stack has the frames of the dispatched methods in progress.
THEOREM ChainMatchesMethods == Spec => []ChainOfMethods
<1>1. BaseInv => ChainOfMethods
  BY DEF BaseInv
<1>2. QED
  BY <1>1, Invariance, PTL

\* The handler stack is what the blocks in progress have pushed.
THEOREM HandlersMatchBlocks == Spec => []HandlersOfBlocks
<1>1. BaseInv => HandlersOfBlocks
  <2> SUFFICES ASSUME BaseInv PROVE HandlersOfBlocks
    OBVIOUS
  <2>1. TypeOK /\ HandlerInv /\ Lists(captured, InBlocks)
    BY DEF BaseInv, CapturedInv
  <2>2. /\ DOMAIN handlers = 1 .. Len(handlers) /\ Len(handlers) \in Nat
        /\ \A j \in DOMAIN handlers : handlers[j].owner \in Nat
        /\ InBlocks \subseteq Nat /\ Live \subseteq InBlocks
        /\ \A i \in InBlocks : /\ stack[i].handlerBase \in Nat
                               /\ stack[i].id \in DOMAIN Blocks
                               /\ i \in 1 .. MaxDepth
    BY <2>1, InvTypes
  <2>3. ASSUME NEW i \in Live
        PROVE  /\ i \in Nat /\ stack[i].handlerBase \in Nat
               /\ Len(Clauses(stack[i].id, i)) \in Nat
               /\ DOMAIN Clauses(stack[i].id, i) = 1 .. Len(Clauses(stack[i].id, i))
    BY <2>2, ClausesOf
  <2>4. ASSUME NEW i \in DOMAIN handlers, NEW j \in DOMAIN handlers, i < j
        PROVE  handlers[i].owner <= handlers[j].owner
    <3> DEFINE o == handlers[j].owner
               end == stack[o].handlerBase + Len(Clauses(stack[o].id, o))
    <3>1. o \in Live /\ o \in Nat /\ end \in Nat
      BY <2>1, <2>2, <2>3 DEF HandlerInv
    <3>2. \A k \in DOMAIN handlers : handlers[k].owner <= o <=> k <= end
      BY <2>1, <3>1 DEF HandlerInv
    <3>3. j <= end
      BY <3>1, <3>2
    <3> HIDE DEF end
    <3>4. i <= end
      BY <2>2, <2>4, <3>1, <3>3
    <3>5. QED
      BY <3>2, <3>4
  <2>5. ASSUME NEW i \in Live
        PROVE  LET base == stack[i].handlerBase
                   own == Clauses(stack[i].id, i)
               IN /\ HandlersOf(i) = {base + k : k \in DOMAIN own}
                  /\ \A k \in DOMAIN own : handlers[base + k] = own[k]
    <3> DEFINE base == stack[i].handlerBase
               own == Clauses(stack[i].id, i)
    <3>1. /\ \A j \in DOMAIN handlers : handlers[j].owner < i <=> j <= base
          /\ \A j \in DOMAIN handlers : handlers[j].owner <= i <=> j <= base + Len(own)
          /\ base + Len(own) <= Len(handlers)
          /\ \A k \in DOMAIN own : handlers[base + k] = own[k]
      BY <2>1, <2>2 DEF HandlerInv
    <3>2. base \in Nat /\ Len(own) \in Nat /\ DOMAIN own = 1 .. Len(own) /\ i \in Nat
      BY <2>3
    <3> HIDE DEF base, own
    <3>3. ASSUME NEW j \in HandlersOf(i) PROVE j \in {base + k : k \in DOMAIN own}
      <4>1. j \in DOMAIN handlers /\ handlers[j].owner = i
        BY DEF HandlersOf
      <4>2. ~(j <= base) /\ j <= base + Len(own) /\ j \in Nat
        BY <2>2, <3>1, <3>2, <4>1
      <4>3. j - base \in 1 .. Len(own) /\ j = base + (j - base)
        BY <3>2, <4>2
      <4>4. QED
        BY <3>2, <4>3
    <3>4. ASSUME NEW k \in DOMAIN own PROVE base + k \in HandlersOf(i)
      <4>1. /\ base + k \in DOMAIN handlers /\ ~(base + k <= base)
            /\ base + k <= base + Len(own)
        BY <2>2, <3>1, <3>2
      <4>2. ~(handlers[base + k].owner < i) /\ handlers[base + k].owner <= i
        BY <3>1, <4>1
      <4>3. handlers[base + k].owner = i
        BY <2>2, <3>2, <4>1, <4>2
      <4>4. QED
        BY <4>1, <4>3 DEF HandlersOf
    <3>5. HandlersOf(i) = {base + k : k \in DOMAIN own}
      BY <3>3, <3>4
    <3>6. QED
      BY <3>1, <3>5 DEF base, own
  <2>6. QED
    BY <2>1, <2>4, <2>5 DEF HandlersOfBlocks, HandlerInv
<1>2. QED
  BY <1>1, Invariance, PTL

\* An exit is caught by the block that could catch it when it began.
THEOREM ExitsAreCaught == Spec => ExitsReachTheirBlock
<1>1. ASSUME BaseInv, payload # Nil, Caught PROVE Depth = payload.catcher
  <2>1. stack # <<>> /\ TypeOK /\ ExitInv
    BY <1>1 DEF Caught, InBlock, BaseInv
  <2>2. Depth \in Nat /\ DOMAIN stack = 1 .. Depth /\ Depth \in DOMAIN stack
    BY <2>1, OnTop
  <2> DEFINE N == Bodies(stack, payload.target)
  <2>3. Depth \in N /\ N \in SUBSET (1 .. Depth)
    BY <1>1, <2>2 DEF Caught, InBlock, Bodies, Top
  <2>4. Newest(N) \in N /\ Depth <= Newest(N)
    <3> HIDE DEF N
    <3> QED BY <2>2, <2>3, NewestOf
  <2>5. Newest(N) = Depth
    <3>1. Newest(N) \in 1 .. Depth
      BY <2>3, <2>4
    <3> HIDE DEF N
    <3>2. QED
      BY <2>2, <2>4, <3>1
  <2>6. QED
    BY <1>1, <2>1, <2>5 DEF ExitInv
<1>2. ASSUME BaseInv, Next, over', stack = <<>> PROVE payload.catcher = 0
  <2>1. Uncaught
    <3>1. Next => (over' = over /\ ~over) \/ Abort \/ Uncaught
      BY DEF Next, CallMethod, ReturnMethod, CallNextMethod, NoNextMethod, EnterBlock,
             ReturnBody, ReturnCleanup, ReturnBlock, Catch, DropGuard, ResumeUnwind,
             UnwindBlock, Signal, Unhandled, ReturnHandler, InvokeExit, UnwindCall,
             Enter, Running
    <3>2. ~Abort
      BY <1>2 DEF Abort, InBlock
    <3>3. QED
      BY <1>2, <3>1, <3>2
  <2>2. payload # Nil /\ Bodies(stack, payload.target) = {}
    BY <1>2, <2>1 DEF Uncaught, Bodies
  <2>3. QED
    BY <1>2, <2>2 DEF BaseInv, ExitInv, Newest
<1>3. BaseInv /\ [Next]_vars =>
        [ /\ payload # Nil /\ payload' = Nil /\ Caught => Depth = payload.catcher
          /\ over' /\ stack = <<>> => payload.catcher = 0 ]_vars
  BY <1>1, <1>2
<1>4. QED
  BY <1>3, Invariance, PTL DEF Spec, ExitsReachTheirBlock

\* Steps of the abstract specification.
LEMMA Rescoped ==
    ASSUME TypeOK, CapturedInv
    PROVE  /\ DOMAIN ScopesOf = 1 .. Len(captured) /\ Len(captured) \in Nat
           /\ ScopesOf \in Seq({Scope(i) : i \in InBlocks})
           /\ Len(ScopesOf) = Len(captured)
           /\ \A i \in 1 .. Len(captured) :
                 captured[i] \in InBlocks /\ ScopesOf[i] = Scope(captured[i])
<1> DEFINE n == Len(captured)
<1>1. n \in Nat /\ DOMAIN captured = 1 .. n
  BY LenProperties DEF TypeOK
<1>2. \A i \in 1 .. n : captured[i] \in InBlocks
  BY <1>1 DEF CapturedInv, Lists
<1>3. /\ DOMAIN ScopesOf = 1 .. n
      /\ \A i \in 1 .. n : ScopesOf[i] = Scope(captured[i])
      /\ ScopesOf = [i \in 1 .. n |-> ScopesOf[i]]
  BY <1>1 DEF ScopesOf
<1>4. \A i \in 1 .. n : ScopesOf[i] \in {Scope(k) : k \in InBlocks}
  BY <1>2, <1>3
<1> HIDE DEF n
<1>5. ScopesOf \in Seq({Scope(i) : i \in InBlocks})
  <2> HIDE DEF ScopesOf
  <2> DEFINE S == {Scope(k) : k \in InBlocks}
  <2>1. \A i \in 1 .. n : ScopesOf[i] \in S
    BY <1>4
  <2> HIDE DEF S
  <2>2. ScopesOf \in Seq(S)
    BY <1>1, <1>3, <2>1, IsASeq
  <2>3. QED
    BY <2>2 DEF S
<1>6. Len(ScopesOf) = n
  <2> HIDE DEF ScopesOf
  <2> QED BY <1>1, <1>3, <1>5, LenProperties
<1>7. QED
  BY <1>1, <1>2, <1>3, <1>5, <1>6 DEF n

\* A block that has just been entered, or is left, is the last scope.
LEMMA LastScope ==
    ASSUME TypeOK, CapturedInv, Depth \in InBlocks
    PROVE  /\ captured # <<>> /\ Len(captured) \in 1 .. Len(captured)
           /\ ScopesOf # <<>> /\ captured[Len(captured)] = Depth
           /\ \A i \in 1 .. Len(captured) - 1 : captured[i] # Depth
           /\ BS!Last = Scope(Depth)
<1> DEFINE n == Len(captured)
<1>1. /\ n \in Nat /\ DOMAIN captured = 1 .. n /\ \A i \in 1 .. n : captured[i] \in InBlocks
      /\ DOMAIN ScopesOf = 1 .. n /\ Len(ScopesOf) = n
      /\ \A i \in 1 .. n : ScopesOf[i] = Scope(captured[i])
  BY Rescoped, LenProperties DEF TypeOK
<1>2. \A i \in InBlocks : i <= Depth /\ i \in Nat
  BY Tops, InvTypes
<1>3. PICK l \in 1 .. n : captured[l] = Depth
  BY <1>1 DEF CapturedInv, Lists
<1>4. n \in 1 .. n
  BY <1>1, <1>3
<1>5. \A i, j \in 1 .. n : i < j => captured[i] < captured[j]
  BY <1>1 DEF CapturedInv, Lists
<1> HIDE DEF n
<1>6. ASSUME l < n PROVE FALSE
  <2>1. Depth < captured[n] /\ captured[n] <= Depth /\ captured[n] \in Nat /\ Depth \in Nat
    BY <1>1, <1>2, <1>3, <1>4, <1>5, <1>6
  <2>2. QED
    BY <2>1
<1>7. l = n
  BY <1>1, <1>3, <1>6
<1>8. ASSUME NEW i \in 1 .. n - 1, captured[i] = Depth PROVE FALSE
  <2>1. i \in 1 .. n /\ i < n
    BY <1>1
  <2>2. captured[i] < captured[n]
    BY <1>4, <1>5, <2>1
  <2>3. QED
    BY <1>2, <1>3, <1>7, <1>8, <2>2
<1>9. captured # <<>> /\ ScopesOf # <<>>
  <2>1. n \in DOMAIN captured /\ n \in DOMAIN ScopesOf
    BY <1>1, <1>4
  <2> HIDE DEF ScopesOf
  <2>2. QED
    BY <2>1
<1>10. BS!Last = Scope(Depth)
  BY <1>1, <1>3, <1>4, <1>7 DEF BS!Last
<1>11. QED
  BY <1>3, <1>4, <1>7, <1>8, <1>9, <1>10 DEF n

\* Every step is one of the abstract specification.
LEMMA ScopeStep ==
    ASSUME TypeOK, CapturedInv, [Next]_vars
    PROVE  [BS!Next]_BS!vars
<1>0. /\ DOMAIN ScopesOf = 1 .. Len(captured) /\ Len(captured) \in Nat
      /\ Len(ScopesOf) = Len(captured) /\ DOMAIN captured = 1 .. Len(captured)
      /\ ScopesOf \in Seq({Scope(i) : i \in InBlocks})
      /\ \A i \in 1 .. Len(captured) :
            captured[i] \in InBlocks /\ ScopesOf[i] = Scope(captured[i])
  BY Rescoped, LenProperties DEF TypeOK
<1>a. ASSUME UNCHANGED <<captured, over>>, \A i \in InBlocks : stack'[i] = stack[i]
      PROVE  [BS!Next]_BS!vars
  <2>1. \A i \in DOMAIN captured : Scope(captured[i])' = Scope(captured[i])
    BY <1>0, <1>a DEF Scope
  <2>2. ScopesOf' = ScopesOf
    BY <1>a, <2>1 DEF ScopesOf
  <2>3. QED
    BY <1>a, <2>2 DEF BS!vars
<1>b. ASSUME NEW phase, NEW pending, Moves(phase, pending), UNCHANGED <<captured, over>>,
             Top.phase \notin {"afterwards", "dropped"}, phase \notin {"afterwards", "dropped"}
      PROVE  [BS!Next]_BS!vars
  <2>1. /\ \A i \in DOMAIN stack : i # Depth => stack'[i] = stack[i]
        /\ stack'[Depth].phase = phase
    BY <1>b, Moved
  <2>2. ASSUME NEW i \in InBlocks
        PROVE  stack'[i].phase \in {"afterwards", "dropped"}
                 <=> stack[i].phase \in {"afterwards", "dropped"}
    BY <1>b, <2>1 DEF Top, InBlocks
  <2>3. \A i \in DOMAIN captured : Scope(captured[i])' = Scope(captured[i])
    <3> SUFFICES ASSUME NEW i \in DOMAIN captured
                 PROVE  Scope(captured[i])' = Scope(captured[i])
      OBVIOUS
    <3>1. captured[i] \in InBlocks /\ captured'[i] = captured[i]
      BY <1>0, <1>b
    <3>2. (stack'[captured[i]].phase \in {"afterwards", "dropped"})
             = (stack[captured[i]].phase \in {"afterwards", "dropped"})
      BY <2>2, <3>1
    <3>3. QED
      BY <3>1, <3>2, Zenon DEF Scope
  <2>4. ScopesOf' = ScopesOf
    BY <1>b, <2>3 DEF ScopesOf
  <2>5. QED
    BY <1>b, <2>4 DEF BS!vars
<1>c. ASSUME NEW phase, NEW pending, Moves(phase, pending), UNCHANGED <<captured, over>>,
             ~over, Top.phase \notin {"afterwards", "dropped"}, phase \in {"afterwards", "dropped"}
      PROVE  [BS!Next]_BS!vars
  <2> DEFINE n == Len(captured)
  <2>1. /\ \A i \in DOMAIN stack : i # Depth => stack'[i] = stack[i]
        /\ stack'[Depth].phase = phase /\ Depth \in InBlocks
    BY <1>c, Moved, MovedSets
  <2>2. /\ ScopesOf # <<>> /\ captured[n] = Depth /\ n \in 1 .. n
        /\ \A i \in 1 .. n - 1 : captured[i] # Depth
        /\ BS!Last = Scope(Depth)
    BY <2>1, LastScope
  <2>3. ASSUME NEW i \in 1 .. n, i # n PROVE ScopesOf'[i] = ScopesOf[i]
    <3>0. i \in 1 .. n - 1
      <4>1. n \in Nat
        BY <1>0
      <4> HIDE DEF n
      <4>2. QED
        BY <2>3, <4>1
    <3>1. captured[i] # Depth /\ captured[i] \in InBlocks
      BY <1>0, <2>2, <3>0
    <3>2. stack'[captured[i]] = stack[captured[i]]
      BY <2>1, <3>1 DEF InBlocks
    <3>3. QED
      BY <1>0, <1>c, <3>2 DEF ScopesOf, Scope
  <2>4. ScopesOf'[n] = [ScopesOf[n] EXCEPT !.cleaned = TRUE]
    <3>1. ScopesOf'[n]
            = [scope |-> Depth,
               cleaned |-> stack'[Depth].phase \in {"afterwards", "dropped"}]
      BY <1>0, <1>c, <2>2 DEF ScopesOf, Scope
    <3>2. stack'[Depth].phase \in {"afterwards", "dropped"}
      BY <1>c, <2>1
    <3>3. ScopesOf[n] = Scope(Depth)
      BY <1>0, <2>2
    <3>4. ScopesOf'[n] = [scope |-> Depth, cleaned |-> TRUE]
      <4>1. (stack'[Depth].phase \in {"afterwards", "dropped"}) = TRUE
        BY <3>2
      <4>2. QED
        BY <3>1, <4>1, Zenon
    <3>5. [Scope(Depth) EXCEPT !.cleaned = TRUE] = [scope |-> Depth, cleaned |-> TRUE]
      <4>1. ASSUME NEW x, NEW y, NEW z \in BOOLEAN
            PROVE  [[scope |-> x, cleaned |-> y] EXCEPT !.cleaned = z]
                     = [scope |-> x, cleaned |-> z]
        OBVIOUS
      <4>2. QED
        BY <4>1, Zenon DEF Scope
    <3>6. QED
      BY <3>3, <3>4, <3>5
  <2>5. ScopesOf' = [ScopesOf EXCEPT ![n].cleaned = TRUE]
    <3>1. ScopesOf' = [i \in 1 .. n |-> ScopesOf'[i]]
      BY <1>0, <1>c DEF ScopesOf
    <3>2. ScopesOf = [i \in 1 .. n |-> ScopesOf[i]]
      BY <1>0 DEF ScopesOf
    <3> HIDE DEF ScopesOf
    <3>3. QED
      BY <2>2, <2>3, <2>4, <3>1, <3>2
  <2>6. Len(ScopesOf) = n /\ ~BS!Last.cleaned
    <3>1. ~Scope(Depth).cleaned
      BY <1>c DEF Scope, Top
    <3>2. QED
      BY <1>0, <2>2, <3>1
  <2>7. BS!Clean
    BY <1>c, <2>2, <2>5, <2>6 DEF BS!Clean
  <2>8. QED
    BY <2>7 DEF BS!Next
<1>d. ASSUME stack # <<>>, stack' = Front(stack), Top.kind = "block",
             captured' = Front(captured), UNCHANGED over, ~over,
             Top.phase \in {"afterwards", "dropped"}
      PROVE  [BS!Next]_BS!vars
  <2> DEFINE n == Len(captured)
  <2>1. /\ Depth \in InBlocks
        /\ \A i \in DOMAIN stack : i # Depth => stack'[i] = stack[i]
    BY <1>d, PoppedSets, Popped DEF InBlocks, Top
  <2>2. /\ ScopesOf # <<>> /\ captured # <<>> /\ n \in 1 .. n
        /\ \A i \in 1 .. n - 1 : captured[i] # Depth
        /\ BS!Last = Scope(Depth)
    BY <2>1, LastScope
  <2>3. /\ DOMAIN captured' = 1 .. n - 1
        /\ \A i \in 1 .. n - 1 : captured'[i] = captured[i]
    BY <1>d, <2>2, FrontOf DEF TypeOK
  <2>4. ASSUME NEW i \in 1 .. n - 1 PROVE ScopesOf'[i] = ScopesOf[i]
    <3>1. i \in 1 .. n /\ captured[i] # Depth /\ captured[i] \in InBlocks
      BY <1>0, <2>2
    <3>2. stack'[captured[i]] = stack[captured[i]]
      BY <2>1, <3>1 DEF InBlocks
    <3>3. QED
      BY <1>0, <2>3, <3>1, <3>2 DEF ScopesOf, Scope
  <2>5. /\ n - 1 \in Nat /\ n - 1 <= Len(ScopesOf)
    BY <1>0, <2>2
  <2>6. ScopesOf' = SubSeq(ScopesOf, 1, Len(ScopesOf) - 1)
    <3>1. ScopesOf' = [i \in 1 .. n - 1 |-> ScopesOf'[i]]
      BY <2>3 DEF ScopesOf
    <3> DEFINE m == n - 1
               p == SubSeq(ScopesOf, 1, m)
    <3> HIDE DEF ScopesOf, m
    <3>2. /\ DOMAIN p = 1 .. m /\ \A i \in 1 .. m : p[i] = ScopesOf[i]
          /\ p \in Seq({Scope(i) : i \in InBlocks})
      BY <1>0, <2>5, PrefixOf DEF m
    <3>3. p = [i \in 1 .. m |-> p[i]]
      BY <3>2
    <3>4. ScopesOf' = p
      BY <2>4, <3>1, <3>2, <3>3 DEF m
    <3>5. QED
      BY <1>0, <3>4 DEF m
  <2>7. BS!Last.cleaned
    BY <1>d, <2>2 DEF Scope, Top
  <2>8. BS!Leave
    BY <1>d, <2>2, <2>6, <2>7 DEF BS!Leave
  <2>9. QED
    BY <2>8 DEF BS!Next
<1>1. ASSUME CallMethod PROVE [BS!Next]_BS!vars
  <2>1. PICK c \in MethodCalls : Enter(c)
    BY <1>1, Callers, Zenon
  <2>2. c \in Calls /\ c.kind # "block"
    BY DEF Calls, MethodCalls
  <2>3. \A i \in InBlocks : stack'[i] = stack[i]
    BY <2>1, <2>2, PushedSets DEF InBlocks
  <2>4. UNCHANGED <<captured, over>>
    BY <1>1 DEF CallMethod, blockVars
  <2>5. QED
    BY <2>3, <2>4, <1>a
<1>2. ASSUME ReturnMethod PROVE [BS!Next]_BS!vars
  <2>1. /\ stack # <<>> /\ stack' = Front(stack) /\ Top.kind # "block"
        /\ UNCHANGED <<captured, over>>
    BY <1>2 DEF ReturnMethod, Leave, blockVars
  <2>2. \A i \in InBlocks : stack'[i] = stack[i]
    BY <2>1, PoppedSets, Popped DEF InBlocks, Top
  <2>3. QED
    BY <2>1, <2>2, <1>a
<1>3. ASSUME CallNextMethod PROVE [BS!Next]_BS!vars
  <2>1. PICK c \in MethodCalls : Enter(c)
    BY <1>3, Callers, Zenon
  <2>2. c \in Calls /\ c.kind # "block"
    BY DEF Calls, MethodCalls
  <2>3. \A i \in InBlocks : stack'[i] = stack[i]
    BY <2>1, <2>2, PushedSets DEF InBlocks
  <2>4. UNCHANGED <<captured, over>>
    BY <1>3 DEF CallNextMethod, blockVars
  <2>5. QED
    BY <2>3, <2>4, <1>a
<1>4. ASSUME NoNextMethod PROVE [BS!Next]_BS!vars
  <2>1. UNCHANGED <<stack, captured, over>>
    BY <1>4 DEF NoNextMethod, blockVars
  <2>2. QED
    BY <2>1, <1>a
<1>5. ASSUME EnterBlock PROVE [BS!Next]_BS!vars
  <2>1. PICK c \in BlockCalls : Enter(c) /\ c.phase = "body"
    BY <1>5, Callers, Zenon
  <2>2. c \in Calls /\ ~over /\ UNCHANGED over
    BY <1>5, <2>1 DEF Calls, EnterBlock, Enter, Running
  <2> DEFINE d == Depth + 1
             n == Len(captured)
             new == [scope |-> d, cleaned |-> FALSE]
  <2>3. /\ stack'[d] = c /\ \A i \in InBlocks : i # d /\ stack'[i] = stack[i]
        /\ d \in 1 .. MaxDepth
    BY <2>1, <2>2, PushedSets, Room DEF InBlocks, Enter
  <2>4. captured' = Append(captured, d)
    BY <1>5 DEF EnterBlock
  <2>5. /\ n \in Nat /\ Len(captured') = n + 1 /\ DOMAIN captured' = 1 .. n + 1
        /\ \A i \in 1 .. n : captured'[i] = captured[i]
        /\ captured'[n + 1] = d
    BY <2>3, <2>4, AppendOf DEF TypeOK
  <2>6. /\ DOMAIN ScopesOf = 1 .. n
        /\ \A i \in 1 .. n : ScopesOf[i] = Scope(captured[i]) /\ captured[i] \in InBlocks
        /\ ScopesOf \in Seq({Scope(i) : i \in InBlocks}) /\ Len(ScopesOf) = n
    BY Rescoped
  <2>7. \A i \in 1 .. n : ScopesOf'[i] = ScopesOf[i]
    <3> SUFFICES ASSUME NEW i \in 1 .. n PROVE ScopesOf'[i] = ScopesOf[i]
      OBVIOUS
    <3>1. captured'[i] = captured[i] /\ captured[i] \in InBlocks /\ i \in DOMAIN captured'
      BY <2>5, <2>6
    <3>2. stack'[captured[i]] = stack[captured[i]]
      BY <2>3, <3>1
    <3>3. QED
      BY <2>6, <3>1, <3>2 DEF ScopesOf, Scope
  <2>8. ScopesOf'[n + 1] = new /\ DOMAIN ScopesOf' = 1 .. n + 1
    <3>1. n + 1 \in DOMAIN captured'
      BY <2>5
    <3>2. stack'[d].phase \notin {"afterwards", "dropped"}
      BY <2>1, <2>3
    <3>3. ScopesOf'[n + 1]
            = [scope |-> d, cleaned |-> stack'[d].phase \in {"afterwards", "dropped"}]
      BY <2>5, <3>1 DEF ScopesOf, Scope
    <3>4. (stack'[d].phase \in {"afterwards", "dropped"}) = FALSE
      BY <3>2
    <3>5. ScopesOf'[n + 1] = new
      BY <3>3, <3>4, Zenon
    <3>6. QED
      BY <2>5, <3>5 DEF ScopesOf
  <2>9. ScopesOf' = Append(ScopesOf, new)
    <3> DEFINE S == {Scope(i) : i \in InBlocks} \cup {new}
    <3>1. ScopesOf \in Seq(S) /\ new \in S
      <4>1. \A i \in 1 .. n : ScopesOf[i] \in S
        BY <2>6
      <4>2. ScopesOf = [i \in 1 .. n |-> ScopesOf[i]]
        BY <2>6 DEF ScopesOf
      <4> HIDE DEF ScopesOf, S
      <4>3. ScopesOf \in Seq(S)
        BY <2>5, <4>1, <4>2, IsASeq
      <4>4. QED
        BY <4>3 DEF S
    <3>2. ScopesOf' = [i \in DOMAIN ScopesOf' |-> ScopesOf'[i]]
      BY DEF ScopesOf
    <3> HIDE DEF S, n, new, ScopesOf
    <3>3. /\ DOMAIN Append(ScopesOf, new) = 1 .. n + 1
          /\ \A i \in 1 .. n : Append(ScopesOf, new)[i] = ScopesOf[i]
          /\ Append(ScopesOf, new)[n + 1] = new
          /\ Append(ScopesOf, new) \in Seq(S)
      BY <2>6, <3>1, AppendOf
    <3>4. Append(ScopesOf, new) = [i \in 1 .. n + 1 |-> Append(ScopesOf, new)[i]]
      <4> DEFINE a == Append(ScopesOf, new)
      <4>1. DOMAIN a = 1 .. n + 1 /\ a \in Seq(S)
        BY <3>3
      <4> HIDE DEF a
      <4>2. a = [i \in 1 .. n + 1 |-> a[i]]
        BY <4>1
      <4>3. QED
        BY <4>2 DEF a
    <3>5. \A i \in 1 .. n + 1 : ScopesOf'[i] = Append(ScopesOf, new)[i]
      BY <2>5, <2>7, <2>8, <3>3 DEF n
    <3>6. QED
      BY <2>8, <3>2, <3>4, <3>5
  <2>10. \A i \in DOMAIN ScopesOf : ScopesOf[i].scope # d
    BY <2>3, <2>6 DEF Scope
  <2>11. QED
    BY <2>2, <2>3, <2>9, <2>10 DEF BS!Next, BS!Enter
<1>6. ASSUME ReturnBody PROVE [BS!Next]_BS!vars
  <2>1. Moves("cleanup", Top.pending) /\ UNCHANGED <<captured, over>>
    BY <1>6, Movers DEF ReturnBody, blockVars
  <2>2. Top.phase \notin {"afterwards", "dropped"} /\ "cleanup" \notin {"afterwards", "dropped"}
    BY <1>6 DEF ReturnBody, InBlock, Caught, Armed
  <2>3. QED
    BY <2>1, <2>2, <1>b
<1>7. ASSUME ReturnCleanup PROVE [BS!Next]_BS!vars
  <2>1. Moves("afterwards", Top.pending) /\ UNCHANGED <<captured, over>> /\ ~over
    BY <1>7, Movers DEF ReturnCleanup, blockVars, Running
  <2>2. Top.phase \notin {"afterwards", "dropped"} /\ "afterwards" \in {"afterwards", "dropped"}
    BY <1>7 DEF ReturnCleanup, InBlock
  <2>3. QED
    BY <2>1, <2>2, <1>c
<1>8. ASSUME ReturnBlock PROVE [BS!Next]_BS!vars
  <2>1. /\ stack # <<>> /\ stack' = Front(stack) /\ Top.kind = "block"
        /\ captured' = Front(captured) /\ UNCHANGED over /\ ~over
        /\ Top.phase \in {"afterwards", "dropped"}
    BY <1>8 DEF ReturnBlock, Leave, InBlock, Running
  <2>2. QED
    BY <2>1, <1>d
<1>9. ASSUME Catch PROVE [BS!Next]_BS!vars
  <2>1. Moves("cleanup", Top.pending) /\ UNCHANGED <<captured, over>>
    BY <1>9, Movers DEF Catch, blockVars
  <2>2. Top.phase \notin {"afterwards", "dropped"} /\ "cleanup" \notin {"afterwards", "dropped"}
    BY <1>9 DEF Catch, InBlock, Caught, Armed
  <2>3. QED
    BY <2>1, <2>2, <1>b
<1>10. ASSUME DropGuard PROVE [BS!Next]_BS!vars
  <2>1. Moves("dropping", payload) /\ UNCHANGED <<captured, over>>
    BY <1>10, Movers DEF DropGuard, blockVars
  <2>2. Top.phase \notin {"afterwards", "dropped"} /\ "dropping" \notin {"afterwards", "dropped"}
    BY <1>10 DEF DropGuard, InBlock, Caught, Armed
  <2>3. QED
    BY <2>1, <2>2, <1>b
<1>11. ASSUME ResumeUnwind PROVE [BS!Next]_BS!vars
  <2>1. Moves("dropped", Nil) /\ UNCHANGED <<captured, over>> /\ ~over
    BY <1>11, Movers DEF ResumeUnwind, blockVars, Running
  <2>2. Top.phase \notin {"afterwards", "dropped"} /\ "dropped" \in {"afterwards", "dropped"}
    BY <1>11 DEF ResumeUnwind, InBlock
  <2>3. QED
    BY <2>1, <2>2, <1>c
<1>12. ASSUME UnwindBlock PROVE [BS!Next]_BS!vars
  <2>1. /\ stack # <<>> /\ stack' = Front(stack) /\ Top.kind = "block"
        /\ captured' = Front(captured) /\ UNCHANGED over /\ ~over
        /\ Top.phase \in {"afterwards", "dropped"}
    BY <1>12 DEF UnwindBlock, Leave, InBlock, Running
  <2>2. QED
    BY <2>1, <1>d
<1>13. ASSUME Abort PROVE [BS!Next]_BS!vars
  <2>1. UNCHANGED <<stack, captured>> /\ over' = TRUE
    BY <1>13 DEF Abort, blockVars
  <2>2. UNCHANGED ScopesOf
    BY <2>1 DEF ScopesOf, Scope
  <2>3. QED
    BY <2>1, <2>2 DEF BS!Next, BS!End
<1>14. ASSUME Signal PROVE [BS!Next]_BS!vars
  <2>1. PICK c \in HandlerCalls : Enter(c)
    BY <1>14, Callers, Zenon
  <2>2. c \in Calls /\ c.kind # "block"
    BY DEF Calls, HandlerCalls
  <2>3. \A i \in InBlocks : stack'[i] = stack[i]
    BY <2>1, <2>2, PushedSets DEF InBlocks
  <2>4. UNCHANGED <<captured, over>>
    BY <1>14 DEF Signal, blockVars
  <2>5. QED
    BY <2>3, <2>4, <1>a
<1>15. ASSUME Unhandled PROVE [BS!Next]_BS!vars
  <2>1. UNCHANGED <<stack, captured, over>>
    BY <1>15 DEF Unhandled, blockVars
  <2>2. QED
    BY <2>1, <1>a
<1>16. ASSUME ReturnHandler PROVE [BS!Next]_BS!vars
  <2>1. UNCHANGED <<stack, captured, over>>
    BY <1>16 DEF ReturnHandler, blockVars
  <2>2. QED
    BY <2>1, <1>a
<1>17. ASSUME InvokeExit PROVE [BS!Next]_BS!vars
  <2>1. UNCHANGED <<stack, captured, over>>
    BY <1>17 DEF InvokeExit, blockVars
  <2>2. QED
    BY <2>1, <1>a
<1>18. ASSUME UnwindCall PROVE [BS!Next]_BS!vars
  <2>1. /\ stack # <<>> /\ stack' = Front(stack) /\ Top.kind # "block"
        /\ UNCHANGED <<captured, over>>
    BY <1>18 DEF UnwindCall, Leave, blockVars
  <2>2. \A i \in InBlocks : stack'[i] = stack[i]
    BY <2>1, PoppedSets, Popped DEF InBlocks, Top
  <2>3. QED
    BY <2>1, <2>2, <1>a
<1>19. ASSUME Uncaught PROVE [BS!Next]_BS!vars
  <2>1. UNCHANGED <<stack, captured>> /\ over' = TRUE
    BY <1>19 DEF Uncaught, blockVars
  <2>2. UNCHANGED ScopesOf
    BY <2>1 DEF ScopesOf, Scope
  <2>3. QED
    BY <2>1, <2>2 DEF BS!Next, BS!End
<1>20. CASE UNCHANGED vars
  BY <1>20 DEF vars, BS!vars, ScopesOf, Scope
<1>21. QED
  BY <1>1, <1>2, <1>3, <1>4, <1>5, <1>6, <1>7, <1>8, <1>9, <1>10, <1>11, <1>12,
     <1>13, <1>14, <1>15, <1>16, <1>17, <1>18, <1>19, <1>20 DEF Next

\* However a block is left, its cleanup completes once, innermost first.
THEOREM BlocksAreScoped == Spec => ImplementsBlockScopes
<1>1. Init => BS!Init
  BY DEF Init, BS!Init, ScopesOf
<1>2. BaseInv /\ [Next]_vars => [BS!Next]_BS!vars
  BY ScopeStep DEF BaseInv
<1>3. QED
  BY <1>1, <1>2, Invariance, PTL DEF Spec, ImplementsBlockScopes, BS!Spec
=============================================================================
