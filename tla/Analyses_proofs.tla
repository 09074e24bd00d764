--------------------------- MODULE Analyses_proofs ---------------------------
(***************************************************************************)
(* Proofs about the two analyses of the compiler.                          *)
(*                                                                         *)
(* C3, for any hierarchies: the lists it computes agree with those of the  *)
(* parents, a class is refused only for want of such a list, and the lists *)
(* of a program are what MethodTable assumes of them.  The core is Merged: *)
(* at every step of a merge, each input's members are divided between what *)
(* has been picked and what is still in its queue, and two of them are in  *)
(* the input's order in the result, or in the queue, or picked and not     *)
(* picked.                                                                 *)
(*                                                                         *)
(* Liveness, for any functions: the roots of a call are what is live       *)
(* across it.  The core is that a finished analysis solves its equations   *)
(* (RoundInv) and never has more than the least solution (SoundInv), which *)
(* is what reaches a use.                                                  *)
(***************************************************************************)
EXTENDS C3, Liveness, Orders

-----------------------------------------------------------------------------
\* The state of a merge's input when `queue` is left of it.
Merged(input, queue, picked) ==
    /\ queue \in Seq(Nat)
    /\ ToSet(queue) \subseteq ToSet(input)
    /\ ToSet(input) \subseteq ToSet(queue) \cup ToSet(picked)
    /\ ToSet(queue) \cap ToSet(picked) = {}
    /\ \A a, b \in ToSet(input) : Before(queue, a, b) => Before(input, a, b)
    /\ \A a, b \in ToSet(input) :
          Before(input, a, b) => \/ Before(queue, a, b)
                                 \/ Before(picked, a, b)
                                 \/ a \in ToSet(picked) /\ b \in ToSet(queue)

C3Types ==
    /\ parents \in Hierarchies
    /\ failed \in BOOLEAN
    /\ cpls \in Seq(Seq(Nat))
    /\ \A i \in DOMAIN cpls : i \in DOMAIN parents /\ cpls[i] \in Seq(1 .. i)

\* The lists of a class's ancestors, not of its parents only, are in its list.
Ancestors ==
    \A c \in DOMAIN cpls : \A d \in ToSet(cpls[c]) :
        ToSet(cpls[d]) \subseteq ToSet(cpls[c]) /\ Respects(cpls[c], cpls[d])

\* The merge in progress.
MergeInv ==
    /\ Current \in DOMAIN parents /\ Len(parents[Current]) > 1
    /\ DOMAIN queues = DOMAIN Inputs
    /\ queues \in Seq(Seq(Nat))
    /\ result \in Seq(1 .. Current)
    /\ result[1] = Current
    /\ OnceEach(result)
    /\ \A x \in ToSet(result) \ {Current} :
          \E j \in DOMAIN Inputs : x \in ToSet(Inputs[j])
    /\ \A j \in DOMAIN Inputs : Merged(Inputs[j], queues[j], result)
    /\ failed => Candidates = {} /\ \E j \in DOMAIN queues : queues[j] # <<>>

C3Inv ==
    /\ C3Types
    /\ ListsAgree
    /\ Ancestors
    /\ result = <<>> => ~failed
    /\ result # <<>> => MergeInv

-----------------------------------------------------------------------------
(* Lists.                                                                  *)

\* The members of a list of classes are classes.
LEMMA Members == ASSUME NEW S, NEW s \in Seq(S) PROVE ToSet(s) \subseteq S
<1>1. DOMAIN s = 1 .. Len(s) /\ \A i \in 1 .. Len(s) : s[i] \in S
  BY LenProperties, ElementOfSeq
<1>2. QED
  BY <1>1 DEF ToSet

\* A list of some classes is one of more classes.
LEMMA Wider ==
    ASSUME NEW S, NEW T, S \subseteq T, NEW s \in Seq(S)
    PROVE  s \in Seq(T)
<1>1. Len(s) \in Nat /\ s \in [1 .. Len(s) -> S]
  BY LenProperties
<1> DEFINE n == Len(s)
<1>2. n \in Nat /\ s \in [1 .. n -> T]
  <2> HIDE DEF n
  <2> QED BY <1>1 DEF n
<1>3. QED
  BY <1>2, SeqDef

\* What one more element adds to a list.
LEMMA Appended ==
    ASSUME NEW S, NEW s \in Seq(S), NEW x \in S
    PROVE  /\ ToSet(Append(s, x)) = ToSet(s) \cup {x}
           /\ \A a, b : Before(s, a, b) => Before(Append(s, x), a, b)
           /\ \A a \in ToSet(s) : Before(Append(s, x), a, x)
           /\ OnceEach(s) /\ x \notin ToSet(s) => OnceEach(Append(s, x))
<1> DEFINE n == Len(s)
           t == Append(s, x)
<1>1. /\ n \in Nat /\ DOMAIN s = 1 .. n /\ DOMAIN t = 1 .. n + 1
      /\ \A i \in 1 .. n : t[i] = s[i]
      /\ t[n + 1] = x
  BY AppendOf
<1> HIDE DEF n, t
<1>2. DOMAIN t = DOMAIN s \cup {n + 1} /\ n + 1 \notin DOMAIN s
  BY <1>1
<1>3. ToSet(t) = ToSet(s) \cup {x}
  BY <1>1, <1>2 DEF ToSet
<1>4. ASSUME NEW a, NEW b, Before(s, a, b) PROVE Before(t, a, b)
  <2>1. PICK i, j \in DOMAIN s : i < j /\ s[i] = a /\ s[j] = b
    BY <1>4 DEF Before
  <2>2. i \in DOMAIN t /\ j \in DOMAIN t /\ t[i] = a /\ t[j] = b
    BY <1>1, <1>2, <2>1
  <2>3. QED
    BY <2>1, <2>2 DEF Before
<1>5. ASSUME NEW a \in ToSet(s) PROVE Before(t, a, x)
  <2>1. PICK i \in DOMAIN s : s[i] = a
    BY DEF ToSet
  <2>2. i \in DOMAIN t /\ t[i] = a /\ i < n + 1
    BY <1>1, <1>2, <2>1
  <2>3. QED
    BY <1>1, <1>2, <2>2 DEF Before
<1>6. ASSUME OnceEach(s), x \notin ToSet(s) PROVE OnceEach(t)
  <2>1. \A i \in DOMAIN s : s[i] # x
    BY <1>6 DEF ToSet
  <2>2. QED
    BY <1>1, <1>2, <1>6, <2>1 DEF OnceEach
<1>7. QED
  BY <1>3, <1>4, <1>5, <1>6 DEF t

\* What is left of a list without its head.
LEMMA Tailed ==
    ASSUME NEW S, NEW s \in Seq(S), s # <<>>
    PROVE  /\ Head(s) \in S /\ Tail(s) \in Seq(S)
           /\ ToSet(s) = {Head(s)} \cup ToSet(Tail(s))
           /\ \A a, b : Before(s, a, b)
                 <=> Before(Tail(s), a, b) \/ (a = Head(s) /\ b \in ToSet(Tail(s)))
<1> DEFINE n == Len(s)
           t == Tail(s)
<1>1. /\ n \in Nat \ {0} /\ DOMAIN s = 1 .. n
      /\ t \in Seq(S) /\ Len(t) = n - 1
      /\ \A i \in 1 .. n - 1 : t[i] = s[i + 1]
      /\ Head(s) = s[1] /\ s[1] \in S
  BY EmptySeq, LenProperties, HeadTailProperties
<1>2. DOMAIN t = 1 .. n - 1
  BY <1>1
<1> HIDE DEF n, t
<1>3. ToSet(s) = {Head(s)} \cup ToSet(t)
  <2>1. ASSUME NEW i \in DOMAIN s PROVE s[i] \in {Head(s)} \cup ToSet(t)
    <3>1. CASE i = 1
      BY <1>1, <3>1
    <3>2. CASE i # 1
      <4>1. i - 1 \in DOMAIN t /\ t[i - 1] = s[i]
        BY <1>1, <1>2, <3>2
      <4>2. QED
        BY <4>1 DEF ToSet
    <3>3. QED
      BY <3>1, <3>2
  <2>2. ASSUME NEW i \in DOMAIN t PROVE t[i] \in ToSet(s)
    <3>1. i + 1 \in DOMAIN s /\ s[i + 1] = t[i]
      BY <1>1, <1>2
    <3>2. QED
      BY <3>1 DEF ToSet
  <2>3. Head(s) \in ToSet(s)
    <3>1. 1 \in DOMAIN s
      BY <1>1
    <3>2. QED
      BY <1>1, <3>1 DEF ToSet
  <2>4. ToSet(t) \subseteq ToSet(s)
    BY <2>2 DEF ToSet
  <2>5. ToSet(s) \subseteq {Head(s)} \cup ToSet(t)
    BY <2>1 DEF ToSet
  <2>6. QED
    BY <2>3, <2>4, <2>5
<1>4. ASSUME NEW a, NEW b, Before(s, a, b)
      PROVE  Before(t, a, b) \/ (a = Head(s) /\ b \in ToSet(t))
  <2>1. PICK i, j \in DOMAIN s : i < j /\ s[i] = a /\ s[j] = b
    BY <1>4 DEF Before
  <2>2. j - 1 \in DOMAIN t /\ t[j - 1] = b
    BY <1>1, <1>2, <2>1
  <2>3. CASE i = 1
    BY <1>1, <2>1, <2>2, <2>3 DEF ToSet
  <2>4. CASE i # 1
    <3>1. i - 1 \in DOMAIN t /\ t[i - 1] = a /\ i - 1 < j - 1
      BY <1>1, <1>2, <2>1, <2>4
    <3>2. QED
      BY <2>2, <3>1 DEF Before
  <2>5. QED
    BY <2>3, <2>4
<1>5. ASSUME NEW a, NEW b, Before(t, a, b) PROVE Before(s, a, b)
  <2>1. PICK i, j \in DOMAIN t : i < j /\ t[i] = a /\ t[j] = b
    BY <1>5 DEF Before
  <2>2. /\ i + 1 \in DOMAIN s /\ j + 1 \in DOMAIN s /\ i + 1 < j + 1
        /\ s[i + 1] = a /\ s[j + 1] = b
    BY <1>1, <1>2, <2>1
  <2>3. QED
    BY <2>2 DEF Before
<1>6. ASSUME NEW b \in ToSet(t) PROVE Before(s, Head(s), b)
  <2>1. PICK j \in DOMAIN t : t[j] = b
    BY DEF ToSet
  <2>2. /\ 1 \in DOMAIN s /\ j + 1 \in DOMAIN s /\ 1 < j + 1
        /\ s[1] = Head(s) /\ s[j + 1] = b
    BY <1>1, <1>2, <2>1
  <2>3. QED
    BY <2>2 DEF Before
<1>7. QED
  BY <1>1, <1>3, <1>4, <1>5, <1>6 DEF t

\* A list with a new head.
LEMMA Consed ==
    ASSUME NEW S, NEW s \in Seq(S), NEW x \in S
    PROVE  /\ <<x>> \o s \in Seq(S) /\ Head(<<x>> \o s) = x
           /\ ToSet(<<x>> \o s) = {x} \cup ToSet(s)
           /\ \A a, b : Before(s, a, b) => Before(<<x>> \o s, a, b)
           /\ \A b \in ToSet(s) : Before(<<x>> \o s, x, b)
           /\ OnceEach(s) /\ x \notin ToSet(s) => OnceEach(<<x>> \o s)
<1> DEFINE n == Len(s)
           t == <<x>> \o s
<1>1. n \in Nat /\ DOMAIN s = 1 .. n /\ t \in Seq(S) /\ Len(t) = n + 1
  BY LenProperties, ConcatProperties
<1>2. DOMAIN t = 1 .. n + 1 /\ t[1] = x /\ \A i \in 1 .. n : t[i + 1] = s[i]
  <2>1. t \in Seq(S) /\ Len(t) = n + 1
    BY <1>1
  <2>2. ASSUME NEW i \in 1 .. n + 1 PROVE t[i] = IF i <= 1 THEN x ELSE s[i - 1]
    BY LenProperties, ConcatProperties
  <2> HIDE DEF n, t
  <2>3. DOMAIN t = 1 .. n + 1
    BY <2>1
  <2>4. ASSUME NEW i \in 1 .. n PROVE t[i + 1] = s[i]
    BY <1>1, <2>2
  <2>5. QED
    BY <1>1, <2>2, <2>3, <2>4
<1>3. t # <<>> /\ Head(t) = x
  <2> HIDE DEF n, t
  <2> QED BY <1>1, <1>2
<1>4. Tail(t) = s
  <2>1. Tail(t) \in Seq(S) /\ Len(Tail(t)) = n
    BY <1>1, <1>3, HeadTailProperties
  <2>2. \A i \in 1 .. n : Tail(t)[i] = s[i]
    BY <1>1, <1>2, <1>3, HeadTailProperties
  <2>3. QED
    BY <2>1, <2>2, SeqEqual
<1>5. /\ ToSet(t) = {x} \cup ToSet(s)
      /\ \A a, b : Before(s, a, b) => Before(t, a, b)
      /\ \A b \in ToSet(s) : Before(t, x, b)
  <2>1. t \in Seq(S) /\ t # <<>> /\ Head(t) = x /\ Tail(t) = s
    BY <1>1, <1>3, <1>4
  <2> HIDE DEF t
  <2>2. /\ ToSet(t) = {Head(t)} \cup ToSet(Tail(t))
        /\ \A a, b : Before(t, a, b)
              <=> Before(Tail(t), a, b) \/ (a = Head(t) /\ b \in ToSet(Tail(t)))
    BY <2>1, Tailed
  <2>3. QED
    BY <2>1, <2>2
<1>6. ASSUME OnceEach(s), x \notin ToSet(s) PROVE OnceEach(t)
  <2>1. \A i \in 1 .. n : s[i] # x
    BY <1>1, <1>6 DEF ToSet
  <2> SUFFICES ASSUME NEW i \in 1 .. n + 1, NEW j \in 1 .. n + 1, t[i] = t[j]
               PROVE  i = j
    BY <1>2 DEF OnceEach
  <2>2. \A k \in 1 .. n + 1 : k = 1 \/ (k - 1 \in 1 .. n /\ t[k] = s[k - 1])
    <3> HIDE DEF n, t
    <3>1. ASSUME NEW k \in 1 .. n + 1, k # 1
          PROVE  k - 1 \in 1 .. n /\ t[(k - 1) + 1] = s[k - 1] /\ (k - 1) + 1 = k
      BY <1>1, <1>2, <3>1
    <3>2. QED
      BY <3>1
  <2> HIDE DEF n, t
  <2>3. i = 1 <=> j = 1
    BY <1>2, <2>1, <2>2
  <2>4. CASE i # 1
    <3>1. /\ i - 1 \in 1 .. n /\ j - 1 \in 1 .. n
          /\ t[i] = s[i - 1] /\ t[j] = s[j - 1]
      BY <2>2, <2>3, <2>4
    <3>2. \A k, l \in 1 .. n : s[k] = s[l] => k = l
      BY <1>1, <1>6 DEF OnceEach
    <3>3. i - 1 = j - 1
      BY <3>1, <3>2
    <3>4. QED
      BY <1>1, <3>3
  <2>5. QED
    BY <2>3, <2>4
<1>7. QED
  BY <1>1, <1>3, <1>5, <1>6


-----------------------------------------------------------------------------
(* One input of a merge.                                                   *)

\* The order in a list is the order in a list that respects it.
LEMMA RespectsFurther ==
    ASSUME NEW l, NEW m, NEW k, Respects(l, m), Respects(m, k),
           ToSet(k) \subseteq ToSet(m)
    PROVE  Respects(l, k)
BY DEF Respects

\* All of it is in the queue.
LEMMA StartOf ==
    ASSUME NEW input \in Seq(Nat), NEW x \in Nat, x \notin ToSet(input)
    PROVE  Merged(input, input, <<x>>)
<1>1. ToSet(<<x>>) = {x}
  BY DEF ToSet
<1>2. QED
  BY <1>1 DEF Merged

\* A class is picked that is in no tail.
LEMMA PickOf ==
    ASSUME NEW input, NEW queue, NEW picked \in Seq(Nat), NEW x \in Nat,
           Merged(input, queue, picked), ~InTail(x, queue)
    PROVE  Merged(input,
                  IF queue # <<>> /\ Head(queue) = x THEN Tail(queue) ELSE queue,
                  Append(picked, x))
<1> DEFINE after == Append(picked, x)
<1>1. /\ ToSet(after) = ToSet(picked) \cup {x}
      /\ \A a, b : Before(picked, a, b) => Before(after, a, b)
      /\ \A a \in ToSet(picked) : Before(after, a, x)
  BY Appended
<1>2. queue \in Seq(Nat)
  BY DEF Merged
<1> HIDE DEF after
<1>3. CASE queue # <<>> /\ Head(queue) = x
  <2> DEFINE rest == Tail(queue)
  <2>1. /\ rest \in Seq(Nat) /\ ToSet(queue) = {x} \cup ToSet(rest)
        /\ \A a, b : Before(queue, a, b)
              <=> Before(rest, a, b) \/ (a = x /\ b \in ToSet(rest))
    BY <1>2, <1>3, Tailed
  <2>2. x \notin ToSet(rest)
    BY <1>3 DEF InTail
  <2> HIDE DEF rest
  <2>3. /\ ToSet(rest) \subseteq ToSet(input)
        /\ ToSet(input) \subseteq ToSet(rest) \cup ToSet(after)
        /\ ToSet(rest) \cap ToSet(after) = {}
    BY <1>1, <2>1, <2>2 DEF Merged
  <2>4. \A a, b \in ToSet(input) : Before(rest, a, b) => Before(input, a, b)
    BY <2>1 DEF Merged
  <2>5. ASSUME NEW a \in ToSet(input), NEW b \in ToSet(input), Before(input, a, b)
        PROVE  \/ Before(rest, a, b)
               \/ Before(after, a, b)
               \/ a \in ToSet(after) /\ b \in ToSet(rest)
    <3>1. CASE Before(queue, a, b)
      BY <1>1, <2>1, <3>1
    <3>2. CASE Before(picked, a, b)
      BY <1>1, <3>2
    <3>3. CASE a \in ToSet(picked) /\ b \in ToSet(queue)
      BY <1>1, <2>1, <3>3
    <3>4. QED
      BY <2>5, <3>1, <3>2, <3>3 DEF Merged
  <2>6. Merged(input, rest, after)
    BY <2>1, <2>3, <2>4, <2>5 DEF Merged
  <2>7. QED
    BY <1>3, <2>6 DEF rest, after
<1>4. CASE ~(queue # <<>> /\ Head(queue) = x)
  <2>1. x \notin ToSet(queue)
    <3>1. CASE queue = <<>>
      BY <3>1 DEF ToSet
    <3>2. CASE queue # <<>>
      <4>1. ToSet(queue) = {Head(queue)} \cup ToSet(Tail(queue))
        BY <1>2, <3>2, Tailed
      <4>2. QED
        BY <1>4, <3>2, <4>1 DEF InTail
    <3>3. QED
      BY <3>1, <3>2
  <2>2. Merged(input, queue, after)
    BY <1>1, <2>1 DEF Merged
  <2>3. QED
    BY <1>4, <2>2 DEF after
<1>5. QED
  BY <1>3, <1>4

\* Nothing is left.
LEMMA DoneOf ==
    ASSUME NEW input, NEW picked, Merged(input, <<>>, picked)
    PROVE  ToSet(input) \subseteq ToSet(picked) /\ Respects(picked, input)
<1>1. ToSet(<<>>) = {} /\ \A a, b : ~Before(<<>>, a, b)
  BY DEF ToSet, Before
<1>2. QED
  BY <1>1 DEF Merged, Respects

-----------------------------------------------------------------------------
(* The lists of the parents.                                               *)

\* The parents of a class are earlier.
LEMMA Earlier ==
    ASSUME C3Types, NEW i \in DOMAIN parents
    PROVE  /\ parents[i] \in Seq(1 .. i - 1)
           /\ ToSet(parents[i]) \subseteq 1 .. i - 1
<1>1. parents[i] \in Seq(1 .. i - 1)
  BY C3Assumption DEF C3Types
<1>2. QED
  BY <1>1, Members

\* The classes that have lists.
LEMMA Listed ==
    ASSUME C3Types
    PROVE  /\ Len(cpls) \in Nat /\ DOMAIN cpls = 1 .. Len(cpls)
           /\ \A i \in DOMAIN cpls : /\ i \in DOMAIN parents
                                     /\ ToSet(cpls[i]) \subseteq 1 .. i
                                     /\ ToSet(parents[i]) \subseteq 1 .. i - 1
                                     /\ cpls[i] \in Seq(Nat)
<1>1. Len(cpls) \in Nat /\ DOMAIN cpls = 1 .. Len(cpls)
  BY DEF C3Types
<1>2. ASSUME NEW i \in DOMAIN cpls
      PROVE  /\ i \in DOMAIN parents /\ ToSet(cpls[i]) \subseteq 1 .. i
             /\ ToSet(parents[i]) \subseteq 1 .. i - 1 /\ cpls[i] \in Seq(Nat)
  <2>1. i \in DOMAIN parents /\ cpls[i] \in Seq(1 .. i)
    BY DEF C3Types
  <2>2. QED
    BY <2>1, Earlier, Members DEF C3Types
<1>3. QED
  BY <1>1, <1>2

\* A class is on its own list.
LEMMA Selves ==
    ASSUME C3Types, ListsAgree, NEW i \in DOMAIN cpls
    PROVE  i \in ToSet(cpls[i])
BY DEF ListsAgree, Agrees

\* A merge's inputs are the parents' lists and the parents.
LEMMA InputsAre ==
    ASSUME C3Types, Current \in DOMAIN parents
    PROVE  /\ Inputs \in Seq(Seq(Nat))
           /\ \A p \in ToSet(parents[Current]) :
                 p \in DOMAIN cpls /\ \E j \in DOMAIN Inputs : Inputs[j] = cpls[p]
           /\ \E j \in DOMAIN Inputs : Inputs[j] = parents[Current]
           /\ \A j \in DOMAIN Inputs :
                 \/ Inputs[j] = parents[Current]
                 \/ \E p \in ToSet(parents[Current]) : Inputs[j] = cpls[p]
           /\ ToSet(Inputs) = ToSet(ParentCpls) \cup {parents[Current]}
<1> DEFINE own == parents[Current]
           n == Len(own)
<1>1. /\ own \in Seq(1 .. Current - 1) /\ n \in Nat /\ DOMAIN own = 1 .. n
      /\ Current - 1 = Len(cpls) /\ DOMAIN cpls = 1 .. Current - 1
  BY Earlier, Listed DEF Current
<1> HIDE DEF n
<1>2. \A j \in 1 .. n : own[j] \in DOMAIN cpls /\ own[j] \in ToSet(own)
  BY <1>1 DEF ToSet
<1>3. ParentCpls = [j \in 1 .. n |-> cpls[own[j]]]
  BY <1>1 DEF ParentCpls
<1>4. ParentCpls \in Seq(Seq(Nat)) /\ Len(ParentCpls) = n
  BY <1>1, <1>2, <1>3 DEF C3Types
<1>5. own \in Seq(Nat)
  BY <1>1 DEF Current
<1>6. /\ Inputs \in Seq(Seq(Nat)) /\ DOMAIN Inputs = 1 .. n + 1
      /\ \A j \in 1 .. n : Inputs[j] = ParentCpls[j]
      /\ Inputs[n + 1] = own
  BY <1>4, <1>5, AppendOf DEF Inputs
<1>7. \A j \in 1 .. n + 1 : j \in 1 .. n \/ j = n + 1
  BY <1>1
<1>8. n + 1 \in DOMAIN Inputs /\ \A j \in 1 .. n : j \in DOMAIN Inputs
  BY <1>1, <1>6
<1>9. ASSUME NEW p \in ToSet(own)
      PROVE  p \in DOMAIN cpls /\ \E j \in DOMAIN Inputs : Inputs[j] = cpls[p]
  <2>1. PICK j \in 1 .. n : own[j] = p
    BY <1>1 DEF ToSet
  <2>2. QED
    BY <1>2, <1>3, <1>6, <1>8, <2>1
<1>10. ASSUME NEW j \in DOMAIN Inputs
       PROVE  Inputs[j] = own \/ \E p \in ToSet(own) : Inputs[j] = cpls[p]
  BY <1>2, <1>3, <1>6, <1>7
<1>11. ToSet(Inputs) = ToSet(ParentCpls) \cup {own}
  BY <1>4, <1>5, Appended DEF Inputs
<1>12. QED
  BY <1>6, <1>8, <1>9, <1>10, <1>11

-----------------------------------------------------------------------------
(* The steps.                                                              *)

\* A class gets its list.
LEMMA NewList ==
    ASSUME C3Types, ListsAgree, Ancestors, Current \in DOMAIN parents,
           NEW list \in Seq(1 .. Current), Agrees(list, Current),
           cpls' = Append(cpls, list), UNCHANGED <<parents, failed>>
    PROVE  C3Types' /\ ListsAgree' /\ Ancestors'
<1> DEFINE n == Len(cpls)
<1>1. /\ n \in Nat /\ Current = n + 1
      /\ DOMAIN cpls = 1 .. n /\ list \in Seq(Nat)
  BY Listed DEF Current
<1>2. /\ cpls' \in Seq(Seq(Nat)) /\ DOMAIN cpls' = 1 .. n + 1
      /\ \A i \in 1 .. n : cpls'[i] = cpls[i]
      /\ cpls'[n + 1] = list
  BY <1>1, AppendOf DEF C3Types
<1> HIDE DEF n
<1>3. \A i \in DOMAIN cpls' : i \in 1 .. n \/ i = n + 1
  BY <1>1, <1>2
<1>4. \A i \in 1 .. n : i \in DOMAIN parents /\ cpls[i] \in Seq(1 .. i)
  BY <1>1 DEF C3Types
<1>5. C3Types'
  <2>1. \A i \in DOMAIN cpls' : i \in DOMAIN parents' /\ cpls'[i] \in Seq(1 .. i)
    BY <1>1, <1>2, <1>3, <1>4
  <2>2. QED
    BY <1>2, <2>1 DEF C3Types
<1>6. \A i \in DOMAIN cpls' : ToSet(parents[i]) \subseteq 1 .. n
  <2>1. ASSUME NEW i \in 1 .. n + 1, i \in DOMAIN parents
        PROVE  ToSet(parents[i]) \subseteq 1 .. n
    <3>1. ToSet(parents[i]) \subseteq 1 .. i - 1
      BY <2>1, Earlier
    <3>2. 1 .. i - 1 \subseteq 1 .. n
      BY <1>1
    <3>3. QED
      BY <3>1, <3>2
  <2>2. QED
    BY <1>1, <1>2, <1>3, <1>4, <2>1
<1>7. ListsAgree'
  <2>1. ASSUME NEW i \in DOMAIN cpls', NEW l, Agrees(l, i)
        PROVE  LET own == ToSet(parents[i]) IN
               /\ Head(l) = i
               /\ OnceEach(l)
               /\ ToSet(l) = {i} \cup UNION {ToSet(cpls'[p]) : p \in own}
               /\ Respects(l, parents[i])
               /\ \A p \in own : Respects(l, cpls'[p])
    <3> DEFINE own == ToSet(parents[i])
    <3>1. \A p \in own : cpls'[p] = cpls[p]
      BY <1>2, <1>6
    <3>2. {ToSet(cpls'[p]) : p \in own} = {ToSet(cpls[p]) : p \in own}
      BY <3>1
    <3>3. QED
      BY <2>1, <3>1, <3>2 DEF Agrees
  <2>2. \A i \in DOMAIN cpls' : Agrees(cpls'[i], i)
    BY <1>1, <1>2, <1>3 DEF ListsAgree
  <2>3. QED
    BY <2>1, <2>2 DEF ListsAgree, Agrees
<1>8. Ancestors'
  <2>1. ASSUME NEW c \in 1 .. n, NEW d \in ToSet(cpls[c])
        PROVE  /\ d \in 1 .. n
               /\ ToSet(cpls[d]) \subseteq ToSet(cpls[c])
               /\ Respects(cpls[c], cpls[d])
    <3>1. d \in 1 .. c
      BY <1>1, Listed
    <3>2. d \in 1 .. n
      BY <1>1, <3>1
    <3>3. QED
      BY <1>1, <3>2 DEF Ancestors
  <2>2. ASSUME NEW d \in ToSet(list), d # n + 1
        PROVE  /\ d \in 1 .. n
               /\ ToSet(cpls[d]) \subseteq ToSet(list)
               /\ Respects(list, cpls[d])
    <3>1. PICK p \in ToSet(parents[n + 1]) : d \in ToSet(cpls[p])
      BY <1>1, <2>2 DEF Agrees
    <3>2. p \in 1 .. n
      BY <1>1, <1>2, <1>6
    <3>3. ToSet(cpls[p]) \subseteq ToSet(list) /\ Respects(list, cpls[p])
      BY <1>1 DEF Agrees
    <3>4. QED
      BY <2>1, <3>1, <3>2, <3>3, RespectsFurther
  <2>3. Respects(list, list)
    BY DEF Respects
  <2>4. ASSUME NEW c \in DOMAIN cpls', NEW d \in ToSet(cpls'[c])
        PROVE  /\ ToSet(cpls'[d]) \subseteq ToSet(cpls'[c])
               /\ Respects(cpls'[c], cpls'[d])
    <3>1. CASE c \in 1 .. n
      BY <1>2, <2>1, <3>1
    <3>2. CASE c = n + 1 /\ d = n + 1
      BY <1>2, <2>3, <3>2
    <3>3. CASE c = n + 1 /\ d # n + 1
      BY <1>2, <2>2, <3>3
    <3>4. QED
      BY <1>3, <3>1, <3>2, <3>3
  <2>5. QED
    BY <2>4 DEF Ancestors
<1>9. QED
  BY <1>5, <1>7, <1>8

\* A class with one parent, or none.
LEMMA SimpleStep ==
    ASSUME C3Inv, Simple PROVE C3Inv'
<1> DEFINE own == parents[Current]
           rest == IF own = <<>> THEN <<>> ELSE cpls[Head(own)]
           list == <<Current>> \o rest
<1>1. /\ C3Types /\ ListsAgree /\ Ancestors /\ Current \in DOMAIN parents
      /\ ~failed /\ result = <<>> /\ Len(own) <= 1
  <2>1. C3Types /\ Current \in DOMAIN parents /\ Len(own) <= 1
    BY DEF C3Inv, Simple
  <2>2. Len(own) \in Nat
    BY <2>1, Earlier, LenProperties
  <2>3. result = <<>>
    BY <2>1, <2>2 DEF C3Inv, MergeInv
  <2>4. QED
    BY <2>1, <2>3 DEF C3Inv, Simple
<1>2. /\ Current \in Nat \ {0} /\ DOMAIN cpls = 1 .. Current - 1
      /\ own \in Seq(1 .. Current - 1) /\ ToSet(own) \subseteq 1 .. Current - 1
  BY <1>1, Listed, Earlier DEF Current
<1>3. list \in Seq(1 .. Current) /\ Agrees(list, Current)
  <2>1. CASE own = <<>>
    <3>1. list = <<Current>> /\ ToSet(own) = {}
      BY <2>1 DEF ToSet
    <3>2. ToSet(list) = {Current} /\ OnceEach(list) /\ Head(list) = Current
      BY <3>1 DEF ToSet, OnceEach
    <3>3. list \in Seq(1 .. Current)
      <4>1. Current \in 1 .. Current
        BY <1>2
      <4> HIDE DEF list
      <4> QED BY <3>1, <4>1
    <3>4. QED
      BY <3>1, <3>2, <3>3 DEF Agrees, Respects
  <2>2. CASE own # <<>>
    <3> DEFINE p == Head(own)
    <3>1. own = <<p>> /\ ToSet(own) = {p} /\ p \in 1 .. Current - 1
      <4>1. Len(own) = 1 /\ p = own[1]
        <5>1. Len(own) \in Nat \ {0}
          BY <1>2, <2>2, LenProperties, EmptySeq
        <5>2. Len(own) = 1
          BY <1>1, <5>1
        <5>3. QED
          BY <5>2
      <4>2. own = <<p>>
        BY <1>2, <4>1
      <4>3. QED
        BY <1>2, <4>2 DEF ToSet
    <3> HIDE DEF p
    <3>2. /\ cpls[p] \in Seq(1 .. p) /\ OnceEach(cpls[p])
          /\ p \in ToSet(cpls[p]) /\ ToSet(cpls[p]) \subseteq 1 .. p
      BY <1>1, <1>2, <3>1, Selves, Listed DEF C3Types, ListsAgree, Agrees
    <3>3. /\ cpls[p] \in Seq(1 .. Current) /\ Current \in 1 .. Current
          /\ Current \notin ToSet(cpls[p])
      <4>1. \A x \in 1 .. p : x \in 1 .. Current /\ x # Current
        BY <1>2, <3>1
      <4>2. 1 .. p \subseteq 1 .. Current
        BY <4>1
      <4>3. cpls[p] \in Seq(1 .. Current)
        BY <3>2, <4>2, Wider
      <4>4. QED
        BY <1>2, <3>2, <4>1, <4>3
    <3>4. list = <<Current>> \o cpls[p]
      BY <2>2 DEF p
    <3>5. /\ list \in Seq(1 .. Current) /\ Head(list) = Current
          /\ ToSet(list) = {Current} \cup ToSet(cpls[p])
          /\ \A a, b : Before(cpls[p], a, b) => Before(list, a, b)
          /\ OnceEach(list)
      <4> DEFINE above == cpls[p]
      <4>1. above \in Seq(1 .. Current) /\ Current \in 1 .. Current
        BY <3>3
      <4>2. OnceEach(above) /\ Current \notin ToSet(above)
        BY <3>2, <3>3
      <4>3. list = <<Current>> \o above
        BY <3>4
      <4> HIDE DEF list, above
      <4>4. QED
        BY <4>1, <4>2, <4>3, Consed DEF above
    <3> HIDE DEF list
    <3>6. \A a, b : ~Before(own, a, b)
      BY <3>1 DEF Before
    <3>7. Respects(list, own) /\ Respects(list, cpls[p])
      BY <3>5, <3>6 DEF Respects
    <3>8. UNION {ToSet(cpls[q]) : q \in ToSet(own)} = ToSet(cpls[p])
      BY <3>1
    <3>9. QED
      BY <3>1, <3>5, <3>7, <3>8 DEF Agrees
  <2>3. QED
    BY <2>1, <2>2
<1>4. cpls' = Append(cpls, list) /\ UNCHANGED <<parents, failed, result>>
  BY DEF Simple
<1> HIDE DEF list
<1>5. C3Types' /\ ListsAgree' /\ Ancestors'
  BY <1>1, <1>3, <1>4, NewList
<1>6. QED
  BY <1>1, <1>4, <1>5 DEF C3Inv

\* A merge begins.
LEMMA StartStep ==
    ASSUME C3Inv, StartMerge PROVE C3Inv'
<1>1. /\ C3Types /\ ListsAgree /\ Ancestors /\ Current \in DOMAIN parents
      /\ ~failed /\ Len(parents[Current]) > 1
      /\ queues' = Inputs /\ result' = <<Current>>
      /\ UNCHANGED <<parents, cpls, failed>>
  BY DEF C3Inv, StartMerge
<1>2. /\ Current \in Nat \ {0} /\ DOMAIN cpls = 1 .. Current - 1
      /\ ToSet(parents[Current]) \subseteq 1 .. Current - 1
  BY <1>1, Listed, Earlier DEF Current
<1>3. Inputs \in Seq(Seq(Nat))
  BY <1>1, InputsAre
<1>4. ASSUME NEW j \in DOMAIN Inputs
      PROVE  Inputs[j] \in Seq(Nat) /\ Current \notin ToSet(Inputs[j])
  <2>1. Inputs[j] \in Seq(Nat)
    BY <1>3
  <2>2. CASE Inputs[j] = parents[Current]
    BY <1>2, <2>1, <2>2
  <2>3. CASE Inputs[j] # parents[Current]
    <3>1. PICK p \in ToSet(parents[Current]) : Inputs[j] = cpls[p]
      BY <1>1, <2>3, InputsAre
    <3>2. ToSet(cpls[p]) \subseteq 1 .. p /\ p \in 1 .. Current - 1
      BY <1>1, <1>2, Listed
    <3>3. QED
      BY <1>2, <2>1, <3>1, <3>2
  <2>4. QED
    BY <2>2, <2>3
<1>5. \A j \in DOMAIN Inputs : Merged(Inputs[j], Inputs[j], <<Current>>)
  BY <1>2, <1>4, StartOf
<1>6. /\ <<Current>> \in Seq(1 .. Current) /\ <<Current>>[1] = Current
      /\ OnceEach(<<Current>>) /\ ToSet(<<Current>>) = {Current}
      /\ <<Current>> # <<>>
  <2>1. Current \in 1 .. Current
    BY <1>2
  <2> HIDE DEF Current
  <2> QED BY <2>1 DEF OnceEach, ToSet
<1>7. UNCHANGED <<Current, Inputs>>
  BY <1>1 DEF Current, Inputs, ParentCpls
<1>8. MergeInv'
  BY <1>1, <1>3, <1>5, <1>6, <1>7 DEF MergeInv
<1>9. C3Types' /\ ListsAgree' /\ Ancestors'
  BY <1>1 DEF C3Types, ListsAgree, Agrees, Ancestors
<1>10. QED
  BY <1>1, <1>6, <1>8, <1>9 DEF C3Inv

\* The first good head is in no tail, and not picked yet.
LEMMA FirstGoodIs ==
    ASSUME MergeInv, Candidates # {}
    PROVE  /\ FirstGood \in Nat
           /\ \A j \in DOMAIN queues : ~InTail(FirstGood, queues[j])
           /\ FirstGood \notin ToSet(result)
           /\ \E j \in DOMAIN Inputs : FirstGood \in ToSet(Inputs[j])
<1>1. Candidates \subseteq DOMAIN queues /\ queues \in Seq(Seq(Nat))
  BY DEF Candidates, MergeInv
<1>2. Candidates \in SUBSET Nat
  BY <1>1
<1>3. PICK j \in Candidates : FirstGood = Head(queues[j])
  <2>1. \E j \in Candidates : \A k \in Candidates : j <= k
    <3> HIDE DEF Candidates
    <3> QED BY <1>2, SomeLeast
  <2>2. (CHOOSE j \in Candidates : \A k \in Candidates : j <= k) \in Candidates
    BY <2>1
  <2>3. QED
    BY <2>2 DEF FirstGood
<1>4. /\ queues[j] \in Seq(Nat) /\ queues[j] # <<>>
      /\ \A other \in ToSet(queues) : ~InTail(FirstGood, other)
  BY <1>1, <1>3 DEF Candidates, Good
<1>5. FirstGood \in Nat /\ FirstGood \in ToSet(queues[j])
  BY <1>3, <1>4, Tailed
<1>6. j \in DOMAIN Inputs /\ Merged(Inputs[j], queues[j], result)
  BY <1>1, <1>3 DEF MergeInv
<1>7. \A k \in DOMAIN queues : ~InTail(FirstGood, queues[k])
  BY <1>4 DEF ToSet
<1>8. QED
  BY <1>5, <1>6, <1>7 DEF Merged

\* A class is picked.
LEMMA PickStep ==
    ASSUME C3Inv, Pick PROVE C3Inv'
<1> DEFINE x == FirstGood
<1>1. /\ C3Types /\ ListsAgree /\ Ancestors /\ MergeInv /\ Candidates # {}
      /\ ~failed /\ result # <<>>
      /\ result' = Append(result, x)
      /\ queues' = [j \in DOMAIN queues |->
                       IF queues[j] # <<>> /\ Head(queues[j]) = x
                       THEN Tail(queues[j]) ELSE queues[j]]
      /\ UNCHANGED <<parents, cpls, failed>>
  BY DEF C3Inv, Pick, Merging
<1>2. /\ x \in Nat /\ x \notin ToSet(result)
      /\ \A j \in DOMAIN queues : ~InTail(x, queues[j])
      /\ \E j \in DOMAIN Inputs : x \in ToSet(Inputs[j])
  BY <1>1, FirstGoodIs
<1> HIDE DEF x
<1>3. UNCHANGED <<Current, Inputs>>
  BY <1>1 DEF Current, Inputs, ParentCpls
<1>4. /\ Current \in DOMAIN parents /\ Len(parents[Current]) > 1
      /\ DOMAIN queues = DOMAIN Inputs /\ queues \in Seq(Seq(Nat))
      /\ result \in Seq(1 .. Current) /\ result[1] = Current /\ OnceEach(result)
      /\ \A y \in ToSet(result) \ {Current} :
            \E j \in DOMAIN Inputs : y \in ToSet(Inputs[j])
      /\ \A j \in DOMAIN Inputs : Merged(Inputs[j], queues[j], result)
  BY <1>1 DEF MergeInv
<1>5. Current \in Nat /\ Len(cpls) = Current - 1 /\ DOMAIN cpls = 1 .. Current - 1
  BY <1>1, Listed DEF Current
<1>6. result \in Seq(Nat)
  <2>1. 1 .. Current \subseteq Nat
    BY <1>5
  <2>2. QED
    BY <1>4, <2>1, Wider
<1>7. x \in 1 .. Current
  <2>1. PICK j \in DOMAIN Inputs : x \in ToSet(Inputs[j])
    BY <1>2
  <2>2. CASE Inputs[j] = parents[Current]
    <3>1. x \in 1 .. Current - 1
      BY <1>1, <1>4, <2>1, <2>2, Earlier
    <3>2. QED
      BY <1>5, <3>1
  <2>3. CASE Inputs[j] # parents[Current]
    <3>1. PICK p \in ToSet(parents[Current]) : Inputs[j] = cpls[p] /\ p \in DOMAIN cpls
      BY <1>1, <1>4, <2>3, InputsAre
    <3>2. x \in 1 .. p
      BY <1>1, <2>1, <3>1, Listed
    <3>3. QED
      BY <1>5, <3>1, <3>2
  <2>4. QED
    BY <2>2, <2>3
<1>8. /\ result' \in Seq(1 .. Current) /\ result' # <<>>
      /\ result'[1] = Current
      /\ ToSet(result') = ToSet(result) \cup {x} /\ OnceEach(result')
  <2> DEFINE n == Len(result)
  <2>1. n \in Nat /\ n # 0
    BY <1>1, <1>4, EmptySeq, LenProperties
  <2>2. /\ Append(result, x) \in Seq(1 .. Current)
        /\ Len(Append(result, x)) = n + 1
        /\ \A i \in 1 .. n : Append(result, x)[i] = result[i]
    BY <1>4, <1>7, AppendOf
  <2>3. /\ ToSet(Append(result, x)) = ToSet(result) \cup {x}
        /\ OnceEach(Append(result, x))
    BY <1>2, <1>4, <1>6, Appended
  <2> HIDE DEF n
  <2>4. Append(result, x) # <<>> /\ Append(result, x)[1] = result[1]
    BY <2>1, <2>2
  <2>5. QED
    BY <1>1, <1>4, <2>2, <2>3, <2>4
<1>9. \A j \in DOMAIN queues : Merged(Inputs[j], queues'[j], result')
  BY <1>1, <1>2, <1>4, <1>6, PickOf
<1>10. DOMAIN queues' = DOMAIN queues /\ queues' \in Seq(Seq(Nat))
  <2>1. DOMAIN queues' = 1 .. Len(queues) /\ Len(queues) \in Nat
    BY <1>1, <1>4, LenProperties
  <2>2. \A j \in DOMAIN queues' : queues'[j] \in Seq(Nat)
    BY <1>1, <1>9 DEF Merged
  <2> DEFINE n == Len(queues)
  <2>3. queues' \in [1 .. n -> Seq(Nat)]
    BY <1>1, <2>1, <2>2
  <2>4. QED
    BY <1>1, <2>1, <2>3, SeqDef
<1>11. \A y \in ToSet(result') \ {Current} :
          \E j \in DOMAIN Inputs : y \in ToSet(Inputs[j])
  BY <1>2, <1>4, <1>8
<1>12. MergeInv'
  BY <1>1, <1>3, <1>4, <1>8, <1>9, <1>10, <1>11 DEF MergeInv
<1>13. C3Types' /\ ListsAgree' /\ Ancestors'
  BY <1>1 DEF C3Types, ListsAgree, Agrees, Ancestors
<1>14. QED
  BY <1>1, <1>8, <1>12, <1>13 DEF C3Inv

\* No head is good.
LEMMA FailStep ==
    ASSUME C3Inv, Fail PROVE C3Inv'
<1>1. /\ C3Types /\ ListsAgree /\ Ancestors /\ MergeInv /\ Candidates = {}
      /\ result # <<>> /\ \E j \in DOMAIN queues : queues[j] # <<>>
      /\ failed' = TRUE
      /\ UNCHANGED <<parents, cpls, queues, result>>
  BY DEF C3Inv, Fail, Merging
<1>2. UNCHANGED <<Current, Inputs, Candidates>>
  BY <1>1 DEF Current, Inputs, ParentCpls, Candidates, Good
<1>3. MergeInv'
  BY <1>1, <1>2 DEF MergeInv
<1>4. C3Types' /\ ListsAgree' /\ Ancestors'
  BY <1>1 DEF C3Types, ListsAgree, Agrees, Ancestors
<1>5. QED
  BY <1>1, <1>3, <1>4 DEF C3Inv

\* The queues are empty.
LEMMA FinishStep ==
    ASSUME C3Inv, FinishMerge PROVE C3Inv'
<1> DEFINE own == ToSet(parents[Current])
<1>1. /\ C3Types /\ ListsAgree /\ Ancestors /\ MergeInv /\ ~failed
      /\ \A j \in DOMAIN queues : queues[j] = <<>>
      /\ cpls' = Append(cpls, result) /\ result' = <<>>
      /\ UNCHANGED <<parents, failed>>
  BY DEF C3Inv, FinishMerge, Merging
<1>2. Current \in DOMAIN parents /\ result \in Seq(1 .. Current) /\ result # <<>>
  BY <1>1 DEF MergeInv, FinishMerge
<1>3. \A j \in DOMAIN Inputs : /\ ToSet(Inputs[j]) \subseteq ToSet(result)
                               /\ Respects(result, Inputs[j])
  BY <1>1, DoneOf DEF MergeInv
<1>4. /\ \A p \in own : p \in DOMAIN cpls /\ \E j \in DOMAIN Inputs : Inputs[j] = cpls[p]
      /\ \E j \in DOMAIN Inputs : Inputs[j] = parents[Current]
      /\ \A j \in DOMAIN Inputs :
            \/ Inputs[j] = parents[Current]
            \/ \E p \in own : Inputs[j] = cpls[p]
  BY <1>1, <1>2, InputsAre
<1>5. /\ Respects(result, parents[Current])
      /\ \A p \in own : Respects(result, cpls[p])
  BY <1>3, <1>4
<1>6. ToSet(result) = {Current} \cup UNION {ToSet(cpls[p]) : p \in own}
  <2>1. ASSUME NEW x \in ToSet(result), x # Current
        PROVE  \E p \in own : x \in ToSet(cpls[p])
    <3>1. PICK j \in DOMAIN Inputs : x \in ToSet(Inputs[j])
      BY <1>1, <2>1 DEF MergeInv
    <3>2. CASE x \in own
      BY <1>1, <1>4, <3>2, Selves
    <3>3. CASE x \notin own
      BY <1>4, <3>1, <3>3
    <3>4. QED
      BY <3>2, <3>3
  <2>2. Current \in ToSet(result)
    <3>1. 1 \in DOMAIN result /\ result[1] = Current
      <4>1. Len(result) \in Nat \ {0} /\ DOMAIN result = 1 .. Len(result)
        BY <1>2, EmptySeq, LenProperties
      <4>2. QED
        BY <1>1, <4>1 DEF MergeInv
    <3>2. QED
      BY <3>1 DEF ToSet
  <2>3. ASSUME NEW p \in own PROVE ToSet(cpls[p]) \subseteq ToSet(result)
    BY <1>3, <1>4
  <2>4. QED
    BY <2>1, <2>2, <2>3
<1>7. Head(result) = Current /\ OnceEach(result)
  BY <1>1, <1>2 DEF MergeInv
<1>8. Agrees(result, Current)
  BY <1>5, <1>6, <1>7 DEF Agrees
<1>9. C3Types' /\ ListsAgree' /\ Ancestors'
  BY <1>1, <1>2, <1>8, NewList
<1>10. QED
  BY <1>1, <1>9 DEF C3Inv

-----------------------------------------------------------------------------
\* C3Inv is an invariant of the linearisation.
THEOREM C3Invariance == C3Spec => []C3Inv
<1>1. C3Init => C3Inv
  <2> SUFFICES ASSUME C3Init PROVE C3Inv
    OBVIOUS
  <2>1. DOMAIN cpls = {} /\ cpls \in Seq(Seq(Nat))
    BY DEF C3Init
  <2>2. QED
    BY <2>1 DEF C3Init, C3Inv, C3Types, ListsAgree, Ancestors
<1>2. C3Inv /\ [C3Next]_c3Vars => C3Inv'
  <2> SUFFICES ASSUME C3Inv, [C3Next]_c3Vars PROVE C3Inv'
    OBVIOUS
  <2>1. CASE Simple
    BY <2>1, SimpleStep
  <2>2. CASE StartMerge
    BY <2>2, StartStep
  <2>3. CASE Pick
    BY <2>3, PickStep
  <2>4. CASE Fail
    BY <2>4, FailStep
  <2>5. CASE FinishMerge
    BY <2>5, FinishStep
  <2>6. CASE UNCHANGED c3Vars
    <3>1. UNCHANGED <<parents, cpls, queues, result, failed>>
      BY <2>6 DEF c3Vars
    <3>2. UNCHANGED <<Current, Inputs, Candidates>>
      BY <3>1 DEF Current, Inputs, ParentCpls, Candidates, Good
    <3>3. MergeInv => MergeInv'
      BY <3>1, <3>2 DEF MergeInv
    <3>4. (C3Types => C3Types') /\ (ListsAgree => ListsAgree') /\ (Ancestors => Ancestors')
      BY <3>1 DEF C3Types, ListsAgree, Agrees, Ancestors
    <3>5. QED
      BY <3>1, <3>3, <3>4 DEF C3Inv
  <2>7. QED
    BY <2>1, <2>2, <2>3, <2>4, <2>5, <2>6 DEF C3Next
<1>3. QED
  BY <1>1, <1>2, PTL DEF C3Spec

\* The lists that c3_linearise returns have a class's ancestors once each, itself
\* first, and keep the orders of its parents and of their lists.
THEOREM ListsAreC3 == C3Spec => []ListsAgree
BY C3Invariance, PTL DEF C3Inv

\* When no head is good, c3_linearise is right to refuse the class: in any list
\* of the remaining classes, the first is the head of a queue, in no tail.
THEOREM RefusalsAreRight == C3Spec => []RefusedForCause
<1>1. C3Inv => RefusedForCause
  <2> DEFINE orders == ToSet(ParentCpls) \cup {parents[Current]}
             above == UNION {ToSet(o) : o \in orders}
  <2> SUFFICES ASSUME C3Inv, failed, NEW list \in SetToSeqs(above),
                      \A o \in orders : Respects(list, o)
               PROVE  FALSE
    BY DEF RefusedForCause
  <2>1. MergeInv /\ C3Types
    BY DEF C3Inv
  <2>2. orders = ToSet(Inputs)
    BY <2>1, InputsAre DEF MergeInv
  <2>3. \A j \in DOMAIN Inputs : Respects(list, Inputs[j])
    BY <2>2 DEF ToSet
  <2>4. OnceEach(list) /\ DOMAIN list = 1 .. Cardinality(above)
    BY DEF SetToSeqs, OnceEach
  <2>5. PICK j \in DOMAIN queues : queues[j] # <<>>
    BY <2>1 DEF MergeInv
  <2> DEFINE Left == UNION {ToSet(queues[k]) : k \in DOMAIN queues}
             Places == {i \in DOMAIN list : list[i] \in Left}
  <2>6. ASSUME NEW a \in Left, NEW b \in Left, NEW k \in DOMAIN queues,
               Before(queues[k], a, b)
        PROVE  \E u, v \in Places : u < v /\ list[u] = a /\ list[v] = b
    <3>1. k \in DOMAIN Inputs /\ Merged(Inputs[k], queues[k], result)
      BY <2>1 DEF MergeInv
    <3>2. a \in ToSet(queues[k]) /\ b \in ToSet(queues[k])
      BY <2>6 DEF Before, ToSet
    <3>3. a \in ToSet(Inputs[k]) /\ b \in ToSet(Inputs[k]) /\ Before(Inputs[k], a, b)
      BY <2>6, <3>1, <3>2 DEF Merged
    <3>4. Before(list, a, b)
      BY <2>3, <3>1, <3>3 DEF Respects
    <3>5. QED
      BY <3>4 DEF Before
  <2>7. ASSUME NEW b \in Left
        PROVE  \E a \in Left, k \in DOMAIN queues : Before(queues[k], a, b)
    <3>1. PICK k \in DOMAIN queues : b \in ToSet(queues[k])
      OBVIOUS
    <3>2. queues[k] \in Seq(Nat) /\ queues[k] # <<>>
      <4>1. queues[k] \in Seq(Nat)
        BY <2>1 DEF MergeInv
      <4>2. QED
        BY <3>1, <4>1 DEF ToSet
    <3>3. ASSUME NEW l \in DOMAIN queues, InTail(b, queues[l])
          PROVE  \E a \in Left : Before(queues[l], a, b)
      <4>1. queues[l] \in Seq(Nat) /\ queues[l] # <<>>
        BY <2>1, <3>3 DEF MergeInv, InTail
      <4>2. Head(queues[l]) \in ToSet(queues[l]) /\ Before(queues[l], Head(queues[l]), b)
        BY <3>3, <4>1, Tailed DEF InTail
      <4>3. QED
        BY <4>2
    <3>4. CASE b = Head(queues[k])
      <4>1. ~Good(queues[k])
        BY <2>1 DEF MergeInv, Candidates
      <4>2. PICK other \in ToSet(queues) : InTail(b, other)
        BY <3>2, <3>4, <4>1 DEF Good
      <4>3. PICK l \in DOMAIN queues : other = queues[l]
        BY DEF ToSet
      <4>4. QED
        BY <3>3, <4>2, <4>3
    <3>5. CASE b # Head(queues[k])
      <4>1. InTail(b, queues[k])
        BY <3>1, <3>2, <3>5, Tailed DEF InTail
      <4>2. QED
        BY <3>3, <4>1
    <3>6. QED
      BY <3>4, <3>5
  <2>8. \E b \in Left : TRUE
    <3>1. queues[j] \in Seq(Nat)
      BY <2>1 DEF MergeInv
    <3>2. Head(queues[j]) \in ToSet(queues[j])
      BY <2>5, <3>1, Tailed
    <3>3. QED
      BY <3>2
  <2> HIDE DEF Left
  <2>9. Places # {} /\ Places \in SUBSET Nat
    <3>1. PICK a \in Left, b \in Left, k \in DOMAIN queues : Before(queues[k], a, b)
      BY <2>7, <2>8
    <3>2. QED
      BY <2>4, <2>6, <3>1
  <2>10. PICK i \in Places : \A k \in Places : i <= k
    <3> HIDE DEF Places
    <3> QED BY <2>9, SomeLeast
  <2>11. PICK a \in Left, k \in DOMAIN queues : Before(queues[k], a, list[i])
    BY <2>7
  <2>12. PICK u, v \in Places : u < v /\ list[u] = a /\ list[v] = list[i]
    BY <2>6, <2>11
  <2>13. v = i
    BY <2>4, <2>12 DEF OnceEach
  <2>14. QED
    BY <2>4, <2>10, <2>12, <2>13
<1>2. QED
  BY <1>1, C3Invariance, PTL

\* The lists that C3 computes are what dispatch assumes of precedence lists
\* (MethodTable's CplAssumption): this is why a method that is more specific for
\* a class is more specific for its subclasses.
THEOREM ListsServeDispatch == C3Spec => []Linearised(cpls)
<1>1. C3Inv => Linearised(cpls)
  <2> SUFFICES ASSUME C3Inv, NEW c \in DOMAIN cpls
               PROVE  /\ cpls[c] \in Seq(DOMAIN cpls)
                      /\ OnceEach(cpls[c])
                      /\ \A d \in ToSet(cpls[c]) :
                            /\ ToSet(cpls[d]) \subseteq ToSet(cpls[c])
                            /\ Respects(cpls[c], cpls[d])
    BY DEF Linearised
  <2>1. C3Types /\ ListsAgree /\ Ancestors
    BY DEF C3Inv
  <2>2. cpls[c] \in Seq(1 .. c) /\ 1 .. c \subseteq DOMAIN cpls
    <3>1. Len(cpls) \in Nat /\ DOMAIN cpls = 1 .. Len(cpls)
      BY <2>1, Listed
    <3>2. QED
      BY <2>1, <3>1 DEF C3Types
  <2>3. cpls[c] \in Seq(DOMAIN cpls)
    BY <2>2, Wider
  <2>4. QED
    BY <2>1, <2>3 DEF ListsAgree, Agrees, Ancestors
<1>2. QED
  BY <1>1, C3Invariance, PTL

-----------------------------------------------------------------------------
(* Points of a function.                                                     *)

End(i) == Len(f[i].code) + 1

\* The blocks of a function.
LEMMA FunctionIs ==
    ASSUME f \in Functions
    PROVE  /\ Len(f) \in Nat \ {0} /\ DOMAIN f = 1 .. Len(f)
           /\ \A i \in DOMAIN f :
                /\ f[i].params \in SUBSET Temps /\ f[i].uses \in SUBSET Temps
                /\ f[i].successors \in SUBSET DOMAIN f
                /\ Len(f[i].code) \in Nat /\ DOMAIN f[i].code = 1 .. Len(f[i].code)
                /\ \A k \in DOMAIN f[i].code : /\ f[i].code[k].uses \in SUBSET Temps
                                               /\ f[i].code[k].dst \in SUBSET Temps
<1>1. f \in Seq(Block) /\ f # <<>>
      /\ \A i \in DOMAIN f : f[i].successors \subseteq DOMAIN f
  BY LivenessAssumption
<1>2. Len(f) \in Nat \ {0} /\ DOMAIN f = 1 .. Len(f)
  BY <1>1, EmptySeq, LenProperties
<1>3. ASSUME NEW i \in DOMAIN f
      PROVE  /\ f[i].params \in SUBSET Temps /\ f[i].uses \in SUBSET Temps
             /\ f[i].code \in Seq([uses : SUBSET Temps, dst : SUBSET Temps])
  <2>1. f[i] \in Block
    BY <1>1, <1>2, ElementOfSeq
  <2>2. QED
    BY <2>1 DEF Block
<1>4. ASSUME NEW i \in DOMAIN f
      PROVE  /\ Len(f[i].code) \in Nat /\ DOMAIN f[i].code = 1 .. Len(f[i].code)
             /\ \A k \in DOMAIN f[i].code : /\ f[i].code[k].uses \in SUBSET Temps
                                            /\ f[i].code[k].dst \in SUBSET Temps
  <2>1. PICK c \in Seq([uses : SUBSET Temps, dst : SUBSET Temps]) : c = f[i].code
    BY <1>3
  <2>2. Len(c) \in Nat /\ DOMAIN c = 1 .. Len(c)
    BY LenProperties
  <2>3. \A k \in 1 .. Len(c) : c[k] \in [uses : SUBSET Temps, dst : SUBSET Temps]
    BY ElementOfSeq
  <2>4. QED
    BY <2>1, <2>2, <2>3
<1>5. QED
  BY <1>1, <1>2, <1>3, <1>4

\* The points are those of the blocks.
LEMMA PointsAre ==
    ASSUME f \in Functions
    PROVE  /\ \A i \in DOMAIN f : End(i) \in Nat \ {0}
           /\ \A i \in DOMAIN f : \A k \in 0 .. End(i) : <<i, k>> \in Points
           /\ \A p \in Points : \E i \in DOMAIN f : \E k \in 0 .. End(i) : p = <<i, k>>
           /\ IsFiniteSet(Points)
<1>1. \A i \in DOMAIN f : End(i) \in Nat \ {0}
  BY FunctionIs DEF End
<1> DEFINE PointsOf(i) == {<<i, k>> : k \in 0 .. End(i)}
           Blocks == {PointsOf(i) : i \in DOMAIN f}
<1>2. Points = UNION Blocks
  BY DEF Points, End
<1>3. IsFiniteSet(Blocks)
  <2> DEFINE g == [i \in DOMAIN f |-> PointsOf(i)]
  <2>1. g \in Surjection(DOMAIN f, Blocks)
    BY DEF Surjection
  <2>2. IsFiniteSet(DOMAIN f)
    BY FunctionIs, FS_Interval
  <2> HIDE DEF g, Blocks
  <2>3. QED
    BY <2>1, <2>2, FS_Surjection
<1>4. ASSUME NEW T \in Blocks PROVE IsFiniteSet(T)
  <2>1. PICK i \in DOMAIN f : T = PointsOf(i)
    OBVIOUS
  <2> DEFINE g == [k \in 0 .. End(i) |-> <<i, k>>]
  <2>2. g \in Surjection(0 .. End(i), T)
    BY <2>1 DEF Surjection
  <2>3. IsFiniteSet(0 .. End(i))
    BY <1>1, FS_Interval
  <2> HIDE DEF g, Blocks
  <2>4. QED
    BY <2>2, <2>3, FS_Surjection
<1>5. IsFiniteSet(Points)
  <2> HIDE DEF Blocks
  <2> QED BY <1>2, <1>3, <1>4, FS_UNION
<1>6. QED
  BY <1>1, <1>2, <1>5

\* What a point uses and assigns, and the points after it.
LEMMA PointIs ==
    ASSUME f \in Functions, NEW i \in DOMAIN f
    PROVE  /\ /\ Uses(<<i, 0>>) = {} /\ Assigns(<<i, 0>>) = f[i].params
              /\ After(<<i, 0>>) = {<<i, 1>>}
           /\ /\ Uses(<<i, End(i)>>) = f[i].uses /\ Assigns(<<i, End(i)>>) = {}
              /\ After(<<i, End(i)>>) = {<<s, 0>> : s \in f[i].successors}
           /\ \A k \in DOMAIN f[i].code :
                /\ Uses(<<i, k>>) = f[i].code[k].uses
                /\ Assigns(<<i, k>>) = f[i].code[k].dst
                /\ After(<<i, k>>) = {<<i, k + 1>>}
<1>1. Len(f[i].code) \in Nat /\ DOMAIN f[i].code = 1 .. Len(f[i].code)
  BY FunctionIs
<1>2. End(i) # 0 /\ \A k \in DOMAIN f[i].code : k # 0 /\ k # End(i)
  BY <1>1 DEF End
<1>3. /\ IsTerminator(<<i, End(i)>>) /\ ~IsTerminator(<<i, 0>>)
      /\ \A k \in DOMAIN f[i].code : ~IsTerminator(<<i, k>>)
  BY <1>2 DEF IsTerminator, End
<1>4. Uses(<<i, 0>>) = {} /\ Assigns(<<i, 0>>) = f[i].params
      /\ After(<<i, 0>>) = {<<i, 1>>}
  BY <1>3 DEF Uses, Assigns, After
<1>5. Uses(<<i, End(i)>>) = f[i].uses /\ Assigns(<<i, End(i)>>) = {}
      /\ After(<<i, End(i)>>) = {<<s, 0>> : s \in f[i].successors}
  BY <1>2, <1>3 DEF Uses, Assigns, After
<1>6. ASSUME NEW k \in DOMAIN f[i].code
      PROVE  /\ Uses(<<i, k>>) = f[i].code[k].uses
             /\ Assigns(<<i, k>>) = f[i].code[k].dst
             /\ After(<<i, k>>) = {<<i, k + 1>>}
  BY <1>2, <1>3 DEF Uses, Assigns, After
<1>7. QED
  BY <1>4, <1>5, <1>6

-----------------------------------------------------------------------------
(* Reaching a use.                                                           *)

\* S has the uses of t, and the points from which one gets to it without
\* assigning t.
Backward(t, S) ==
    /\ S \subseteq Points
    /\ \A p \in Points :
          \/ t \in Uses(p)
          \/ t \notin Assigns(p) /\ After(p) \cap S # {}
          => p \in S

\* A chain of subsets of a finite set grows no longer than the set has members.
LEMMA ChainStops ==
    ASSUME NEW P, IsFiniteSet(P), NEW w \in [0 .. Cardinality(P) -> SUBSET P],
           \A n \in 1 .. Cardinality(P) : w[n - 1] \subseteq w[n]
    PROVE  \/ w[Cardinality(P)] = P
           \/ \E n \in 1 .. Cardinality(P) : w[n] = w[n - 1]
<1> DEFINE N == Cardinality(P)
<1>1. N \in Nat
  BY FS_CardinalityType
<1> SUFFICES ASSUME \A n \in 1 .. N : w[n] # w[n - 1] PROVE w[N] = P
  OBVIOUS
<1>2. ASSUME NEW n \in 0 .. N
      PROVE  IsFiniteSet(w[n]) /\ Cardinality(w[n]) \in Nat
             /\ Cardinality(w[n]) <= N /\ (Cardinality(w[n]) = N => w[n] = P)
  BY FS_Subset, FS_CardinalityType
<1>3. ASSUME NEW n \in 1 .. N
      PROVE  Cardinality(w[n - 1]) < Cardinality(w[n])
  <2>1. n \in 0 .. N /\ n - 1 \in 0 .. N
    BY <1>1
  <2>2. w[n - 1] \in SUBSET w[n] /\ w[n - 1] # w[n]
    BY <2>1
  <2>3. /\ Cardinality(w[n - 1]) <= Cardinality(w[n])
        /\ Cardinality(w[n - 1]) # Cardinality(w[n])
    BY <1>2, <2>1, <2>2, FS_Subset
  <2>4. QED
    BY <1>2, <2>1, <2>3
<1>4. \A n \in 0 .. N : n <= Cardinality(w[n])
  <2> DEFINE Bad == {n \in 0 .. N : ~(n <= Cardinality(w[n]))}
  <2> SUFFICES ASSUME Bad # {} PROVE FALSE
    OBVIOUS
  <2>1. PICK n \in Bad : \A j \in Bad : n <= j
    <3>1. Bad \in SUBSET Nat
      BY <1>1
    <3> HIDE DEF Bad
    <3> QED BY <3>1, SomeLeast
  <2>2. n \in 0 .. N /\ n # 0 /\ n \in 1 .. N
    <3>1. n # 0
      BY <1>1, <1>2
    <3>2. QED
      BY <1>1, <3>1
  <2>3. n - 1 \in 0 .. N /\ ~(n <= n - 1)
    BY <1>1, <2>2
  <2>4. n - 1 \notin Bad
    <3> HIDE DEF Bad
    <3> QED BY <2>1, <2>3
  <2>5. n - 1 <= Cardinality(w[n - 1])
    BY <2>3, <2>4
  <2>6. Cardinality(w[n - 1]) \in Nat /\ Cardinality(w[n]) \in Nat
    BY <1>2, <2>2, <2>3
  <2>7. n <= Cardinality(w[n])
    BY <1>3, <2>2, <2>5, <2>6
  <2>8. QED
    BY <2>1, <2>7
<1>5. N \in 0 .. N
  BY <1>1
<1>6. Cardinality(w[N]) = N
  BY <1>1, <1>2, <1>4, <1>5
<1>7. QED
  BY <1>2, <1>5, <1>6

Further(t, seen) ==
    seen \cup {p \in Points : t \notin Assigns(p) /\ After(p) \cap seen # {}}

\* The rounds of ReachUse are as many as its definition says.
LEMMA Rounds ==
    ASSUME f \in Functions, NEW t
    PROVE  \E w \in [0 .. Cardinality(Points) -> SUBSET Points] :
             /\ ReachUse(t) = w[Cardinality(Points)]
             /\ w[0] = {p \in Points : t \in Uses(p)}
             /\ \A n \in 1 .. Cardinality(Points) : w[n] = Further(t, w[n - 1])
<1> DEFINE base == {p \in Points : t \in Uses(p)}
           Grows(g, i) ==
               g = [n \in 0 .. i |->
                      IF n = 0 THEN base
                      ELSE g[n - 1] \cup {p \in Points : /\ t \notin Assigns(p)
                                                       /\ After(p) \cap g[n - 1] # {}}]
           N == Cardinality(Points)
           within == CHOOSE g : Grows(g, N)
<1>0. N \in Nat
  BY PointsAre, FS_CardinalityType
<1>1. \A i \in Nat : \E g : Grows(g, i)
  <2> DEFINE Bad == {i \in Nat : ~\E g : Grows(g, i)}
  <2> SUFFICES ASSUME Bad # {} PROVE FALSE
    OBVIOUS
  <2>1. PICK i \in Bad : \A j \in Bad : i <= j
    <3>1. Bad \in SUBSET Nat
      OBVIOUS
    <3> HIDE DEF Bad
    <3> QED BY <3>1, SomeLeast
  <2>2. i \in Nat /\ ~\E g : Grows(g, i)
    OBVIOUS
  <2>3. CASE i = 0
    <3>1. Grows([n \in 0 .. 0 |-> base], 0)
      OBVIOUS
    <3>2. QED
      BY <3>1, <2>2, <2>3
  <2>4. CASE i # 0
    <3>1. i - 1 \in Nat /\ ~(i <= i - 1)
      BY <2>2, <2>4
    <3>2. i - 1 \notin Bad
      <4> HIDE DEF Bad
      <4> QED BY <3>1, <2>1
    <3>3. PICK g : Grows(g, i - 1)
      BY <3>1, <3>2
    <3> DEFINE h == [n \in 0 .. i |-> IF n = i THEN Further(t, g[i - 1]) ELSE g[n]]
    <3>4. Grows(h, i)
      <4>1. ASSUME NEW n \in 0 .. i
            PROVE  h[n] = IF n = 0 THEN base ELSE Further(t, h[n - 1])
        <5>1. CASE n = i
          BY <5>1, <2>2, <2>4
        <5>2. CASE n # i
          <6>1. n \in 0 .. i - 1 /\ (n # 0 => n - 1 \in 0 .. i /\ n - 1 # i)
            BY <5>2, <2>2
          <6>2. h[n] = g[n]
            BY <5>2
          <6>3. n # 0 => h[n - 1] = g[n - 1]
            BY <6>1
          <6>4. g[n] = IF n = 0 THEN base ELSE Further(t, g[n - 1])
            BY <3>3, <6>1 DEF Further
          <6>5. QED
            BY <6>2, <6>3, <6>4
        <5>3. QED
          BY <5>1, <5>2
      <4>2. QED
        BY <4>1 DEF Further
    <3>5. QED
      BY <3>4, <2>2
  <2>5. QED
    BY <2>3, <2>4
<1>2. Grows(within, N)
  BY <1>0, <1>1
<1>3. ReachUse(t) = within[N]
  BY DEF ReachUse
<1>4. within[0] = base
      /\ \A n \in 1 .. N : within[n] = Further(t, within[n - 1])
  <2> DEFINE step(n) == IF n = 0 THEN base ELSE Further(t, within[n - 1])
  <2>1. within = [n \in 0 .. N |-> step(n)]
    BY <1>2 DEF Further
  <2>2. \A n \in 0 .. N : within[n] = step(n)
    <3> HIDE DEF step, within
    <3> QED BY <2>1
  <2>3. 0 \in 0 .. N /\ \A n \in 1 .. N : n \in 0 .. N /\ n # 0
    BY <1>0
  <2> HIDE DEF within, N, base
  <2>4. QED
    BY <2>2, <2>3
<1>5. DOMAIN within = 0 .. N
  BY <1>2
<1> HIDE DEF within
<1>6. \A n \in 0 .. N : within[n] \in SUBSET Points
  <2> DEFINE Bad == {n \in 0 .. N : within[n] \notin SUBSET Points}
  <2> SUFFICES ASSUME Bad # {} PROVE FALSE
    OBVIOUS
  <2>1. PICK n \in Bad : \A j \in Bad : n <= j
    <3>1. Bad \in SUBSET Nat
      BY <1>0
    <3> HIDE DEF Bad
    <3> QED BY <3>1, SomeLeast
  <2>2. n \in 1 .. N
    <3>1. n # 0
      BY <1>4
    <3>2. QED
      BY <1>0, <3>1
  <2>3. n - 1 \in 0 .. N /\ ~(n <= n - 1)
    BY <1>0, <2>2
  <2>4. n - 1 \notin Bad
    <3> HIDE DEF Bad
    <3> QED BY <2>1, <2>3
  <2>5. QED
    BY <1>4, <2>1, <2>2, <2>3, <2>4 DEF Further
<1>7. within \in [0 .. N -> SUBSET Points]
  <2>1. within = [n \in 0 .. N |-> within[n]]
    BY <1>2 DEF within
  <2>2. QED
    BY <1>6, <2>1
<1>8. QED
  BY <1>3, <1>4, <1>7

\* ReachUse is the least set that has the uses of t and is closed backwards.
LEMMA ReachIs ==
    ASSUME f \in Functions, NEW t
    PROVE  /\ Backward(t, ReachUse(t))
           /\ \A S : Backward(t, S) => ReachUse(t) \subseteq S
<1> DEFINE N == Cardinality(Points)
<1>0. N \in Nat /\ IsFiniteSet(Points)
  BY PointsAre, FS_CardinalityType
<1>1. PICK w \in [0 .. N -> SUBSET Points] :
             /\ ReachUse(t) = w[N]
             /\ w[0] = {p \in Points : t \in Uses(p)}
             /\ \A n \in 1 .. N : w[n] = Further(t, w[n - 1])
  BY Rounds
<1>2. \A n \in 1 .. N : w[n - 1] \subseteq w[n]
  BY <1>1 DEF Further
<1>3. \A n \in 0 .. N : w[0] \subseteq w[n]
  <2> DEFINE Bad == {n \in 0 .. N : ~(w[0] \subseteq w[n])}
  <2> SUFFICES ASSUME Bad # {} PROVE FALSE
    OBVIOUS
  <2>1. PICK n \in Bad : \A j \in Bad : n <= j
    <3>1. Bad \in SUBSET Nat
      BY <1>0
    <3> HIDE DEF Bad
    <3> QED BY <3>1, SomeLeast
  <2>2. n \in 1 .. N /\ n - 1 \in 0 .. N /\ ~(n <= n - 1)
    BY <1>0
  <2>3. n - 1 \notin Bad
    <3> HIDE DEF Bad
    <3> QED BY <2>1, <2>2
  <2>4. QED
    BY <1>2, <2>1, <2>2, <2>3
<1>4. w[N] = Points \/ \E n \in 1 .. N : w[n] = w[n - 1]
  <2> HIDE DEF N
  <2> QED BY <1>0, <1>2, ChainStops DEF N
<1>5. Further(t, w[N]) = w[N]
  <2>1. CASE w[N] = Points
    BY <2>1 DEF Further
  <2>2. ASSUME NEW m \in 1 .. N, w[m] = w[m - 1] PROVE Further(t, w[N]) = w[N]
    <3>1. \A n \in m .. N : w[n] = w[m - 1]
      <4> DEFINE Bad == {n \in m .. N : w[n] # w[m - 1]}
      <4> SUFFICES ASSUME Bad # {} PROVE FALSE
        OBVIOUS
      <4>1. PICK n \in Bad : \A j \in Bad : n <= j
        <5>1. Bad \in SUBSET Nat
          BY <1>0
        <5> HIDE DEF Bad
        <5> QED BY <5>1, SomeLeast
      <4>2. n # m /\ n \in m .. N
        BY <2>2
      <4>3. n - 1 \in m .. N /\ ~(n <= n - 1) /\ n \in 1 .. N
        BY <1>0, <4>2
      <4>4. n - 1 \notin Bad
        <5> HIDE DEF Bad
        <5> QED BY <4>1, <4>3
      <4>5. w[n - 1] = w[m - 1]
        BY <4>3, <4>4
      <4>6. w[n] = w[m]
        BY <1>1, <4>3, <4>5
      <4>7. QED
        BY <4>6, <2>2
    <3>2. N \in m .. N
      BY <1>0
    <3>3. w[N] = w[m - 1]
      BY <3>1, <3>2
    <3>4. Further(t, w[m - 1]) = w[m]
      BY <1>1
    <3>5. QED
      BY <3>3, <3>4, <2>2
  <2>3. QED
    BY <1>4, <2>1, <2>2
<1>6. Backward(t, ReachUse(t))
  <2>1. N \in 0 .. N
    BY <1>0
  <2>2. w[N] \in SUBSET Points /\ w[0] \subseteq w[N]
    BY <1>1, <1>3, <2>1
  <2> HIDE DEF N
  <2>3. QED
    BY <1>1, <1>5, <2>2 DEF Further, Backward
<1>7. ASSUME NEW S, Backward(t, S) PROVE ReachUse(t) \subseteq S
  <2>1. \A n \in 0 .. N : w[n] \subseteq S
    <3> DEFINE Bad == {n \in 0 .. N : ~(w[n] \subseteq S)}
    <3> SUFFICES ASSUME Bad # {} PROVE FALSE
      OBVIOUS
    <3>1. PICK n \in Bad : \A j \in Bad : n <= j
      <4>1. Bad \in SUBSET Nat
        BY <1>0
      <4> HIDE DEF Bad
      <4> QED BY <4>1, SomeLeast
    <3>2. n # 0 /\ n \in 0 .. N
      BY <1>1, <1>7 DEF Backward
    <3>3. n \in 1 .. N /\ n - 1 \in 0 .. N /\ ~(n <= n - 1)
      BY <1>0, <3>2
    <3>4. n - 1 \notin Bad
      <4> HIDE DEF Bad
      <4> QED BY <3>1, <3>3
    <3>5. w[n - 1] \subseteq S
      BY <3>3, <3>4
    <3>6. w[n] = Further(t, w[n - 1])
      BY <1>1, <3>3
    <3>7. w[n] \subseteq S
      BY <3>5, <3>6, <1>7 DEF Further, Backward
    <3>8. QED
      BY <3>1, <3>7
  <2>2. N \in 0 .. N
    BY <1>0
  <2>3. QED
    BY <1>1, <2>1, <2>2
<1>8. QED
  BY <1>6, <1>7

-----------------------------------------------------------------------------
(* Liveness inside a block.                                                  *)

Unassigned(i, k, m, t) == \A n \in k .. m - 1 : t \notin Assigns(<<i, n>>)

\* t is live before point k of block i, when out is live behind the block.
LiveAt(out, i, k, t) ==
    \/ \E m \in DOMAIN f[i].code :
          k <= m /\ t \in f[i].code[m].uses /\ Unassigned(i, k, m, t)
    \/ t \in f[i].uses \cup out /\ Unassigned(i, k, End(i), t)

\* One point back.
LEMMA OneBack ==
    ASSUME f \in Functions, NEW i \in DOMAIN f, NEW t, NEW out
    PROVE  /\ LiveAt(out, i, End(i), t) <=> t \in f[i].uses \cup out
           /\ LiveAt(out, i, 0, t) <=> t \notin f[i].params /\ LiveAt(out, i, 1, t)
           /\ \A k \in DOMAIN f[i].code :
                LiveAt(out, i, k, t) <=>
                    \/ t \in f[i].code[k].uses
                    \/ t \notin f[i].code[k].dst /\ LiveAt(out, i, k + 1, t)
<1>1. Len(f[i].code) \in Nat /\ DOMAIN f[i].code = 1 .. Len(f[i].code)
  BY FunctionIs
<1>2. End(i) \in Nat /\ End(i) = Len(f[i].code) + 1
  BY <1>1 DEF End
<1>3. ASSUME NEW k \in Nat, NEW m \in Nat, k < m
      PROVE  Unassigned(i, k, m, t) <=>
                 t \notin Assigns(<<i, k>>) /\ Unassigned(i, k + 1, m, t)
  <2>1. k .. m - 1 = {k} \cup (k + 1 .. m - 1)
    BY <1>3
  <2>2. QED
    BY <2>1 DEF Unassigned
<1>4. ASSUME NEW m \in Nat PROVE Unassigned(i, m, m, t)
  BY DEF Unassigned
<1>5. LiveAt(out, i, End(i), t) <=> t \in f[i].uses \cup out
  <2>1. \A m \in DOMAIN f[i].code : ~(End(i) <= m)
    BY <1>1, <1>2
  <2>2. QED
    BY <2>1, <1>2, <1>4 DEF LiveAt
<1>6. LiveAt(out, i, 0, t) <=> t \notin f[i].params /\ LiveAt(out, i, 1, t)
  <2>1. Assigns(<<i, 0>>) = f[i].params
    BY PointIs
  <2>2. \A m \in DOMAIN f[i].code :
          /\ m \in Nat /\ 0 <= m /\ 1 <= m
          /\ Unassigned(i, 0, m, t) <=> t \notin f[i].params /\ Unassigned(i, 1, m, t)
    <3> TAKE m \in DOMAIN f[i].code
    <3>1. m \in Nat /\ 0 < m /\ 0 <= m /\ 1 <= m
      BY <1>1
    <3>2. QED
      BY <3>1, <2>1, <1>3
  <2>3. Unassigned(i, 0, End(i), t)
            <=> t \notin f[i].params /\ Unassigned(i, 1, End(i), t)
    <3>1. 0 < End(i)
      BY <1>1, <1>2
    <3>2. QED
      BY <3>1, <2>1, <1>2, <1>3
  <2>4. QED
    BY <2>2, <2>3 DEF LiveAt
<1>7. ASSUME NEW k \in DOMAIN f[i].code
      PROVE  LiveAt(out, i, k, t) <=>
                 \/ t \in f[i].code[k].uses
                 \/ t \notin f[i].code[k].dst /\ LiveAt(out, i, k + 1, t)
  <2>1. Assigns(<<i, k>>) = f[i].code[k].dst
    BY PointIs
  <2>2. k \in Nat /\ k < End(i)
    BY <1>1, <1>2
  <2>3. Unassigned(i, k, End(i), t)
            <=> t \notin f[i].code[k].dst /\ Unassigned(i, k + 1, End(i), t)
    BY <2>1, <2>2, <1>2, <1>3
  <2>4. \A m \in DOMAIN f[i].code :
          /\ k <= m <=> (m = k \/ k + 1 <= m)
          /\ k + 1 <= m =>
               (Unassigned(i, k, m, t)
                  <=> t \notin f[i].code[k].dst /\ Unassigned(i, k + 1, m, t))
    <3> TAKE m \in DOMAIN f[i].code
    <3>1. m \in Nat /\ (k <= m <=> (m = k \/ k + 1 <= m)) /\ (k + 1 <= m => k < m)
      BY <1>1, <2>2
    <3>2. QED
      BY <3>1, <2>1, <2>2, <1>3
  <2>5. Unassigned(i, k, k, t)
    BY <2>2, <1>4
  <2>6. k <= k /\ ~(k + 1 <= k)
    BY <2>2
  <2>7. QED
    BY <2>3, <2>4, <2>5, <2>6 DEF LiveAt
<1>8. QED
  BY <1>5, <1>6, <1>7

\* What is live at the start of a block is what the analysis computes.
LEMMA LiveAtStart ==
    ASSUME f \in Functions, NEW i \in DOMAIN f, NEW t, NEW out
    PROVE  LiveAt(out, i, 0, t) <=> t \in Gen(f[i]) \cup (out \ Kill(f[i]))
<1>1. Len(f[i].code) \in Nat /\ DOMAIN f[i].code = 1 .. Len(f[i].code)
  BY FunctionIs
<1>2. ASSUME NEW m \in 1 .. End(i)
      PROVE  Unassigned(i, 0, m, t) <=> t \notin Defined(f[i], m)
  <2>1. 0 .. m - 1 = {0} \cup (1 .. m - 1) /\ 1 .. m - 1 \subseteq DOMAIN f[i].code
    BY <1>1 DEF End
  <2>2. \A n \in 1 .. m - 1 : Assigns(<<i, n>>) = f[i].code[n].dst
    BY <2>1, PointIs
  <2>3. Assigns(<<i, 0>>) = f[i].params
    BY PointIs
  <2>4. t \in Defined(f[i], m)
            <=> t \in f[i].params \/ \E n \in 1 .. m - 1 : t \in f[i].code[n].dst
    BY DEF Defined
  <2>5. QED
    BY <2>1, <2>2, <2>3, <2>4 DEF Unassigned
<1>3. End(i) \in 1 .. End(i) /\ DOMAIN f[i].code \subseteq 1 .. End(i)
      /\ \A m \in DOMAIN f[i].code : 0 <= m
  BY <1>1 DEF End
<1>4. Unassigned(i, 0, End(i), t) <=> t \notin Kill(f[i])
  <2>1. Kill(f[i]) = Defined(f[i], End(i))
    BY DEF Kill, End
  <2>2. QED
    BY <2>1, <1>2, <1>3
<1>5. t \in Gen(f[i])
        <=> \/ t \in f[i].uses /\ t \notin Kill(f[i])
            \/ \E m \in DOMAIN f[i].code :
                  t \in f[i].code[m].uses /\ t \notin Defined(f[i], m)
  BY DEF Gen
<1>6. QED
  BY <1>2, <1>3, <1>4, <1>5 DEF LiveAt

\* From what is live behind a block, one gets to a use.
LEMMA LiveReaches ==
    ASSUME f \in Functions, NEW i \in DOMAIN f, NEW t, NEW out, NEW S,
           Backward(t, S), t \in out => \E s \in f[i].successors : <<s, 0>> \in S
    PROVE  \A k \in 0 .. End(i) : LiveAt(out, i, k, t) => <<i, k>> \in S
<1> DEFINE Bad == {n \in 0 .. End(i) : LiveAt(out, i, End(i) - n, t)
                                       /\ <<i, End(i) - n>> \notin S}
<1>0. /\ Len(f[i].code) \in Nat /\ DOMAIN f[i].code = 1 .. Len(f[i].code)
      /\ End(i) \in Nat /\ End(i) = Len(f[i].code) + 1
  BY FunctionIs DEF End
<1>1. SUFFICES Bad = {}
  <2>1. \A k \in 0 .. End(i) : End(i) - k \in 0 .. End(i) /\ End(i) - (End(i) - k) = k
    BY <1>0
  <2>2. QED
    BY <2>1
<1> SUFFICES ASSUME Bad # {} PROVE FALSE
  OBVIOUS
<1>2. PICK n \in Bad : \A j \in Bad : n <= j
  <2>1. Bad \in SUBSET Nat
    BY <1>0
  <2> HIDE DEF Bad
  <2> QED BY <2>1, SomeLeast
<1> DEFINE k == End(i) - n
<1>3. k \in 0 .. End(i) /\ LiveAt(out, i, k, t) /\ <<i, k>> \notin S
  BY <1>0
<1>4. \A p \in Points : t \in Uses(p) \/ (t \notin Assigns(p) /\ After(p) \cap S # {})
                          => p \in S
  BY DEF Backward
<1>5. <<i, k>> \in Points
  BY <1>3, PointsAre
<1>6. k # End(i) => (LiveAt(out, i, k + 1, t) => <<i, k + 1>> \in S)
  <2> SUFFICES ASSUME k # End(i) PROVE LiveAt(out, i, k + 1, t) => <<i, k + 1>> \in S
    OBVIOUS
  <2>1. n - 1 \in 0 .. End(i) /\ ~(n <= n - 1) /\ End(i) - (n - 1) = k + 1
    BY <1>0
  <2>2. n - 1 \notin Bad
    <3> HIDE DEF Bad
    <3> QED BY <1>2, <2>1
  <2>3. QED
    BY <2>1, <2>2
<1> HIDE DEF Bad, k
<1>7. CASE k = End(i)
  <2>1. t \in f[i].uses \/ t \in out
    BY <1>3, <1>7, OneBack
  <2>2. /\ Uses(<<i, k>>) = f[i].uses /\ Assigns(<<i, k>>) = {}
        /\ After(<<i, k>>) = {<<s, 0>> : s \in f[i].successors}
    BY <1>7, PointIs
  <2>3. t \in out => After(<<i, k>>) \cap S # {}
    BY <2>2
  <2>4. QED
    BY <1>3, <1>4, <1>5, <2>1, <2>2, <2>3
<1>8. CASE k = 0
  <2>1. t \notin f[i].params /\ LiveAt(out, i, k + 1, t) /\ k # End(i)
    BY <1>0, <1>3, <1>8, OneBack
  <2>2. Assigns(<<i, k>>) = f[i].params /\ After(<<i, k>>) = {<<i, k + 1>>}
    <3>1. Assigns(<<i, 0>>) = f[i].params /\ After(<<i, 0>>) = {<<i, 1>>}
      BY PointIs
    <3>2. QED
      BY <3>1, <1>8
  <2>3. QED
    BY <1>3, <1>4, <1>5, <1>6, <2>1, <2>2
<1>9. CASE k \in DOMAIN f[i].code
  <2>1. \/ t \in f[i].code[k].uses
        \/ t \notin f[i].code[k].dst /\ LiveAt(out, i, k + 1, t)
    BY <1>3, <1>9, OneBack
  <2>2. /\ Uses(<<i, k>>) = f[i].code[k].uses /\ Assigns(<<i, k>>) = f[i].code[k].dst
        /\ After(<<i, k>>) = {<<i, k + 1>>}
    BY <1>9, PointIs
  <2>3. k # End(i)
    BY <1>0, <1>9
  <2>4. QED
    BY <1>3, <1>4, <1>5, <1>6, <2>1, <2>2, <2>3
<1>10. QED
  BY <1>0, <1>3, <1>7, <1>8, <1>9

-----------------------------------------------------------------------------
(* The invariant of the analysis.                                            *)

Out(i) == UNION {liveIn[s] : s \in f[i].successors}

TypeInv ==
    /\ f \in Functions
    /\ liveIn \in [DOMAIN f -> SUBSET Temps] /\ liveOut \in [DOMAIN f -> SUBSET Temps]
    /\ at \in 0 .. Len(f) /\ changed \in BOOLEAN

\* Nothing is taken for live that reaches no use.
SoundInv ==
    \A t \in Temps : \A S \in SUBSET Points :
        Backward(t, S) =>
            \A i \in DOMAIN f :
                /\ t \in liveIn[i] => <<i, 0>> \in S
                /\ t \in liveOut[i] => \E s \in f[i].successors : <<s, 0>> \in S

\* A round that has changed nothing so far leaves solved equations behind it.
RoundInv ==
    ~changed =>
        \A i \in DOMAIN f :
            i > at => /\ liveOut[i] = Out(i)
                      /\ liveIn[i] = Gen(f[i]) \cup (liveOut[i] \ Kill(f[i]))

AnalysisInv == TypeInv /\ SoundInv /\ RoundInv

\* The first round finds the invariant.
LEMMA AnalysisInit == LivenessInit => AnalysisInv
<1> SUFFICES ASSUME LivenessInit PROVE AnalysisInv
  OBVIOUS
<1>1. Len(f) \in Nat /\ DOMAIN f = 1 .. Len(f)
  BY FunctionIs DEF LivenessInit
<1>2. TypeInv
  <2>1. liveIn \in [DOMAIN f -> SUBSET Temps] /\ liveOut \in [DOMAIN f -> SUBSET Temps]
    BY DEF LivenessInit
  <2>2. at \in 0 .. Len(f)
    BY <1>1 DEF LivenessInit
  <2>3. f \in Functions /\ changed \in BOOLEAN
    BY DEF LivenessInit
  <2>4. QED
    BY <2>1, <2>2, <2>3 DEF TypeInv
<1>3. SoundInv
  BY DEF SoundInv, LivenessInit
<1>4. RoundInv
  BY <1>1 DEF RoundInv, LivenessInit
<1>5. QED
  BY <1>2, <1>3, <1>4 DEF AnalysisInv

\* The temps a block starts with are temps.
LEMMA StartIsOfTemps ==
    ASSUME f \in Functions, NEW i \in DOMAIN f
    PROVE  Gen(f[i]) \in SUBSET Temps
<1> QED BY FunctionIs DEF Gen

\* The paths are those of the function.
LEMMA SameFunction ==
    ASSUME f' = f
    PROVE  Points' = Points /\ \A t, S : Backward(t, S)' <=> Backward(t, S)
<1>1. Points' = Points
  BY DEF Points
<1>2. ASSUME NEW p
      PROVE  Uses(p)' = Uses(p) /\ Assigns(p)' = Assigns(p) /\ After(p)' = After(p)
  <2>1. IsTerminator(p)' <=> IsTerminator(p)
    BY DEF IsTerminator
  <2>2. After(p)' = After(p)
    BY <2>1 DEF After
  <2>3. Uses(p)' = Uses(p)
    BY <2>1 DEF Uses
  <2>4. Assigns(p)' = Assigns(p)
    BY <2>1 DEF Assigns
  <2>5. QED
    BY <2>2, <2>3, <2>4
<1>3. QED
  BY <1>1, <1>2 DEF Backward

\* A visit to a block keeps the invariant.
LEMMA VisitKeeps == AnalysisInv /\ Visit => AnalysisInv'
<1> SUFFICES ASSUME AnalysisInv, Visit PROVE AnalysisInv'
  OBVIOUS
<1> DEFINE out == Out(at)
           in == Gen(f[at]) \cup (out \ Kill(f[at]))
<1>1. /\ at # 0 /\ at' = at - 1 /\ f' = f
      /\ liveOut' = [liveOut EXCEPT ![at] = out]
      /\ liveIn' = [liveIn EXCEPT ![at] = in]
      /\ changed' = (changed \/ out # liveOut[at] \/ in # liveIn[at])
  BY DEF Visit, Out
<1>2. TypeInv /\ SoundInv /\ RoundInv
  BY DEF AnalysisInv
<1>3. f \in Functions /\ Len(f) \in Nat /\ DOMAIN f = 1 .. Len(f) /\ at \in DOMAIN f
      /\ f[at].successors \subseteq DOMAIN f
  BY <1>1, <1>2, FunctionIs DEF TypeInv
<1>4. out \in SUBSET Temps /\ in \in SUBSET Temps
  <2>1. out \in SUBSET Temps
    BY <1>2, <1>3 DEF TypeInv, Out
  <2>2. QED
    BY <2>1, <1>3, StartIsOfTemps
<1>5. TypeInv'
  <2>1. at' \in 0 .. Len(f)
    BY <1>1, <1>2, <1>3 DEF TypeInv
  <2> HIDE DEF out, in
  <2>2. QED
    BY <2>1, <1>1, <1>2, <1>3, <1>4 DEF TypeInv
<1>6. SoundInv'
  <2> SUFFICES ASSUME NEW t \in Temps, NEW S \in SUBSET Points, Backward(t, S),
                      NEW i \in DOMAIN f
               PROVE  /\ t \in liveIn'[i] => <<i, 0>> \in S
                      /\ t \in liveOut'[i] => \E s \in f[i].successors : <<s, 0>> \in S
    BY <1>1, SameFunction DEF SoundInv
  <2>1. \A j \in DOMAIN f :
          /\ t \in liveIn[j] => <<j, 0>> \in S
          /\ t \in liveOut[j] => \E s \in f[j].successors : <<s, 0>> \in S
    BY <1>2 DEF SoundInv
  <2>2. t \in out => \E s \in f[at].successors : <<s, 0>> \in S
    BY <2>1, <1>3 DEF Out
  <2>3. t \in in => <<at, 0>> \in S
    <3> HIDE DEF out
    <3>1. t \in in => LiveAt(out, at, 0, t)
      BY <1>3, LiveAtStart
    <3>2. \A k \in 0 .. End(at) : LiveAt(out, at, k, t) => <<at, k>> \in S
      BY <1>3, <2>2, LiveReaches
    <3>3. 0 \in 0 .. End(at)
      BY <1>3, PointsAre
    <3>4. QED
      BY <3>1, <3>2, <3>3
  <2>4. liveIn'[i] = (IF i = at THEN in ELSE liveIn[i])
        /\ liveOut'[i] = (IF i = at THEN out ELSE liveOut[i])
    <3> HIDE DEF out, in
    <3> QED BY <1>1, <1>2, <1>3 DEF TypeInv
  <2> HIDE DEF out, in
  <2>5. QED
    BY <2>1, <2>2, <2>3, <2>4
<1>7. RoundInv'
  <2> SUFFICES ASSUME ~changed'
               PROVE  \A i \in DOMAIN f :
                        i > at - 1 =>
                          /\ liveOut'[i] = UNION {liveIn'[s] : s \in f[i].successors}
                          /\ liveIn'[i] = Gen(f[i]) \cup (liveOut'[i] \ Kill(f[i]))
    BY <1>1 DEF RoundInv, Out
  <2>1. ~changed /\ out = liveOut[at] /\ in = liveIn[at]
    BY <1>1
  <2>2. liveIn' = liveIn /\ liveOut' = liveOut
    <3> HIDE DEF out, in
    <3> QED BY <1>1, <1>2, <2>1 DEF TypeInv
  <2>3. ASSUME NEW i \in DOMAIN f, i > at - 1
        PROVE  /\ liveOut[i] = Out(i)
               /\ liveIn[i] = Gen(f[i]) \cup (liveOut[i] \ Kill(f[i]))
    <3>1. i = at \/ i > at
      BY <1>3, <2>3
    <3>2. CASE i = at
      BY <3>2, <2>1
    <3>3. CASE i > at
      BY <3>3, <2>1, <1>2 DEF RoundInv
    <3>4. QED
      BY <3>1, <3>2, <3>3
  <2>4. QED
    BY <2>2, <2>3 DEF Out
<1>8. QED
  BY <1>5, <1>6, <1>7 DEF AnalysisInv

\* A new round keeps the invariant.
LEMMA RoundKeeps == AnalysisInv /\ NextRound => AnalysisInv'
<1> SUFFICES ASSUME AnalysisInv, NextRound PROVE AnalysisInv'
  OBVIOUS
<1>1. /\ at' = Len(f) /\ f' = f /\ liveIn' = liveIn /\ liveOut' = liveOut
      /\ changed' = FALSE
  BY DEF NextRound
<1>2. Len(f) \in Nat /\ DOMAIN f = 1 .. Len(f)
  BY FunctionIs DEF AnalysisInv, TypeInv
<1>3. TypeInv'
  <2>1. at' \in 0 .. Len(f)
    BY <1>1, <1>2
  <2>2. changed' \in BOOLEAN
    BY <1>1
  <2>3. QED
    BY <2>1, <2>2, <1>1 DEF AnalysisInv, TypeInv
<1>4. SoundInv'
  <2>1. SoundInv
    BY DEF AnalysisInv
  <2>2. QED
    BY <2>1, <1>1, SameFunction DEF SoundInv
<1>5. RoundInv'
  BY <1>1, <1>2 DEF RoundInv
<1>6. QED
  BY <1>3, <1>4, <1>5 DEF AnalysisInv

-----------------------------------------------------------------------------
(* The result of the analysis.                                               *)

\* What a finished analysis takes for live is what reaches a use.
LEMMA LiveIsReach ==
    ASSUME AnalysisInv, Analysed, NEW t \in Temps
    PROVE  \A i \in DOMAIN f : \A k \in 0 .. End(i) :
             LiveAt(liveOut[i], i, k, t) <=> <<i, k>> \in ReachUse(t)
<1> DEFINE L == {p \in Points : LiveAt(liveOut[p[1]], p[1], p[2], t)}
<1>1. f \in Functions /\ Len(f) \in Nat /\ DOMAIN f = 1 .. Len(f) /\ at = 0 /\ ~changed
  BY FunctionIs DEF AnalysisInv, TypeInv, Analysed
<1>2. \A i \in DOMAIN f : /\ liveOut[i] = Out(i)
                          /\ liveIn[i] = Gen(f[i]) \cup (liveOut[i] \ Kill(f[i]))
                          /\ f[i].successors \subseteq DOMAIN f
  <2>1. \A i \in DOMAIN f : i > at
    BY <1>1
  <2>2. \A i \in DOMAIN f : f[i].successors \subseteq DOMAIN f
    BY <1>1, FunctionIs
  <2>3. QED
    BY <2>1, <2>2, <1>1 DEF AnalysisInv, RoundInv
<1>3. \A i \in DOMAIN f : \A k \in 0 .. End(i) :
        <<i, k>> \in L <=> LiveAt(liveOut[i], i, k, t)
  BY <1>1, PointsAre
<1>4. Backward(t, L)
  <2> SUFFICES ASSUME NEW i \in DOMAIN f, NEW k \in 0 .. End(i),
                      t \in Uses(<<i, k>>)
                      \/ (t \notin Assigns(<<i, k>>) /\ After(<<i, k>>) \cap L # {})
               PROVE  <<i, k>> \in L
    <3> HIDE DEF L
    <3>1. L \subseteq Points
      BY DEF L
    <3>2. ASSUME NEW p \in Points,
                 t \in Uses(p) \/ (t \notin Assigns(p) /\ After(p) \cap L # {})
          PROVE  p \in L
      <4>1. PICK i \in DOMAIN f : \E k \in 0 .. End(i) : p = <<i, k>>
        BY <1>1, PointsAre
      <4>2. PICK k \in 0 .. End(i) : p = <<i, k>>
        BY <4>1
      <4>3. QED
        BY <4>2, <3>2
    <3>3. QED
      BY <3>1, <3>2 DEF Backward
  <2>1. /\ Len(f[i].code) \in Nat /\ DOMAIN f[i].code = 1 .. Len(f[i].code)
        /\ End(i) \in Nat /\ End(i) = Len(f[i].code) + 1
    BY <1>1, FunctionIs DEF End
  <2> HIDE DEF L
  <2>2. CASE k = End(i)
    <3>1. /\ Uses(<<i, k>>) = f[i].uses
          /\ After(<<i, k>>) = {<<s, 0>> : s \in f[i].successors}
      BY <1>1, <2>2, PointIs
    <3>2. ASSUME NEW s \in f[i].successors, <<s, 0>> \in L PROVE t \in liveOut[i]
      <4>1. s \in DOMAIN f /\ 0 \in 0 .. End(s)
        BY <1>1, <1>2, PointsAre
      <4>2. LiveAt(liveOut[s], s, 0, t)
        BY <4>1, <3>2, <1>3
      <4>3. t \in liveIn[s]
        BY <4>1, <4>2, <1>1, <1>2, LiveAtStart
      <4>4. QED
        BY <4>3, <1>2 DEF Out
    <3>3. t \in f[i].uses \cup liveOut[i]
      BY <3>1, <3>2
    <3>4. LiveAt(liveOut[i], i, End(i), t)
      BY <3>3, <1>1, OneBack
    <3>5. QED
      BY <3>4, <2>2, <1>3
  <2>3. CASE k = 0
    <3>1. Uses(<<i, 0>>) = {} /\ Assigns(<<i, 0>>) = f[i].params
          /\ After(<<i, 0>>) = {<<i, 1>>}
      BY <1>1, PointIs
    <3>2. t \notin f[i].params /\ <<i, 1>> \in L
      BY <3>1, <2>3
    <3>3. 1 \in 0 .. End(i)
      BY <2>1
    <3>4. LiveAt(liveOut[i], i, 1, t)
      BY <3>2, <3>3, <1>3
    <3>5. LiveAt(liveOut[i], i, 0, t)
      BY <3>2, <3>4, <1>1, OneBack
    <3>6. QED
      BY <3>5, <2>3, <1>3
  <2>4. CASE k \in DOMAIN f[i].code
    <3>1. /\ Uses(<<i, k>>) = f[i].code[k].uses
          /\ Assigns(<<i, k>>) = f[i].code[k].dst
          /\ After(<<i, k>>) = {<<i, k + 1>>}
      BY <1>1, <2>4, PointIs
    <3>2. k + 1 \in 0 .. End(i)
      BY <2>1, <2>4
    <3>3. <<i, k + 1>> \in L => LiveAt(liveOut[i], i, k + 1, t)
      BY <3>2, <1>3
    <3>4. \/ t \in f[i].code[k].uses
          \/ t \notin f[i].code[k].dst /\ LiveAt(liveOut[i], i, k + 1, t)
      BY <3>1, <3>3
    <3>5. LiveAt(liveOut[i], i, k, t)
      BY <3>4, <2>4, <1>1, OneBack
    <3>6. QED
      BY <3>5, <1>3
  <2>5. QED
    BY <2>1, <2>2, <2>3, <2>4
<1>5. ReachUse(t) \subseteq L
  <2> HIDE DEF L
  <2> QED BY <1>1, <1>4, ReachIs
<1>6. ASSUME NEW i \in DOMAIN f, NEW k \in 0 .. End(i), LiveAt(liveOut[i], i, k, t)
      PROVE  <<i, k>> \in ReachUse(t)
  <2>1. Backward(t, ReachUse(t))
    BY <1>1, ReachIs
  <2>2. ReachUse(t) \in SUBSET Points
    BY <2>1 DEF Backward
  <2>3. t \in liveOut[i] => \E s \in f[i].successors : <<s, 0>> \in ReachUse(t)
    BY <2>1, <2>2 DEF AnalysisInv, SoundInv
  <2>4. \A n \in 0 .. End(i) : LiveAt(liveOut[i], i, n, t) => <<i, n>> \in ReachUse(t)
    BY <2>1, <2>3, <1>1, LiveReaches
  <2>5. QED
    BY <2>4, <1>6
<1> HIDE DEF L
<1>7. QED
  BY <1>3, <1>5, <1>6

\* The walk back through a block finds what is live after each computation.
LEMMA LiveAfterIs ==
    ASSUME AnalysisInv, NEW i \in DOMAIN f
    PROVE  \A k \in 0 .. Len(f[i].code) :
             LiveAfter(i)[k] = {t \in Temps : LiveAt(liveOut[i], i, k + 1, t)}
<1> DEFINE n == Len(f[i].code)
           code == f[i].code
           base == liveOut[i] \cup f[i].uses
           Live(k) == {t \in Temps : LiveAt(liveOut[i], i, k + 1, t)}
           Walk(g) ==
               g = [k \in 0 .. n |->
                      IF k = n THEN base ELSE (g[k + 1] \ code[k + 1].dst) \cup code[k + 1].uses]
           after == CHOOSE g : Walk(g)
<1>1. /\ f \in Functions /\ n \in Nat /\ DOMAIN code = 1 .. n /\ End(i) = n + 1
      /\ base \in SUBSET Temps
      /\ \A k \in DOMAIN code : code[k].uses \in SUBSET Temps
  BY FunctionIs DEF AnalysisInv, TypeInv, End
<1>2. Live(n) = base
  <2>1. \A t \in Temps : LiveAt(liveOut[i], i, End(i), t) <=> t \in base
    BY <1>1, OneBack
  <2>2. QED
    BY <2>1, <1>1
<1>3. ASSUME NEW k \in 0 .. n, k # n
      PROVE  Live(k) = (Live(k + 1) \ code[k + 1].dst) \cup code[k + 1].uses
  <2>1. k + 1 \in DOMAIN code
    BY <1>1, <1>3
  <2>2. \A t \in Temps : LiveAt(liveOut[i], i, k + 1, t) <=>
                            \/ t \in code[k + 1].uses
                            \/ t \notin code[k + 1].dst
                               /\ LiveAt(liveOut[i], i, (k + 1) + 1, t)
    BY <1>1, <2>1, OneBack
  <2>3. QED
    BY <2>1, <2>2, <1>1
<1>4. \E g : Walk(g)
  <2> DEFINE w == [k \in 0 .. n |-> Live(k)]
  <2>1. ASSUME NEW k \in 0 .. n
        PROVE  Live(k) = IF k = n THEN base
                         ELSE (w[k + 1] \ code[k + 1].dst) \cup code[k + 1].uses
    <3>1. CASE k = n
      BY <3>1, <1>2
    <3>2. CASE k # n
      <4>1. k + 1 \in 0 .. n
        BY <3>2, <1>1
      <4>2. w[k + 1] = Live(k + 1)
        BY <4>1
      <4>3. QED
        BY <4>2, <3>2, <1>3
    <3>3. QED
      BY <3>1, <3>2
  <2>2. Walk(w)
    <3> HIDE DEF Live
    <3> QED BY <2>1
  <2>3. QED
    BY <2>2
<1>5. Walk(after)
  <2> HIDE DEF Walk
  <2> QED BY <1>4
<1>6. LiveAfter(i) = after
  BY DEF LiveAfter
<1> HIDE DEF after
<1>7. \A k \in 0 .. n :
        after[k] = IF k = n THEN base
                   ELSE (after[k + 1] \ code[k + 1].dst) \cup code[k + 1].uses
  <2> DEFINE step(k) == IF k = n THEN base
                        ELSE (after[k + 1] \ code[k + 1].dst) \cup code[k + 1].uses
  <2>1. after = [k \in 0 .. n |-> step(k)]
    BY <1>5
  <2> HIDE DEF step
  <2>2. \A k \in 0 .. n : after[k] = step(k)
    BY <2>1
  <2>3. QED
    BY <2>2 DEF step
<1> HIDE DEF Live, n
<1>8. \A k \in 0 .. n : after[k] = Live(k)
  <2> DEFINE Bad == {j \in 0 .. n : after[n - j] # Live(n - j)}
  <2>1. SUFFICES Bad = {}
    <3>1. \A k \in 0 .. n : n - k \in 0 .. n /\ n - (n - k) = k
      BY <1>1
    <3>2. QED
      BY <3>1
  <2> SUFFICES ASSUME Bad # {} PROVE FALSE
    OBVIOUS
  <2>2. PICK j \in Bad : \A m \in Bad : j <= m
    <3>1. Bad \in SUBSET Nat
      BY <1>1
    <3> HIDE DEF Bad
    <3> QED BY <3>1, SomeLeast
  <2>3. j \in 0 .. n /\ n - j \in 0 .. n /\ after[n - j] # Live(n - j)
    BY <1>1
  <2>4. n - j # n
    BY <2>3, <1>2, <1>7
  <2>5. j - 1 \in 0 .. n /\ ~(j <= j - 1) /\ n - (j - 1) = (n - j) + 1
    BY <2>3, <2>4, <1>1
  <2>6. j - 1 \notin Bad
    <3> HIDE DEF Bad
    <3> QED BY <2>2, <2>5
  <2>7. after[(n - j) + 1] = Live((n - j) + 1)
    BY <2>5, <2>6
  <2>8. after[n - j] = (after[(n - j) + 1] \ code[(n - j) + 1].dst) \cup code[(n - j) + 1].uses
    BY <2>3, <2>4, <1>7
  <2>9. QED
    BY <2>3, <2>4, <2>7, <2>8, <1>3
<1>9. QED
  BY <1>6, <1>8 DEF Live, n

\* The analysis keeps its invariant.
THEOREM AnalysisInvariance == LivenessSpec => []AnalysisInv
<1>1. AnalysisInv /\ [LivenessNext]_livenessVars => AnalysisInv'
  <2>1. ASSUME AnalysisInv, UNCHANGED livenessVars PROVE AnalysisInv'
    <3>1. f' = f /\ liveIn' = liveIn /\ liveOut' = liveOut /\ at' = at /\ changed' = changed
      BY <2>1 DEF livenessVars
    <3>2. SoundInv'
      BY <2>1, <3>1, SameFunction DEF AnalysisInv, SoundInv
    <3>3. TypeInv' /\ RoundInv'
      BY <2>1, <3>1 DEF AnalysisInv, TypeInv, RoundInv, Out
    <3>4. QED
      BY <3>2, <3>3 DEF AnalysisInv
  <2>2. QED
    BY <2>1, VisitKeeps, RoundKeeps DEF LivenessNext
<1>2. QED
  BY <1>1, AnalysisInit, PTL DEF LivenessSpec

\* For every function, the roots recorded for a call are the temps that some path
\* after the call uses before it assigns them, those the call itself assigns
\* apart (populate_safepoint_roots): the collector misses nothing that is still
\* wanted and is shown nothing dead.
THEOREM RootsAreLive == LivenessSpec => []RootsAreLiveAcross
<1>1. AnalysisInv => RootsAreLiveAcross
  <2> SUFFICES ASSUME AnalysisInv, Analysed, NEW i \in DOMAIN f,
                      NEW k \in DOMAIN f[i].code
               PROVE  SafepointRoots(i, k)
                        = {t \in Temps \ f[i].code[k].dst :
                             After(<<i, k>>) \cap ReachUse(t) # {}}
    BY DEF RootsAreLiveAcross
  <2>1. /\ f \in Functions /\ Len(f[i].code) \in Nat
        /\ k \in 0 .. Len(f[i].code) /\ k + 1 \in 0 .. End(i)
    BY FunctionIs DEF AnalysisInv, TypeInv, End
  <2>2. LiveAfter(i)[k] = {t \in Temps : LiveAt(liveOut[i], i, k + 1, t)}
    BY <2>1, LiveAfterIs
  <2>3. \A t \in Temps : LiveAt(liveOut[i], i, k + 1, t)
                            <=> <<i, k + 1>> \in ReachUse(t)
    BY <2>1, LiveIsReach
  <2>4. After(<<i, k>>) = {<<i, k + 1>>}
    BY <2>1, PointIs
  <2>5. QED
    BY <2>2, <2>3, <2>4 DEF SafepointRoots
<1>2. QED
  BY <1>1, AnalysisInvariance, PTL
=============================================================================
