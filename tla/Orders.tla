------------------------------- MODULE Orders -------------------------------
(***************************************************************************)
(* Lemmas about finite orders that the proofs of the components share:     *)
(* least numbers, maximal elements, sorted enumerations.  Each goes by a   *)
(* least counterexample, that of a well-founded relation.                  *)
(***************************************************************************)
EXTENDS Naturals, Sequences, SequencesExt, FiniteSets, SequenceTheorems,
        FiniteSetTheorems, WellFoundedInduction, TLAPS

\* R is a set of pairs, smaller first.
Above(T, R, m) == {n \in T : <<m, n>> \in R}
Sorted(s, R) == \A i, j \in DOMAIN s : i < j => <<s[j], s[i]>> \notin R

\* A family of finite sets has one that no other is inside of.
LEMMA Innermost ==
    ASSUME NEW S, NEW F, F # {}, F \subseteq FiniteSubsetsOf(S)
    PROVE  \E A \in F : \A B \in F : B \subseteq A => B = A
<1>1. IsWellFoundedOn(StrictSubsetOrdering(S), FiniteSubsetsOf(S))
  BY FS_StrictSubsetOrderingWellFounded
<1>2. \E A \in F : \A B \in F : ~(<<B, A>> \in StrictSubsetOrdering(S))
  BY <1>1, WFMin, Zenon
<1>3. QED
  BY <1>2 DEF StrictSubsetOrdering, FiniteSubsetsOf

\* A set of numbers has a least one.
LEMMA SomeLeast ==
    ASSUME NEW N \in SUBSET Nat, N # {}
    PROVE  \E n \in N : \A k \in N : n <= k
<1> DEFINE Below(n) == 0 .. n - 1
           F == {Below(n) : n \in N}
<1>1. F # {}
  OBVIOUS
<1>2. ASSUME NEW A \in F PROVE A \in FiniteSubsetsOf(Nat)
  <2>1. PICK n \in N : A = 0 .. n - 1
    BY <1>2
  <2>2. IsFiniteSet(0 .. n - 1)
    BY FS_Interval
  <2>3. QED
    BY <2>1, <2>2 DEF FiniteSubsetsOf
<1>3. \E A \in F : \A B \in F : B \subseteq A => B = A
  <2> HIDE DEF F
  <2> QED BY <1>1, <1>2, Innermost
<1>4. PICK n \in N : \A k \in N : Below(k) \subseteq Below(n) => Below(k) = Below(n)
  <2>1. PICK A \in F : \A B \in F : B \subseteq A => B = A
    BY <1>3
  <2>2. PICK n \in N : A = Below(n)
    BY <2>1
  <2>3. ASSUME NEW k \in N PROVE Below(k) \in F
    OBVIOUS
  <2>4. ASSUME NEW k \in N, Below(k) \subseteq Below(n)
        PROVE  Below(k) = Below(n)
    <3> HIDE DEF Below, F
    <3> QED BY <2>1, <2>2, <2>3, <2>4
  <2>5. QED
    BY <2>4
<1>5. ASSUME NEW k \in N, k < n PROVE FALSE
  <2>1. Below(k) = Below(n)
    BY <1>4, <1>5
  <2>2. k \in Below(n) /\ k \notin Below(k)
    BY <1>5
  <2>3. QED
    BY <2>1, <2>2
<1>6. QED
  BY <1>5

\* A finite set with a strict order has a maximal element.
LEMMA SomeMaximal ==
    ASSUME NEW T, IsFiniteSet(T), T # {}, NEW R,
           \A m \in T : <<m, m>> \notin R,
           \A m, n, p \in T : <<m, n>> \in R /\ <<n, p>> \in R => <<m, p>> \in R
    PROVE  \E m \in T : Above(T, R, m) = {}
<1> DEFINE F == {Above(T, R, m) : m \in T}
<1>1. F # {}
  OBVIOUS
<1>2. F \subseteq FiniteSubsetsOf(T)
  <2>1. ASSUME NEW m \in T PROVE Above(T, R, m) \in FiniteSubsetsOf(T)
    BY FS_Subset DEF Above, FiniteSubsetsOf
  <2>2. QED
    BY <2>1
<1>3. \E A \in F : \A B \in F : B \subseteq A => B = A
  <2> HIDE DEF F
  <2> QED BY <1>1, <1>2, Innermost
<1>4. PICK m \in T : \A n \in T : Above(T, R, n) \subseteq Above(T, R, m)
                                    => Above(T, R, n) = Above(T, R, m)
  BY <1>3
<1>5. ASSUME NEW n \in Above(T, R, m) PROVE FALSE
  <2>1. n \in T /\ <<m, n>> \in R
    BY <1>5 DEF Above
  <2>2. Above(T, R, n) \subseteq Above(T, R, m)
    BY <2>1 DEF Above
  <2>3. n \notin Above(T, R, n)
    BY <2>1 DEF Above
  <2>4. QED
    BY <1>4, <1>5, <2>1, <2>2, <2>3
<1>6. QED
  BY <1>5

\* A finite set with a strict order has an enumeration that the order agrees
\* with.
LEMMA SomeSorted ==
    ASSUME NEW S, IsFiniteSet(S), NEW R,
           \A m \in S : <<m, m>> \notin R,
           \A m, n, p \in S : <<m, n>> \in R /\ <<n, p>> \in R => <<m, p>> \in R
    PROVE  \E s \in SetToSeqs(S) : Sorted(s, R)
<1> DEFINE Bad == {T \in SUBSET S : ~\E s \in SetToSeqs(T) : Sorted(s, R)}
<1> SUFFICES ASSUME Bad # {} PROVE FALSE
  OBVIOUS
<1>0. Bad \subseteq FiniteSubsetsOf(S)
  BY FS_Subset DEF FiniteSubsetsOf
<1>1. \E T \in Bad : \A B \in Bad : B \subseteq T => B = T
  <2> HIDE DEF Bad
  <2> QED BY <1>0, Innermost
<1>2. PICK T \in Bad : \A B \in Bad : B \subseteq T => B = T
  BY <1>1
<1>3. IsFiniteSet(T) /\ T \subseteq S
  BY FS_Subset
<1>4. T # {}
  <2>1. SUFFICES ASSUME T = {} PROVE FALSE
    OBVIOUS
  <2>2. Cardinality(T) = 0
    BY <2>1, FS_EmptySet
  <2>3. <<>> \in SetToSeqs(T) /\ Sorted(<<>>, R)
    BY <2>1, <2>2 DEF SetToSeqs, Sorted
  <2>4. QED
    BY <2>3, <1>2
<1>5. PICK m \in T : Above(T, R, m) = {}
  BY <1>3, <1>4, SomeMaximal
<1> DEFINE U == T \ {m}
           k == Cardinality(U)
<1>6. U \notin Bad /\ U \subseteq S
  BY <1>2, <1>3
<1>7. PICK s \in SetToSeqs(U) : Sorted(s, R)
  BY <1>6
<1>8. k \in Nat /\ Cardinality(T) = k + 1
  <2>1. IsFiniteSet(U) /\ k = Cardinality(T) - 1
    BY <1>3, <1>5, FS_RemoveElement
  <2>2. k \in Nat /\ Cardinality(T) \in Nat
    BY <1>3, <2>1, FS_CardinalityType
  <2>3. QED
    BY <2>1, <2>2
<1>9. s \in [1 .. k -> U] /\ \A i, j \in 1 .. k : i # j => s[i] # s[j]
  BY <1>7 DEF SetToSeqs
<1> HIDE DEF k
<1> DEFINE t == [i \in 1 .. k + 1 |-> IF i = k + 1 THEN m ELSE s[i]]
<1>10. t \in [1 .. k + 1 -> T]
  BY <1>8, <1>9
<1>11. \A i, j \in 1 .. k + 1 : i # j => t[i] # t[j]
  BY <1>8, <1>9
<1>12. t \in SetToSeqs(T)
  BY <1>8, <1>10, <1>11 DEF SetToSeqs
<1>13. Sorted(t, R)
  <2> SUFFICES ASSUME NEW i \in 1 .. k + 1, NEW j \in 1 .. k + 1, i < j
               PROVE  <<t[j], t[i]>> \notin R
    BY <1>10 DEF Sorted
  <2>1. i \in 1 .. k /\ t[i] = s[i] /\ s[i] \in U
    BY <1>8, <1>9
  <2>2. CASE j = k + 1
    BY <2>1, <2>2, <1>5 DEF Above
  <2>3. CASE j # k + 1
    <3>1. j \in 1 .. k /\ t[j] = s[j]
      BY <2>3, <1>8
    <3>2. QED
      BY <3>1, <2>1, <1>7, <1>9 DEF Sorted
  <2>4. QED
    BY <2>2, <2>3
<1>14. QED
  BY <1>2, <1>12, <1>13

-----------------------------------------------------------------------------
(* Sequences, as the stacks of the components use them.                      *)

\* The first n elements.
LEMMA PrefixOf ==
    ASSUME NEW S, NEW s \in Seq(S), NEW n \in Nat, n <= Len(s)
    PROVE  /\ SubSeq(s, 1, n) \in Seq(S)
           /\ Len(SubSeq(s, 1, n)) = n
           /\ DOMAIN SubSeq(s, 1, n) = 1 .. n
           /\ \A i \in 1 .. n : SubSeq(s, 1, n)[i] = s[i]
OBVIOUS

\* All but the last element.
LEMMA FrontOf ==
    ASSUME NEW S, NEW s \in Seq(S), s # <<>>
    PROVE  /\ Len(s) \in Nat \ {0} /\ DOMAIN s = 1 .. Len(s)
           /\ Front(s) \in Seq(S) 
           /\ Len(Front(s)) = Len(s) - 1 /\ DOMAIN Front(s) = 1 .. Len(s) - 1
           /\ \A i \in 1 .. Len(s) - 1 : Front(s)[i] = s[i]
<1>1. Len(s) \in Nat \ {0} /\ DOMAIN s = 1 .. Len(s)
  BY EmptySeq, LenProperties
<1>2. Len(s) - 1 \in Nat /\ Len(s) - 1 <= Len(s)
  BY <1>1
<1>3. Front(s) = SubSeq(s, 1, Len(s) - 1)
  BY DEF Front
<1> DEFINE n == Len(s) - 1
<1>4. /\ SubSeq(s, 1, n) \in Seq(S)
      /\ Len(SubSeq(s, 1, n)) = n
      /\ DOMAIN SubSeq(s, 1, n) = 1 .. n
      /\ \A i \in 1 .. n : SubSeq(s, 1, n)[i] = s[i]
  <2>1. n \in Nat /\ n <= Len(s)
    BY <1>2
  <2> HIDE DEF n
  <2> QED BY <2>1, PrefixOf
<1>5. QED
  BY <1>1, <1>3, <1>4, Zenon

\* One more element.
LEMMA AppendOf ==
    ASSUME NEW S, NEW s \in Seq(S), NEW c \in S
    PROVE  /\ Append(s, c) \in Seq(S) /\ Len(s) \in Nat
           /\ Len(Append(s, c)) = Len(s) + 1
           /\ DOMAIN Append(s, c) = 1 .. Len(s) + 1 /\ DOMAIN s = 1 .. Len(s)
           /\ \A i \in 1 .. Len(s) : Append(s, c)[i] = s[i]
           /\ Append(s, c)[Len(s) + 1] = c
OBVIOUS
=============================================================================
