-------------------------- MODULE Histories_proofs --------------------------
(***************************************************************************)
(* The two histories of a view, for any processes, programs, capacities,   *)
(* widths, intervals, reaches and changes of the reach.                    *)
(*                                                                         *)
(* First induction over the natural numbers, with it the folds the model   *)
(* is written with, and sums over finite sets.  Then the usage: UsageInv,  *)
(* which says that the frames, from what has faded out until now, lead     *)
(* mark by mark to all the cycles watched, carries the lineage, the tiling *)
(* of the frames and the totals.  Then the timeline: SeriesInv, which says *)
(* what the raw samples and each tier tell of all samples pushed, carries  *)
(* the counts in the buckets and the history read back from them.          *)
(***************************************************************************)
EXTENDS Histories, FiniteSetTheorems, SequenceTheorems, WellFoundedInduction, TLAPS

-----------------------------------------------------------------------------
(* Natural numbers                                                          *)

\* Natural numbers are well founded.
LEMMA LeastNatural ==
    ASSUME NEW S, S \subseteq Nat, S # {}
    PROVE  \E n \in S : \A m \in S : n <= m
<1> DEFINE Less == OpToRel(<, Nat)
<1>1. IsWellFoundedOn(Less, Nat) BY NatLessThanWellFounded
<1>2. \A x, y \in Nat : x < y => <<x, y>> \in Less BY DEF OpToRel
<1> HIDE DEF Less
<1>3. PICK n \in S : \A m \in S : <<m, n>> \notin Less BY <1>1, WFMin
<1>4. ASSUME NEW m \in S PROVE n <= m
    <2>1. m \in Nat /\ n \in Nat OBVIOUS
    <2>2. ~(m < n) BY <1>2, <1>3, <2>1
    <2> QED BY <2>1, <2>2
<1> QED BY <1>4

\* Induction over the natural numbers, with a set for the property.
LEMMA NatSetInduction ==
    ASSUME NEW S, 0 \in S, \A n \in Nat : n \in S => n + 1 \in S
    PROVE  \A n \in Nat : n \in S
<1> DEFINE T == {n \in Nat : n \notin S}
<1> SUFFICES ASSUME T # {} PROVE FALSE OBVIOUS
<1>1. PICK n \in T : \A m \in T : n <= m BY LeastNatural
<1>2. n # 0 /\ n - 1 \in Nat OBVIOUS
<1>3. n - 1 \in S BY <1>1, <1>2
<1> QED BY <1>2, <1>3

\* A bounded set of integers that is not empty has a greatest and a least element, which
\* Max and Min choose.
LEMMA MaxIsGreatest ==
    ASSUME NEW S, S # {}, NEW low \in Int, NEW high \in Int, S \subseteq low..high
    PROVE  Max(S) \in S /\ \A x \in S : x <= Max(S)
<1> DEFINE Gaps == {n \in Nat : \E x \in S : n = high - x}
<1>1. PICK x \in S : TRUE OBVIOUS
<1>2. high - x \in Gaps BY <1>1
<1>3. PICK n \in Gaps : \A m \in Gaps : n <= m BY <1>2, LeastNatural
<1>4. PICK y \in S : n = high - y BY <1>3
<1>5. \A z \in S : z <= y
    <2> SUFFICES ASSUME NEW z \in S PROVE z <= y OBVIOUS
    <2>1. high - z \in Gaps OBVIOUS
    <2>2. n <= high - z BY <1>3, <2>1
    <2> QED BY <1>4, <2>2
<1>6. \E z \in S : \A w \in S : z >= w BY <1>5
<1>7. Max(S) = CHOOSE z \in S : \A w \in S : z >= w BY DEF Max
<1>8. Max(S) \in S /\ \A w \in S : Max(S) >= w BY <1>6, <1>7
<1> QED BY <1>8

\* The same of the least.
LEMMA MinIsLeast ==
    ASSUME NEW S, S # {}, NEW low \in Int, NEW high \in Int, S \subseteq low..high
    PROVE  Min(S) \in S /\ \A x \in S : Min(S) <= x
<1> DEFINE Gaps == {n \in Nat : \E x \in S : n = x - low}
<1>1. PICK x \in S : TRUE OBVIOUS
<1>2. x - low \in Gaps BY <1>1
<1>3. PICK n \in Gaps : \A m \in Gaps : n <= m BY <1>2, LeastNatural
<1>4. PICK y \in S : n = y - low BY <1>3
<1>5. \A z \in S : y <= z
    <2> SUFFICES ASSUME NEW z \in S PROVE y <= z OBVIOUS
    <2>1. z - low \in Gaps OBVIOUS
    <2>2. n <= z - low BY <1>3, <2>1
    <2> QED BY <1>4, <2>2
<1>6. \E z \in S : \A w \in S : z <= w BY <1>5
<1>7. Min(S) = CHOOSE z \in S : \A w \in S : z <= w BY DEF Min
<1>8. Min(S) \in S /\ \A w \in S : Min(S) <= w BY <1>6, <1>7
<1> QED BY <1>8

-----------------------------------------------------------------------------
(* Folds over a list                                                        *)

\* The greatest of some of the positions of a list is one of them.
LEMMA MaxOf ==
    ASSUME NEW n \in Nat, NEW s \in SUBSET (1..n), s # {}
    PROVE  Max(s) \in s /\ Max(s) \in 1..n /\ \A x \in s : x <= Max(s)
<1>1. 1 \in Int /\ n \in Int /\ s \subseteq 1..n OBVIOUS
<1>2. Max(s) \in s /\ \A x \in s : x <= Max(s) BY ONLY <1>1, s # {}, MaxIsGreatest
<1> QED BY <1>2

\* Of the first positions of a list the greatest is the last.
LEMMA MaxOfRun == \A k \in Nat : Max(1..(k + 1)) = k + 1 /\ (1..(k + 1)) \ {k + 1} = 1..k
<1> SUFFICES ASSUME NEW k \in Nat PROVE Max(1..(k + 1)) = k + 1 /\ (1..(k + 1)) \ {k + 1} = 1..k
    OBVIOUS
<1>1. k + 1 \in 1..(k + 1) OBVIOUS
<1>2. Max(1..(k + 1)) \in 1..(k + 1) /\ \A x \in 1..(k + 1) : x <= Max(1..(k + 1))
    <2>1. k + 1 \in Nat /\ 1..(k + 1) \in SUBSET (1..(k + 1)) /\ 1..(k + 1) # {} BY <1>1
    <2> QED BY ONLY <2>1, MaxOf
<1>3. PICK m \in 1..(k + 1) : m = Max(1..(k + 1)) /\ \A x \in 1..(k + 1) : x <= m BY <1>2
<1>4. m = k + 1 BY <1>1, <1>3
<1> QED BY <1>3, <1>4

\* The recursion of FoldLeft is well founded; F is the step with each position's element.
IsFold(iter, n, base, F) ==
    \A s \in SUBSET (1..n) : iter[s] = IF s = {} THEN base ELSE F[<<iter[s \ {Max(s)}], Max(s)>>]

\* A fold over some positions folds the greatest into the fold over the others.
LEMMA FoldStep ==
    ASSUME NEW n, NEW base, NEW F, NEW iter, IsFold(iter, n, base, F),
           NEW s \in SUBSET (1..n), s # {}
    PROVE  iter[s] = F[<<iter[s \ {Max(s)}], Max(s)>>]
<1>1. iter[s] = IF s = {} THEN base ELSE F[<<iter[s \ {Max(s)}], Max(s)>>] BY DEF IsFold
<1> QED BY <1>1

Foldable(A, n, base, F) == \E iter \in [SUBSET (1..n) -> A] : IsFold(iter, n, base, F)

\* Over any number of positions the function that folds exists.
LEMMA FoldUpTo ==
    ASSUME NEW A, NEW base \in A, NEW n \in Nat, NEW F \in [A \X (1..n) -> A]
    PROVE  Foldable(A, n, base, F)
<1> DEFINE Has == {k \in Nat : k <= n => Foldable(A, k, base, F)}
<1>1. 0 \in Has
    <2>1. 1..0 = {} OBVIOUS
    <2>2. [s \in SUBSET (1..0) |-> base] \in [SUBSET (1..0) -> A]
          /\ IsFold([s \in SUBSET (1..0) |-> base], 0, base, F)
        BY <2>1 DEF IsFold
    <2> QED BY <2>2 DEF Foldable
<1>2. ASSUME NEW k \in Nat, k \in Has PROVE k + 1 \in Has
    <2> SUFFICES ASSUME k + 1 <= n PROVE Foldable(A, k + 1, base, F) OBVIOUS
    <2>1. PICK iter \in [SUBSET (1..k) -> A] : IsFold(iter, k, base, F)
        <3>1. Foldable(A, k, base, F) BY <1>2
        <3> QED BY <3>1 DEF Foldable
    <2>2. PICK j : j = k + 1 OBVIOUS
    <2>3. j \in 1..n /\ j \in 1..j /\ j \notin 1..k /\ (1..j) \ {j} = 1..k BY <2>2
    <2> DEFINE more == [s \in SUBSET (1..j) |->
                            IF j \in s THEN F[<<iter[s \ {j}], j>>] ELSE iter[s]]
    <2>4. more \in [SUBSET (1..j) -> A]
        <3>1. ASSUME NEW s \in SUBSET (1..j)
              PROVE  (IF j \in s THEN F[<<iter[s \ {j}], j>>] ELSE iter[s]) \in A
            <4>1. s \ {j} \in SUBSET (1..k) BY <2>3
            <4>2. iter[s \ {j}] \in A BY <4>1
            <4>3. F[<<iter[s \ {j}], j>>] \in A BY <2>3, <4>2
            <4>4. j \notin s => iter[s] \in A BY <2>3
            <4> QED BY <4>3, <4>4
        <3> QED BY <3>1
    <2>5. ASSUME NEW s \in SUBSET (1..j)
          PROVE  more[s] = IF s = {} THEN base ELSE F[<<more[s \ {Max(s)}], Max(s)>>]
        <3>1. CASE j \in s
            <4>1. Max(s) \in s /\ \A x \in s : x <= Max(s)
                <5>1. j \in Nat /\ s # {} BY <2>2, <3>1
                <5> QED BY <5>1, MaxOf
            <4>2. Max(s) \in 1..j /\ j <= Max(s) BY <3>1, <4>1
            <4>3. Max(s) = j BY <2>2, <4>2
            <4>4. s \ {j} \in SUBSET (1..j) /\ j \notin s \ {j} BY <2>3
            <4>5. more[s \ {j}] = iter[s \ {j}] BY <4>4
            <4>6. more[s] = F[<<iter[s \ {j}], j>>] BY <3>1
            <4> QED BY <3>1, <4>3, <4>5, <4>6
        <3>2. CASE j \notin s
            <4>1. s \in SUBSET (1..k) /\ s \ {Max(s)} \in SUBSET (1..j) /\ j \notin s \ {Max(s)}
                BY <2>3, <3>2
            <4>2. more[s] = iter[s] /\ more[s \ {Max(s)}] = iter[s \ {Max(s)}] BY <3>2, <4>1
            <4>3. iter[s] = IF s = {} THEN base ELSE F[<<iter[s \ {Max(s)}], Max(s)>>]
                BY <2>1, <4>1 DEF IsFold
            <4> QED BY <4>2, <4>3
        <3> QED BY <3>1, <3>2
    <2> HIDE DEF more
    <2>6. IsFold(more, j, base, F) BY <2>5 DEF IsFold
    <2> QED BY <2>2, <2>4, <2>6 DEF Foldable
<1>3. \A k \in Nat : k \in Has
    <2> HIDE DEF Has
    <2> QED BY <1>1, <1>2, NatSetInduction
<1>4. n \in Has BY <1>3
<1> QED BY <1>4

\* Read along a list, a function that folds goes from one position to the next.
IsRun(run, A, n, base, F) ==
    /\ run \in [0..n -> A] /\ run[0] = base
    /\ \A k \in 0..(n - 1) : run[k + 1] = F[<<run[k], k + 1>>]

\* So does whatever folds the same steps, if only where the result before is known.
FoldsAs(iter, A, n, base, F) ==
    \A s \in SUBSET (1..n) :
        /\ s = {} => iter[s] = base
        /\ (s # {} /\ iter[s \ {Max(s)}] \in A) => iter[s] = F[<<iter[s \ {Max(s)}], Max(s)>>]

\* Along the first positions the fold runs step by step.
LEMMA RunOf ==
    ASSUME NEW A, NEW base \in A, NEW n \in Nat, NEW F \in [A \X (1..n) -> A], NEW iter,
           FoldsAs(iter, A, n, base, F), NEW run, run = [k \in 0..n |-> iter[1..k]]
    PROVE  IsRun(run, A, n, base, F)
<1>1. run = [k \in 0..n |-> iter[1..k]] OBVIOUS
<1>2. run[0] = base
    <2>1. 1..0 = {} /\ 0 \in 0..n /\ {} \in SUBSET (1..n) OBVIOUS
    <2>2. iter[{}] = base BY <2>1 DEF FoldsAs
    <2> QED BY <1>1, <2>1, <2>2
<1>3. ASSUME NEW k \in 0..(n - 1), run[k] \in A
      PROVE  run[k + 1] = F[<<run[k], k + 1>>] /\ run[k + 1] \in A
    <2>1. k \in Nat /\ k \in 0..n /\ k + 1 \in 0..n /\ k + 1 \in 1..n OBVIOUS
    <2>2. 1..(k + 1) # {} /\ 1..(k + 1) \in SUBSET (1..n) /\ Max(1..(k + 1)) = k + 1
          /\ (1..(k + 1)) \ {k + 1} = 1..k
        <3>1. Max(1..(k + 1)) = k + 1 /\ (1..(k + 1)) \ {k + 1} = 1..k BY <2>1, MaxOfRun
        <3>2. 1 \in 1..(k + 1) /\ 1..(k + 1) \subseteq 1..n OBVIOUS
        <3> QED BY <3>1, <3>2
    <2>3. run[k] = iter[1..k] /\ run[k + 1] = iter[1..(k + 1)] BY <1>1, <2>1
    <2>4. iter[1..(k + 1)] = F[<<iter[1..k], k + 1>>] BY <1>3, <2>2, <2>3 DEF FoldsAs
    <2> QED BY <1>3, <2>1, <2>3, <2>4
<1>4. run \in [0..n -> A]
    <2> DEFINE In == {k \in Nat : k <= n => run[k] \in A}
    <2>1. 0 \in In BY <1>2
    <2>2. ASSUME NEW k \in Nat, k \in In PROVE k + 1 \in In
        <3> SUFFICES ASSUME k + 1 <= n PROVE run[k + 1] \in A OBVIOUS
        <3>1. k \in 0..(n - 1) /\ run[k] \in A BY <2>2
        <3> QED BY <1>3, <3>1
    <2>3. \A k \in Nat : k \in In
        <3> HIDE DEF In
        <3> QED BY <2>1, <2>2, NatSetInduction
    <2> QED BY <1>1, <2>3
<1>5. ASSUME NEW k \in 0..(n - 1) PROVE run[k + 1] = F[<<run[k], k + 1>>]
    <2>1. k \in 0..n OBVIOUS
    <2> QED BY <1>3, <1>4, <2>1
<1>6. IsRun(run, A, n, base, F) BY <1>2, <1>4, <1>5 DEF IsRun
<1> QED BY <1>1, <1>6

-----------------------------------------------------------------------------
(* Lists in parts                                                           *)

\* One list after another.
LEMMA Longer ==
    ASSUME NEW T, NEW s \in Seq(T), NEW t \in Seq(T)
    PROVE  /\ s \o t \in Seq(T) /\ Len(s \o t) = Len(s) + Len(t)
           /\ \A p \in 1..Len(s) : (s \o t)[p] = s[p]
           /\ \A p \in 1..Len(t) : (s \o t)[Len(s) + p] = t[p]
           /\ \A p \in (Len(s) + 1)..(Len(s) + Len(t)) : (s \o t)[p] = t[p - Len(s)]
<1>1. Len(s) \in Nat /\ Len(t) \in Nat OBVIOUS
<1>2. s \o t \in Seq(T) /\ Len(s \o t) = Len(s) + Len(t)
      /\ \A p \in 1..(Len(s) + Len(t)) : (s \o t)[p] = IF p <= Len(s) THEN s[p] ELSE t[p - Len(s)]
    BY ConcatProperties
<1>3. \A p \in 1..Len(t) : Len(s) + p \in 1..(Len(s) + Len(t)) /\ ~(Len(s) + p <= Len(s))
                            /\ Len(s) + p - Len(s) = p
    BY <1>1
<1>4. \A p \in (Len(s) + 1)..(Len(s) + Len(t)) : p \in 1..(Len(s) + Len(t)) /\ ~(p <= Len(s))
    BY <1>1
<1> QED BY <1>1, <1>2, <1>3, <1>4

\* A list in two parts.
LEMMA Parts ==
    ASSUME NEW T, NEW s \in Seq(T), NEW n \in 0..Len(s)
    PROVE  /\ SubSeq(s, 1, n) \in Seq(T) /\ Len(SubSeq(s, 1, n)) = n
           /\ \A i \in 1..n : SubSeq(s, 1, n)[i] = s[i]
           /\ SubSeq(s, n + 1, Len(s)) \in Seq(T) /\ Len(SubSeq(s, n + 1, Len(s))) = Len(s) - n
           /\ \A i \in 1..(Len(s) - n) : SubSeq(s, n + 1, Len(s))[i] = s[n + i]
<1>1. PICK m \in Nat : m = Len(s) OBVIOUS
<1>2. n \in Int /\ 1 \in Int /\ n + 1 \in Int /\ m \in Int /\ n \in Nat /\ n <= m BY <1>1
<1>3. \A i \in 1..m : s[i] \in T BY <1>1
<1>4. (\A i \in 1..n : s[i] \in T) /\ (\A i \in (n + 1)..m : s[i] \in T) BY <1>2, <1>3
<1>5. PICK a : a = SubSeq(s, 1, n) OBVIOUS
<1>6. a \in Seq(T) /\ Len(a) = (IF 1 <= n THEN n - 1 + 1 ELSE 0) /\ \A i \in 1..(n - 1 + 1) : a[i] = s[1 + i - 1]
    BY ONLY <1>2, <1>4, <1>5, SubSeqProperties
<1>7. PICK b : b = SubSeq(s, n + 1, m) OBVIOUS
<1>8. b \in Seq(T) /\ Len(b) = (IF n + 1 <= m THEN m - (n + 1) + 1 ELSE 0)
      /\ \A i \in 1..(m - (n + 1) + 1) : b[i] = s[n + 1 + i - 1]
    BY ONLY <1>2, <1>4, <1>7, SubSeqProperties
<1>9. Len(a) = n /\ \A i \in 1..n : a[i] = s[i] BY <1>2, <1>6
<1>10. Len(b) = m - n /\ \A i \in 1..(m - n) : b[i] = s[n + i] BY <1>2, <1>8
<1> QED BY <1>1, <1>5, <1>6, <1>7, <1>8, <1>9, <1>10

\* A list of one.
LEMMA One == ASSUME NEW T, NEW x \in T PROVE <<x>> \in Seq(T) /\ Len(<<x>>) = 1 /\ <<x>>[1] = x
OBVIOUS

-----------------------------------------------------------------------------
(* Sums                                                                     *)

First(s) == CHOOSE x \in s : TRUE

\* The recursion of SumFunctionOnSet, up to a number of summands.
IsSum(G, S, f, k) ==
    \A s \in SUBSET S : Cardinality(s) <= k =>
        G[s] = IF s = {} THEN 0 ELSE f[First(s)] + G[s \ {First(s)}]

\* What is left of a finite set without the element a sum takes first.
LEMMA WithoutFirst ==
    ASSUME NEW S, IsFiniteSet(S), NEW s \in SUBSET S
    PROVE  /\ IsFiniteSet(s) /\ Cardinality(s) \in Nat /\ Cardinality(s) <= Cardinality(S)
           /\ s = {} <=> Cardinality(s) = 0
           /\ \A x \in s : IsFiniteSet(s \ {x}) /\ Cardinality(s \ {x}) = Cardinality(s) - 1
                           /\ s \ {x} \in SUBSET S
           /\ s # {} => First(s) \in s
<1>1. IsFiniteSet(s) /\ Cardinality(s) <= Cardinality(S) BY FS_Subset
<1>2. Cardinality(s) \in Nat BY <1>1, FS_CardinalityType
<1>3. s = {} <=> Cardinality(s) = 0 BY <1>1, FS_EmptySet
<1>4. \A x \in s : IsFiniteSet(s \ {x}) /\ Cardinality(s \ {x}) = Cardinality(s) - 1
                   /\ s \ {x} \in SUBSET S
    BY <1>1, FS_RemoveElement
<1>5. s # {} => First(s) \in s BY DEF First
<1> QED BY <1>1, <1>2, <1>3, <1>4, <1>5

Summable(S, f, k) == \E G \in [SUBSET S -> Nat] : IsSum(G, S, f, k)

\* Over sets up to any size the function that adds up exists.
LEMMA SumUpTo ==
    ASSUME NEW S, IsFiniteSet(S), NEW f \in [S -> Nat], NEW n \in Nat
    PROVE  Summable(S, f, n)
<1> DEFINE In == {k \in Nat : Summable(S, f, k)}
<1>1. 0 \in In
    <2>1. PICK G : G = [s \in SUBSET S |-> 0] OBVIOUS
    <2>2. G \in [SUBSET S -> Nat] BY <2>1
    <2>3. ASSUME NEW s \in SUBSET S, Cardinality(s) <= 0 PROVE s = {}
        <3>1. Cardinality(s) \in Nat /\ (s = {} <=> Cardinality(s) = 0) BY WithoutFirst
        <3> QED BY <2>3, <3>1
    <2>4. IsSum(G, S, f, 0) BY <2>1, <2>3 DEF IsSum
    <2> QED BY <2>2, <2>4 DEF Summable
<1>2. ASSUME NEW k \in Nat, k \in In PROVE k + 1 \in In
    <2>1. PICK G \in [SUBSET S -> Nat] : IsSum(G, S, f, k) BY <1>2 DEF Summable
    <2> DEFINE more == [s \in SUBSET S |-> IF Cardinality(s) = k + 1
                                           THEN f[First(s)] + G[s \ {First(s)}] ELSE G[s]]
    <2>2. more \in [SUBSET S -> Nat]
        <3> SUFFICES ASSUME NEW s \in SUBSET S, Cardinality(s) = k + 1
                     PROVE  f[First(s)] + G[s \ {First(s)}] \in Nat
            OBVIOUS
        <3>1. s # {} /\ First(s) \in s /\ s \ {First(s)} \in SUBSET S BY WithoutFirst
        <3>2. f[First(s)] \in Nat /\ G[s \ {First(s)}] \in Nat BY <3>1
        <3> QED BY <3>2
    <2>3. ASSUME NEW s \in SUBSET S, Cardinality(s) <= k + 1
          PROVE  more[s] = IF s = {} THEN 0 ELSE f[First(s)] + more[s \ {First(s)}]
        <3>1. /\ Cardinality(s) \in Nat /\ (s = {} <=> Cardinality(s) = 0)
              /\ s # {} => First(s) \in s
              /\ \A x \in s : Cardinality(s \ {x}) = Cardinality(s) - 1 /\ s \ {x} \in SUBSET S
            BY WithoutFirst
        <3>2. CASE s = {}
            <4>1. Cardinality(s) # k + 1 /\ Cardinality(s) <= k BY <3>1, <3>2
            <4>2. more[s] = G[s] BY <4>1
            <4> QED BY <2>1, <3>2, <4>1, <4>2 DEF IsSum
        <3>3. CASE s # {}
            <4>1. PICK rest : rest = s \ {First(s)} OBVIOUS
            <4>2. rest \in SUBSET S /\ Cardinality(rest) = Cardinality(s) - 1 BY <3>1, <3>3, <4>1
            <4>3. Cardinality(rest) # k + 1 BY <2>3, <3>1, <4>2
            <4>4. more[rest] = G[rest] BY <4>2, <4>3
            <4>5. CASE Cardinality(s) = k + 1
                <5>1. more[s] = f[First(s)] + G[rest] BY <4>1, <4>5
                <5> QED BY <3>3, <4>1, <4>4, <5>1
            <4>6. CASE Cardinality(s) # k + 1
                <5>1. more[s] = G[s] /\ Cardinality(s) <= k BY <2>3, <3>1, <4>6
                <5>2. G[s] = f[First(s)] + G[rest] BY <2>1, <3>3, <4>1, <5>1 DEF IsSum
                <5> QED BY <3>3, <4>1, <4>4, <5>1, <5>2
            <4> QED BY <4>5, <4>6
        <3> QED BY <3>2, <3>3
    <2> HIDE DEF more
    <2>4. IsSum(more, S, f, k + 1) BY <2>3 DEF IsSum
    <2> QED BY <2>2, <2>4 DEF Summable
<1>3. \A k \in Nat : k \in In
    <2> HIDE DEF In
    <2> QED BY <1>1, <1>2, NatSetInduction
<1> QED BY <1>3

\* In whatever order they are added.
LEMMA AnyFirst ==
    ASSUME NEW S, IsFiniteSet(S), NEW f \in [S -> Nat], NEW G \in [SUBSET S -> Nat],
           IsSum(G, S, f, Cardinality(S)), NEW s \in SUBSET S, NEW x \in s
    PROVE  G[s] = f[x] + G[s \ {x}]
<1> DEFINE In == {k \in Nat : \A t \in SUBSET S : Cardinality(t) <= k =>
                                \A y \in t : G[t] = f[y] + G[t \ {y}]}
<1>1. 0 \in In
    <2> SUFFICES ASSUME NEW t \in SUBSET S, Cardinality(t) <= 0, NEW y \in t PROVE FALSE OBVIOUS
    <2>1. Cardinality(t) \in Nat /\ (t = {} <=> Cardinality(t) = 0) BY WithoutFirst
    <2> QED BY <2>1
<1>2. ASSUME NEW k \in Nat, k \in In PROVE k + 1 \in In
    <2> SUFFICES ASSUME NEW t \in SUBSET S, Cardinality(t) <= k + 1, NEW y \in t
                 PROVE  G[t] = f[y] + G[t \ {y}]
        OBVIOUS
    <2>1. PICK z : z = First(t) OBVIOUS
    <2>2. Cardinality(t) \in Nat /\ Cardinality(t) <= Cardinality(S) /\ z \in t /\ t # {}
          /\ \A v \in t : Cardinality(t \ {v}) = Cardinality(t) - 1 /\ t \ {v} \in SUBSET S
        BY <2>1, WithoutFirst
    <2>3. G[t] = f[z] + G[t \ {z}] BY <2>1, <2>2 DEF IsSum
    <2>4. CASE y = z BY <2>3, <2>4
    <2>5. CASE y # z
        <3>1. PICK a, b, c : a = t \ {z} /\ b = t \ {y} /\ c = (t \ {z}) \ {y} OBVIOUS
        <3>2. y \in a /\ z \in b /\ c = a \ {y} /\ c = b \ {z} BY <2>2, <2>5, <3>1
        <3>3. a \in SUBSET S /\ b \in SUBSET S /\ c \in SUBSET S
              /\ Cardinality(a) = Cardinality(t) - 1 /\ Cardinality(b) = Cardinality(t) - 1
            BY <2>2, <3>1
        <3>4. Cardinality(a) <= k /\ Cardinality(b) <= k
            <4>1. PICK w \in Nat : w = Cardinality(t) BY <2>2
            <4>2. w - 1 <= k BY <4>1
            <4> QED BY <3>3, <4>1, <4>2
        <3>5. G[a] = f[y] + G[c] /\ G[b] = f[z] + G[c] BY <1>2, <3>2, <3>3, <3>4
        <3>6. G[t] = f[z] + G[a] BY <2>3, <3>1
        <3>7. PICK p \in Nat, q \in Nat, g \in Nat, h \in Nat, l \in Nat, m \in Nat :
                p = f[y] /\ q = f[z] /\ g = G[c] /\ h = G[a] /\ l = G[b] /\ m = G[t]
            BY <2>2, <3>3
        <3>8. h = p + g /\ l = q + g /\ m = q + h BY <3>5, <3>6, <3>7
        <3>9. m = p + l BY ONLY <3>8, p \in Nat, q \in Nat, g \in Nat, h \in Nat, l \in Nat, m \in Nat
        <3> QED BY <3>1, <3>7, <3>9
    <2> QED BY <2>4, <2>5
<1>3. \A k \in Nat : k \in In
    <2> HIDE DEF In
    <2> QED BY <1>1, <1>2, NatSetInduction
<1>4. Cardinality(s) \in Nat BY WithoutFirst
<1>5. Cardinality(s) \in In BY <1>3, <1>4
<1> QED BY <1>4, <1>5

\* What a sum over a finite set is: nothing for none, and a member's part more with it.
Sums(G, S, f) ==
    /\ G \in [SUBSET S -> Nat] /\ G[{}] = 0
    /\ \A s \in SUBSET S, x \in S : x \notin s => G[s \cup {x}] = f[x] + G[s]
    /\ \A s \in SUBSET S : SumFunctionOnSet(f, s) = G[s]

\* SumFunctionOnSet is it.
LEMMA SumIs ==
    ASSUME NEW S, IsFiniteSet(S), NEW f \in [S -> Nat]
    PROVE  \E G : Sums(G, S, f)
<1>1. Cardinality(S) \in Nat BY FS_CardinalityType
<1>2. PICK G \in [SUBSET S -> Nat] : IsSum(G, S, f, Cardinality(S))
    <2>1. Summable(S, f, Cardinality(S)) BY <1>1, SumUpTo
    <2> QED BY <2>1 DEF Summable
<1>3. ASSUME NEW s \in SUBSET S
      PROVE  G[s] = IF s = {} THEN 0 ELSE f[First(s)] + G[s \ {First(s)}]
    <2>1. Cardinality(s) <= Cardinality(S) BY WithoutFirst
    <2> QED BY <1>2, <2>1 DEF IsSum
<1>4. G[{}] = 0 BY <1>3
<1>5. ASSUME NEW s \in SUBSET S, NEW x \in S, x \notin s PROVE G[s \cup {x}] = f[x] + G[s]
    <2>1. PICK t : t = s \cup {x} OBVIOUS
    <2>2. t \in SUBSET S /\ x \in t /\ t \ {x} = s BY <1>5, <2>1
    <2>3. t \in SUBSET S /\ x \in t BY <2>2
    <2>4. G[t] = f[x] + G[t \ {x}]
        BY ONLY <1>2, <2>3, IsFiniteSet(S), f \in [S -> Nat], G \in [SUBSET S -> Nat], AnyFirst
    <2> QED BY <2>1, <2>2, <2>4
<1>6. ASSUME NEW T \in SUBSET S PROVE SumFunctionOnSet(f, T) = G[T]
    <2> DEFINE Iter(g) == g = [s \in SUBSET T |->
                            IF s = {} THEN 0 ELSE f[First(s)] + g[s \ {First(s)}]]
    <2>1. Iter([s \in SUBSET T |-> G[s]])
        <3>1. PICK g : g = [s \in SUBSET T |-> G[s]] OBVIOUS
        <3>2. ASSUME NEW s \in SUBSET T
              PROVE  g[s] = IF s = {} THEN 0 ELSE f[First(s)] + g[s \ {First(s)}]
            <4>1. s \in SUBSET S /\ s \ {First(s)} \in SUBSET T OBVIOUS
            <4>2. g[s] = G[s] /\ g[s \ {First(s)}] = G[s \ {First(s)}] BY <3>1, <4>1
            <4> QED BY <1>3, <4>1, <4>2
        <3>3. Iter(g) BY <3>1, <3>2
        <3> QED BY <3>1, <3>3
    <2>2. PICK g : g = CHOOSE h : Iter(h) OBVIOUS
    <2>3. Iter(g)
        <3>1. \E h : Iter(h) BY <2>1
        <3> HIDE DEF Iter
        <3> QED BY <2>2, <3>1
    <2>4. SumFunctionOnSet(f, T) = g[T]
        BY <2>2 DEF SumFunctionOnSet, FoldFunctionOnSet, MapThenFoldSet, First
    <2> DEFINE In == {k \in Nat : \A s \in SUBSET T : Cardinality(s) <= k => g[s] = G[s]}
    <2>5. 0 \in In
        <3> SUFFICES ASSUME NEW s \in SUBSET T, Cardinality(s) <= 0 PROVE g[s] = G[s] OBVIOUS
        <3>1. s \in SUBSET S OBVIOUS
        <3>2. Cardinality(s) \in Nat /\ (s = {} <=> Cardinality(s) = 0) BY <3>1, WithoutFirst
        <3>3. s = {} BY <3>2
        <3> QED BY <1>4, <2>3, <3>3
    <2>6. ASSUME NEW k \in Nat, k \in In PROVE k + 1 \in In
        <3> SUFFICES ASSUME NEW s \in SUBSET T, Cardinality(s) <= k + 1 PROVE g[s] = G[s] OBVIOUS
        <3>1. s \in SUBSET S OBVIOUS
        <3>2. CASE s = {} BY <1>4, <2>3, <3>2
        <3>3. CASE s # {}
            <4>1. PICK rest : rest = s \ {First(s)} OBVIOUS
            <4>2. Cardinality(s) \in Nat /\ Cardinality(rest) = Cardinality(s) - 1
                BY <3>1, <3>3, <4>1, WithoutFirst
            <4>3. Cardinality(rest) <= k BY <4>2
            <4>4. rest \in SUBSET T BY <4>1
            <4>5. g[rest] = G[rest] BY <2>6, <4>3, <4>4
            <4>6. g[s] = f[First(s)] + g[rest] BY <2>3, <3>3, <4>1
            <4>7. G[s] = f[First(s)] + G[rest] BY <1>3, <3>1, <3>3, <4>1
            <4> QED BY <4>5, <4>6, <4>7
        <3> QED BY <3>2, <3>3
    <2>7. \A k \in Nat : k \in In
        <3> HIDE DEF In
        <3> QED BY <2>5, <2>6, NatSetInduction
    <2>8. Cardinality(T) \in Nat BY WithoutFirst
    <2>9. Cardinality(T) \in In BY <2>7, <2>8
    <2>10. g[T] = G[T] BY <2>8, <2>9
    <2> QED BY <2>4, <2>10
<1> QED BY <1>4, <1>5, <1>6 DEF Sums

\* The sum over two sets apart is the two sums together.
LEMMA SumOfUnion ==
    ASSUME NEW S, IsFiniteSet(S), NEW f \in [S -> Nat], NEW G, Sums(G, S, f),
           NEW A \in SUBSET S, NEW B \in SUBSET S, A \cap B = {}
    PROVE  G[A \cup B] = G[A] + G[B]
<1>1. /\ G \in [SUBSET S -> Nat] /\ G[{}] = 0
      /\ \A s \in SUBSET S, x \in S : x \notin s => G[s \cup {x}] = f[x] + G[s]
    BY DEF Sums
<1> DEFINE In == {k \in Nat : \A s \in SUBSET B : Cardinality(s) <= k => G[A \cup s] = G[A] + G[s]}
<1>2. 0 \in In
    <2> SUFFICES ASSUME NEW s \in SUBSET B, Cardinality(s) <= 0 PROVE G[A \cup s] = G[A] + G[s]
        OBVIOUS
    <2>1. s \in SUBSET S OBVIOUS
    <2>2. Cardinality(s) \in Nat /\ (s = {} <=> Cardinality(s) = 0) BY <2>1, WithoutFirst
    <2>3. s = {} BY <2>2
    <2>4. A \cup s = A /\ G[A] \in Nat BY <1>1, <2>3
    <2> QED BY <1>1, <2>3, <2>4
<1>3. ASSUME NEW k \in Nat, k \in In PROVE k + 1 \in In
    <2> SUFFICES ASSUME NEW s \in SUBSET B, Cardinality(s) <= k + 1
                 PROVE  G[A \cup s] = G[A] + G[s]
        OBVIOUS
    <2>1. s \in SUBSET S OBVIOUS
    <2>2. CASE s = {}
        <3>1. A \cup s = A /\ G[A] \in Nat BY <1>1, <2>2
        <3> QED BY <1>1, <2>2, <3>1
    <2>3. CASE s # {}
        <3>1. PICK x, rest : x = First(s) /\ rest = s \ {First(s)} OBVIOUS
        <3>2. Cardinality(s) \in Nat /\ Cardinality(rest) = Cardinality(s) - 1 /\ x \in s
            BY <2>1, <2>3, <3>1, WithoutFirst
        <3>3. Cardinality(rest) <= k BY <3>2
        <3>4. rest \in SUBSET B /\ rest \in SUBSET S /\ A \cup rest \in SUBSET S /\ x \in S
              /\ x \notin rest /\ x \notin A \cup rest
              /\ rest \cup {x} = s /\ (A \cup rest) \cup {x} = A \cup s
            BY <3>1, <3>2
        <3>5. G[A \cup rest] = G[A] + G[rest] BY <1>3, <3>3, <3>4
        <3>6. G[rest \cup {x}] = f[x] + G[rest] /\ G[(A \cup rest) \cup {x}] = f[x] + G[A \cup rest]
            BY <1>1, <3>4
        <3>7. PICK a \in Nat, b \in Nat, c \in Nat : a = G[A] /\ b = G[rest] /\ c = f[x]
            BY <1>1, <3>4
        <3>8. c + (a + b) = a + (c + b) BY ONLY a \in Nat, b \in Nat, c \in Nat
        <3> QED BY <3>4, <3>5, <3>6, <3>7, <3>8
    <2> QED BY <2>2, <2>3
<1>4. \A k \in Nat : k \in In
    <2> HIDE DEF In
    <2> QED BY <1>2, <1>3, NatSetInduction
<1>5. Cardinality(B) \in Nat BY WithoutFirst
<1>6. Cardinality(B) \in In BY <1>4, <1>5
<1> QED BY <1>5, <1>6

-----------------------------------------------------------------------------
(* Time, and what runs                                                      *)

\* The clock moves forward from the first snapshot on, and only processes run.
Clock ==
    /\ now \in Nat /\ tick \in Nat /\ reach \in Reaches
    /\ IF tick = 0 THEN now = 0 /\ begun = FALSE /\ ended = {} /\ DOMAIN running = {}
       ELSE now >= Start /\ begun = TRUE
    /\ DOMAIN running \subseteq Processes /\ ended \subseteq Processes
    /\ DOMAIN running \cap ended = {}

\* One snapshot, with the names its definition gives.
IsSnapshot(at, interval, cycles, snap, R, ghosts) ==
    /\ interval \in Steps /\ R \in SUBSET Processes /\ R \cap ended = {}
    /\ tick = 0 => R \subseteq Early
    /\ \A k \in R : k \in DOMAIN running \/ k \in Early \/ Spawner[k] \in DOMAIN running \cup {None}
    /\ ghosts \in SUBSET (DOMAIN procs \ R)
    /\ at \in Nat /\ at > now /\ at = IF tick = 0 THEN Start ELSE now + interval
    /\ cycles = [k \in Processes |-> used[k] + (IF k \in R THEN Rate[k] ELSE 0)]
    /\ snap = [k \in R |-> [cycles |-> cycles[k], parent |-> ParentOf(k, R)]]
    /\ DOMAIN snap = R
    /\ tick' = tick + 1 /\ running' = snap /\ used' = cycles
    /\ ended' = ended \cup (DOMAIN running \ R)
    /\ IF tick = 0 THEN UNCHANGED timelineVars ELSE Chart(at, interval, reach)
    /\ Observe(at, snap, ghosts, reach)
    /\ now' = at /\ begun' = TRUE /\ reach' = reach /\ choices' = choices

\* A step takes a snapshot, changes the reach or changes nothing.
LEMMA StepIs ==
    ASSUME Clock, [Next]_vars
    PROVE  \/ \E at, interval, cycles, snap, R, ghosts :
                IsSnapshot(at, interval, cycles, snap, R, ghosts)
           \/ \E r \in Reaches : ApplySettings(r)
           \/ UNCHANGED vars
<1>1. CASE UNCHANGED vars BY <1>1
<1>2. ASSUME NEW r \in Reaches, ApplySettings(r) PROVE \E s \in Reaches : ApplySettings(s) BY <1>2
<1>3. ASSUME NEW interval \in Steps, NEW R \in MayRun, NEW ghosts \in {{}, DOMAIN procs \ R},
             SetSnapshot(interval, R, ghosts)
      PROVE  \E at, i, cycles, snap, S, g : IsSnapshot(at, i, cycles, snap, S, g)
    <2>1. PICK at, cycles, snap :
            /\ at = IF tick = 0 THEN Start ELSE now + interval
            /\ cycles = [k \in Processes |-> used[k] + (IF k \in R THEN Rate[k] ELSE 0)]
            /\ snap = [k \in R |-> [cycles |-> cycles[k], parent |-> ParentOf(k, R)]]
        OBVIOUS
    <2>2. Start \in Nat /\ interval \in Nat \ {0} /\ interval < Start BY HistoriesAssumption
    <2>3. at \in Nat /\ at > now
        <3>1. CASE tick = 0
            <4>1. at = Start /\ now = 0 BY <2>1, <3>1 DEF Clock
            <4> QED BY <2>2, <4>1
        <3>2. CASE tick # 0 BY <2>1, <2>2, <3>2 DEF Clock
        <3> QED BY <3>1, <3>2
    <2>4. R \in SUBSET Processes /\ R \cap ended = {} /\ (tick = 0 => R \subseteq Early)
          /\ \A k \in R : k \in DOMAIN running \/ k \in Early \/ Spawner[k] \in DOMAIN running \cup {None}
        <3>1. CASE tick = 0
            <4>1. R \in SUBSET Early BY <3>1 DEF MayRun
            <4> QED BY <3>1, <4>1, UsageAssumption DEF Clock
        <3>2. CASE tick # 0 BY <3>2 DEF MayRun
        <3> QED BY <3>1, <3>2
    <2>5. tick' = tick + 1 /\ running' = snap /\ used' = cycles
          /\ ended' = ended \cup (DOMAIN running \ R)
          /\ IF tick = 0 THEN UNCHANGED timelineVars ELSE Chart(at, interval, reach)
        BY <1>3, <2>1 DEF SetSnapshot
    <2>6. Observe(at, snap, ghosts, reach) /\ reach' = reach /\ choices' = choices
        BY <1>3, <2>1 DEF SetSnapshot
    <2>7. now' = at /\ begun' = TRUE BY <2>6 DEF Observe
    <2>8. ghosts \in SUBSET (DOMAIN procs \ R) OBVIOUS
    <2>9. DOMAIN snap = R BY <2>1
    <2>10. IsSnapshot(at, interval, cycles, snap, R, ghosts)
        BY ONLY <2>1, <2>3, <2>4, <2>5, <2>6, <2>7, <2>8, <2>9, interval \in Steps DEF IsSnapshot
    <2> QED BY <2>10
<1> QED BY <1>1, <1>2, <1>3 DEF Next, Done

\* The clock moves forward, and whoever has ended stays ended.
LEMMA ClockAlways == Spec => []Clock
<1>1. Init => Clock
    <2> SUFFICES ASSUME Init PROVE Clock OBVIOUS
    <2>1. reach \in Reaches BY DEF Init
    <2>2. now = 0 /\ begun = FALSE BY DEF Init, UsageInit
    <2>3. tick = 0 /\ running = << >> /\ ended = {} BY DEF Init
    <2>4. DOMAIN running = {} BY <2>3
    <2> QED BY <2>1, <2>2, <2>3, <2>4 DEF Clock
<1>2. Clock /\ [Next]_vars => Clock'
    <2> SUFFICES ASSUME Clock, [Next]_vars PROVE Clock' OBVIOUS
    <2>1. ASSUME NEW at, NEW interval, NEW cycles, NEW snap, NEW R, NEW ghosts,
                 IsSnapshot(at, interval, cycles, snap, R, ghosts)
          PROVE  Clock'
        <3>1. Start \in Nat /\ interval \in Nat BY <2>1, HistoriesAssumption DEF IsSnapshot
        <3>2. now' \in Nat /\ now' >= Start /\ tick' \in Nat /\ tick' > 0 /\ reach' \in Reaches
              /\ begun' = TRUE
            <4>1. tick = 0 \/ now >= Start BY DEF Clock
            <4>2. at >= Start BY <2>1, <3>1, <4>1 DEF IsSnapshot, Clock
            <4> QED BY <2>1, <4>2 DEF IsSnapshot, Clock
        <3>3. DOMAIN running' = R /\ R \subseteq Processes /\ ended' = ended \cup (DOMAIN running \ R)
              /\ R \cap ended = {}
            BY <2>1 DEF IsSnapshot
        <3>4. DOMAIN running' \cap ended' = {} BY <3>3
        <3>5. ended' \subseteq Processes /\ DOMAIN running' \subseteq Processes BY <3>3 DEF Clock
        <3> QED BY <3>2, <3>4, <3>5 DEF Clock
    <2>2. ASSUME NEW r \in Reaches, ApplySettings(r) PROVE Clock'
        BY <2>2 DEF ApplySettings, Clock, usageVars, machine
    <2>3. CASE UNCHANGED vars BY <2>3 DEF vars, usageVars, machine, Clock
    <2> QED BY <2>1, <2>2, <2>3, StepIs
<1> QED BY <1>1, <1>2, PTL DEF Spec

-----------------------------------------------------------------------------
(* The lineage                                                              *)

\* The least set of ancestors goes with the members of a set and everyone it leads to.
LEMMA AncestryIs ==
    ASSUME NEW lin, ClosedUpward(DOMAIN lin, lin), NEW S \in SUBSET DOMAIN lin
    PROVE  /\ S \subseteq Ancestry(S, lin) /\ Ancestry(S, lin) \subseteq DOMAIN lin
           /\ ClosedUpward(Ancestry(S, lin), lin)
<1>1. S \subseteq Ancestry(S, lin) /\ Ancestry(S, lin) \subseteq DOMAIN lin BY DEF Ancestry
<1>2. ASSUME NEW k \in Ancestry(S, lin) PROVE lin[k].parent \in Ancestry(S, lin) \cup {None}
    <2> SUFFICES ASSUME lin[k].parent # None PROVE lin[k].parent \in Ancestry(S, lin) OBVIOUS
    <2>1. PICK p : p = lin[k].parent OBVIOUS
    <2>2. p \in DOMAIN lin BY <1>1, <2>1 DEF ClosedUpward
    <2>3. ASSUME NEW A \in SUBSET DOMAIN lin, S \subseteq A,
                 \A a \in A : lin[a].parent \in A \cup {None} \/ lin[a].parent \notin DOMAIN lin
          PROVE  p \in A
        <3>1. k \in A BY <2>3 DEF Ancestry
        <3> QED BY <2>1, <2>2, <2>3, <3>1
    <2> QED BY <2>1, <2>2, <2>3 DEF Ancestry
<1> QED BY <1>1, <1>2 DEF ClosedUpward

\* Whoever is remembered has its ancestors remembered; whoever runs is remembered with
\* the parent it runs with.
Lineage ==
    /\ DOMAIN seen \subseteq Processes /\ ClosedUpward(DOMAIN seen, seen)
    /\ DOMAIN running \subseteq DOMAIN seen
    /\ \A k \in DOMAIN running : seen[k].parent = running[k].parent

\* Every step keeps the lineage: see adds, and trim_lineage leaves a set closed upward.
LEMMA LineageStep == ASSUME Clock, Lineage, [Next]_vars PROVE Lineage'
<1>1. ASSUME NEW at, NEW interval, NEW cycles, NEW snap, NEW R, NEW ghosts,
             IsSnapshot(at, interval, cycles, snap, R, ghosts)
      PROVE  Lineage'
    <2>1. /\ R \in SUBSET Processes /\ now' = at /\ at \in Nat /\ DOMAIN snap = R /\ running' = snap
          /\ \A k \in R : snap[k].parent = ParentOf(k, R)
        BY <1>1 DEF IsSnapshot
    <2>2. PICK lin : lin = See(snap) OBVIOUS
    <2>3. DOMAIN lin = DOMAIN seen \cup R /\ (\A k \in R : lin[k].parent = snap[k].parent /\ lin[k].last = at)
          /\ \A k \in DOMAIN seen \ R : lin[k].parent = seen[k].parent
        BY <2>1, <2>2 DEF See
    <2>4. ClosedUpward(DOMAIN lin, lin)
        <3>1. ASSUME NEW k \in R PROVE lin[k].parent \in DOMAIN lin \cup {None}
            <4>1. lin[k].parent = ParentOf(k, R) BY <2>1, <2>3
            <4>2. CASE k \in DOMAIN running /\ running[k].parent # None
                <5>1. k \in DOMAIN seen /\ lin[k].parent = seen[k].parent BY <4>1, <4>2 DEF ParentOf, Lineage
                <5> QED BY <2>3, <5>1 DEF Lineage, ClosedUpward
            <4>3. CASE ~(k \in DOMAIN running /\ running[k].parent # None)
                <5>1. lin[k].parent \in R \cup {None} BY <4>1, <4>3 DEF ParentOf
                <5> QED BY <2>3, <5>1
            <4> QED BY <4>2, <4>3
        <3>2. ASSUME NEW k \in DOMAIN seen \ R PROVE lin[k].parent \in DOMAIN lin \cup {None}
            BY <2>3 DEF Lineage, ClosedUpward
        <3> QED BY <2>3, <3>1, <3>2 DEF ClosedUpward
    <2>5. PICK kept : kept = Recent(lin, at - reach) OBVIOUS
    <2>6. kept \in SUBSET DOMAIN lin /\ R \subseteq kept
        <3>1. reach \in Nat BY HistoriesAssumption DEF Clock
        <3> QED BY <2>1, <2>3, <2>5, <3>1 DEF Recent
    <2>7. \/ seen' = lin
          \/ seen' = [k \in Ancestry(kept, lin) |-> lin[k]]
        BY <1>1, <2>1, <2>2, <2>5 DEF IsSnapshot, Observe, Trim
    <2>8. PICK anc : anc = Ancestry(kept, lin) OBVIOUS
    <2>9. kept \subseteq anc /\ anc \subseteq DOMAIN lin /\ ClosedUpward(anc, lin)
        BY <2>4, <2>6, <2>8, AncestryIs
    <2>10. CASE seen' = lin BY <2>1, <2>3, <2>4, <2>10 DEF Lineage
    <2>11. CASE seen' = [k \in anc |-> lin[k]]
        <3>1. DOMAIN seen' = anc /\ \A k \in anc : seen'[k] = lin[k] BY <2>11
        <3>2. ClosedUpward(anc, seen') BY <2>9, <3>1 DEF ClosedUpward
        <3>3. anc \subseteq Processes BY <2>1, <2>3, <2>9 DEF Lineage
        <3>4. \A k \in R : seen'[k].parent = snap[k].parent BY <2>3, <2>6, <2>9, <3>1
        <3>5. R \subseteq anc BY <2>6, <2>9
        <3>6. (ClosedUpward(DOMAIN seen, seen))' BY <3>1, <3>2 DEF ClosedUpward
        <3> QED BY <2>1, <3>1, <3>3, <3>4, <3>5, <3>6 DEF Lineage
    <2> QED BY <2>7, <2>8, <2>10, <2>11
<1>2. ASSUME NEW r \in Reaches, ApplySettings(r) PROVE Lineage'
    BY <1>2 DEF ApplySettings, Lineage, usageVars, machine, ClosedUpward
<1>3. CASE UNCHANGED vars BY <1>3 DEF vars, usageVars, machine, Lineage, ClosedUpward
<1> QED BY <1>1, <1>2, <1>3, StepIs

\* The lineage is always so.
LEMMA LineageAlways == Spec => []Lineage
<1>1. Init => Lineage
    <2> SUFFICES ASSUME Init PROVE Lineage OBVIOUS
    <2>1. running = << >> /\ seen = << >> BY DEF Init, UsageInit
    <2>2. DOMAIN running = {} /\ DOMAIN seen = {} BY <2>1
    <2> QED BY <2>2 DEF Lineage, ClosedUpward
<1>2. Clock /\ Lineage /\ [Next]_vars => Lineage' BY LineageStep
<1> QED BY <1>1, <1>2, ClockAlways, PTL DEF Spec

\* usage.rs, trim_lineage: "no chain is cut short", whatever the reach, the intervals and
\* the order in which parents become known.
THEOREM LineageIsAlwaysWhole == Spec => []LineageIsWhole
<1>1. Lineage => LineageIsWhole BY DEF Lineage, LineageIsWhole
<1> QED BY <1>1, LineageAlways, PTL

-----------------------------------------------------------------------------
(* Frames side by side                                                      *)

Counts == [Programs -> Nat]
FrameT == [end : Nat, span : Nat \ {0}, cycles : Counts, held : Counts]

\* A place between two frames: its time, and what was used until then.
Mark == [at : Nat, sum : Counts]

\* A frame goes from one mark to another.
Over(a, f, b) == f.end = b.at /\ b.at = a.at + f.span /\ b.sum = Plus(a.sum, f.cycles)

IsPath(c, q, a, b, n) ==
    /\ c \in [0..n -> Mark] /\ c[0] = a /\ c[n] = b
    /\ \A i \in 1..n : Over(c[i - 1], q[i], c[i])

Passes(q, a, b, n) == \E c : IsPath(c, q, a, b, n)

\* Frames that leave nothing out and cover nothing twice from one mark to another.
Covers(q, a, b) == q \in Seq(FrameT) /\ a \in Mark /\ b \in Mark /\ Passes(q, a, b, Len(q))

\* Counts add up program by program,
LEMMA PlusIs ==
    ASSUME NEW f \in Counts, NEW g \in Counts
    PROVE  Plus(f, g) \in Counts /\ \A x \in Programs : Plus(f, g)[x] = f[x] + g[x]
BY DEF Plus, Counts

\* in any order.
LEMMA PlusOfThree ==
    ASSUME NEW f \in Counts, NEW g \in Counts, NEW h \in Counts
    PROVE  /\ Plus(Plus(f, g), h) = Plus(f, Plus(g, h))
           /\ Plus(Plus(f, g), h) = Plus(Plus(f, h), g)
<1>1. ASSUME NEW x \in Programs
      PROVE  (f[x] + g[x]) + h[x] = f[x] + (g[x] + h[x]) /\ (f[x] + g[x]) + h[x] = (f[x] + h[x]) + g[x]
    <2>1. PICK a \in Nat, b \in Nat, c \in Nat : a = f[x] /\ b = g[x] /\ c = h[x] BY DEF Counts
    <2>2. (a + b) + c = a + (b + c) /\ (a + b) + c = (a + c) + b OBVIOUS
    <2> QED BY <2>1, <2>2
<1>2. Plus(Plus(f, g), h) = [x \in Programs |-> (f[x] + g[x]) + h[x]] BY DEF Plus
<1>3. Plus(f, Plus(g, h)) = [x \in Programs |-> f[x] + (g[x] + h[x])] BY DEF Plus
<1>4. Plus(Plus(f, h), g) = [x \in Programs |-> (f[x] + h[x]) + g[x]] BY DEF Plus
<1> QED BY <1>1, <1>2, <1>3, <1>4

\* No frames cover no time;
LEMMA CoversNone == ASSUME NEW a \in Mark PROVE Covers(<< >>, a, a)
<1>1. PICK c : c = [i \in 0..0 |-> a] OBVIOUS
<1>2. IsPath(c, << >>, a, a, 0) BY <1>1 DEF IsPath
<1>3. << >> \in Seq(FrameT) /\ Len(<< >>) = 0 OBVIOUS
<1> QED BY <1>2, <1>3 DEF Covers, Passes

\* one frame covers its own span;
LEMMA CoversOne ==
    ASSUME NEW f \in FrameT, NEW a \in Mark, NEW b \in Mark
    PROVE  Covers(<<f>>, a, b) <=> Over(a, f, b)
<1>1. <<f>> \in Seq(FrameT) /\ Len(<<f>>) = 1 /\ <<f>>[1] = f BY One
<1>2. PICK q : q = <<f>> OBVIOUS
<1>3. ASSUME Over(a, f, b) PROVE Passes(q, a, b, 1)
    <2>1. PICK c : c = [i \in 0..1 |-> IF i = 0 THEN a ELSE b] OBVIOUS
    <2>2. c \in [0..1 -> Mark] /\ c[0] = a /\ c[1] = b BY <2>1
    <2>3. \A i \in 1..1 : i = 1 /\ i - 1 = 0 OBVIOUS
    <2>4. IsPath(c, q, a, b, 1) BY <1>1, <1>2, <1>3, <2>2, <2>3 DEF IsPath
    <2> QED BY <2>4 DEF Passes
<1>4. ASSUME Passes(q, a, b, 1) PROVE Over(a, f, b)
    <2>1. PICK c : IsPath(c, q, a, b, 1) BY <1>4 DEF Passes
    <2>2. 1 \in 1..1 /\ 1 - 1 = 0 OBVIOUS
    <2> QED BY <1>1, <1>2, <2>1, <2>2 DEF IsPath
<1> QED BY <1>1, <1>2, <1>3, <1>4 DEF Covers

\* and frames after frames cover what both do.
LEMMA CoversBoth ==
    ASSUME NEW q, NEW p, NEW a, NEW m, NEW b, Covers(q, a, m), Covers(p, m, b)
    PROVE  Covers(q \o p, a, b)
<1>1. q \in Seq(FrameT) /\ p \in Seq(FrameT) /\ a \in Mark /\ b \in Mark BY DEF Covers
<1>2. PICK n \in Nat, k \in Nat : n = Len(q) /\ k = Len(p) BY <1>1
<1>3. PICK c : IsPath(c, q, a, m, n) BY <1>2 DEF Covers, Passes
<1>4. PICK d : IsPath(d, p, m, b, k) BY <1>2 DEF Covers, Passes
<1>5. PICK l : l = q \o p OBVIOUS
<1>6. l \in Seq(FrameT) /\ Len(l) = n + k /\ (\A i \in 1..n : l[i] = q[i])
      /\ \A i \in (n + 1)..(n + k) : l[i] = p[i - n]
    BY <1>1, <1>2, <1>5, Longer
<1>7. PICK e : e = [i \in 0..(n + k) |-> IF i <= n THEN c[i] ELSE d[i - n]] OBVIOUS
<1>8. /\ c \in [0..n -> Mark] /\ c[0] = a /\ c[n] = m
      /\ d \in [0..k -> Mark] /\ d[0] = m /\ d[k] = b
    BY <1>3, <1>4 DEF IsPath
<1>9. \A i \in 0..n : i \in 0..(n + k) /\ e[i] = c[i] BY <1>7
<1>10. \A i \in n..(n + k) : i - n \in 0..k /\ i \in 0..(n + k) /\ e[i] = d[i - n]
    <2>1. ASSUME NEW i \in n..(n + k) PROVE i - n \in 0..k /\ i \in 0..(n + k) OBVIOUS
    <2>2. ASSUME NEW i \in n..(n + k), i # n PROVE e[i] = d[i - n]
        <3>1. ~(i <= n) BY <2>2
        <3> QED BY <1>7, <2>1, <3>1
    <2>3. e[n] = d[n - n] BY <1>8, <1>9
    <2> QED BY <2>1, <2>2, <2>3
<1>11. e \in [0..(n + k) -> Mark]
    <2>1. ASSUME NEW i \in 0..(n + k) PROVE e[i] \in Mark
        <3>1. i \in 0..n \/ i \in n..(n + k) OBVIOUS
        <3> QED BY <1>8, <1>9, <1>10, <3>1
    <2> QED BY <1>7, <2>1
<1>12. ASSUME NEW i \in 1..(n + k) PROVE Over(e[i - 1], l[i], e[i])
    <2>1. CASE i <= n
        <3>1. i \in 1..n /\ i - 1 \in 0..n /\ i \in 0..n BY <2>1
        <3> QED BY <1>3, <1>6, <1>9, <3>1 DEF IsPath
    <2>2. CASE ~(i <= n)
        <3>1. PICK j : j = i - n OBVIOUS
        <3>2. j \in 1..k /\ i \in (n + 1)..(n + k) /\ i \in n..(n + k) /\ i - 1 \in n..(n + k)
              /\ (i - 1) - n = j - 1
            BY <2>2, <3>1
        <3>3. Over(d[j - 1], p[j], d[j]) BY <1>4, <3>2 DEF IsPath
        <3> QED BY <1>6, <1>10, <3>1, <3>2, <3>3
    <2> QED BY <2>1, <2>2
<1>13. e[0] = a /\ e[n + k] = b
    <2>1. 0 \in 0..n /\ n + k \in n..(n + k) /\ (n + k) - n = k OBVIOUS
    <2> QED BY <1>8, <1>9, <1>10, <2>1
<1>14. IsPath(e, l, a, b, n + k) BY <1>11, <1>12, <1>13 DEF IsPath
<1> QED BY <1>1, <1>5, <1>6, <1>14 DEF Covers, Passes

\* Split anywhere, both parts cover.
Splits(q, n, a, b) ==
    \E m : Covers(SubSeq(q, 1, n), a, m) /\ Covers(SubSeq(q, n + 1, Len(q)), m, b)

\* Frames that cover a stretch can be split anywhere.
LEMMA CoversParts ==
    ASSUME NEW q, NEW a, NEW b, Covers(q, a, b), NEW n \in 0..Len(q)
    PROVE  Splits(q, n, a, b)
<1>1. q \in Seq(FrameT) /\ a \in Mark /\ b \in Mark BY DEF Covers
<1>2. PICK l \in Nat : l = Len(q) BY <1>1
<1>3. PICK c : IsPath(c, q, a, b, l) BY <1>2 DEF Covers, Passes
<1>4. PICK s, t : s = SubSeq(q, 1, n) /\ t = SubSeq(q, n + 1, Len(q)) OBVIOUS
<1>5. /\ s \in Seq(FrameT) /\ Len(s) = n /\ (\A i \in 1..n : s[i] = q[i])
      /\ t \in Seq(FrameT) /\ Len(t) = l - n /\ (\A i \in 1..(l - n) : t[i] = q[n + i])
    BY <1>1, <1>2, <1>4, Parts
<1>6. n \in Nat /\ n <= l /\ l - n \in Nat BY <1>2
<1>7. c \in [0..l -> Mark] /\ c[0] = a /\ c[l] = b /\ \A i \in 1..l : Over(c[i - 1], q[i], c[i])
    BY <1>3 DEF IsPath
<1>8. Covers(s, a, c[n])
    <2>1. PICK d : d = [i \in 0..n |-> c[i]] OBVIOUS
    <2>2. d \in [0..n -> Mark] /\ d[0] = a /\ d[n] = c[n] /\ c[n] \in Mark BY <1>6, <1>7, <2>1
    <2>3. ASSUME NEW i \in 1..n PROVE Over(d[i - 1], s[i], d[i])
        <3>1. i \in 1..l /\ i \in 0..n /\ i - 1 \in 0..n BY <1>6
        <3> QED BY <1>5, <1>7, <2>1, <3>1
    <2>4. IsPath(d, s, a, c[n], n) BY <2>2, <2>3 DEF IsPath
    <2> QED BY <1>1, <1>5, <2>2, <2>4 DEF Covers, Passes
<1>9. Covers(t, c[n], b)
    <2>1. PICK d : d = [i \in 0..(l - n) |-> c[n + i]] OBVIOUS
    <2>2. d \in [0..(l - n) -> Mark] /\ d[0] = c[n] /\ d[l - n] = b /\ c[n] \in Mark
        <3>1. \A i \in 0..(l - n) : n + i \in 0..l BY <1>6
        <3>2. 0 \in 0..(l - n) /\ l - n \in 0..(l - n) /\ n + 0 = n /\ n + (l - n) = l BY <1>6
        <3> QED BY <1>7, <2>1, <3>1, <3>2
    <2>3. ASSUME NEW i \in 1..(l - n) PROVE Over(d[i - 1], t[i], d[i])
        <3>1. n + i \in 1..l /\ i \in 0..(l - n) /\ i - 1 \in 0..(l - n) /\ n + (i - 1) = (n + i) - 1
            BY <1>6
        <3>2. Over(c[(n + i) - 1], q[n + i], c[n + i]) BY <1>7, <3>1
        <3> QED BY <1>5, <2>1, <3>1, <3>2
    <2>4. IsPath(d, t, c[n], b, l - n) BY <2>2, <2>3 DEF IsPath
    <2> QED BY <1>1, <1>5, <2>2, <2>4 DEF Covers, Passes
<1> QED BY <1>4, <1>8, <1>9 DEF Splits

\* What was used before a mark moves the marks after it.
Shift(m, g) == [m EXCEPT !.sum = Plus(@, g)]

\* A guess is added to what has been counted,
LEMMA ShiftIs ==
    ASSUME NEW m \in Mark, NEW g \in Counts
    PROVE  Shift(m, g) \in Mark /\ Shift(m, g).at = m.at /\ Shift(m, g).sum = Plus(m.sum, g)
<1>1. Plus(m.sum, g) \in Counts BY PlusIs DEF Mark
<1> QED BY <1>1 DEF Shift, Mark

\* which moves a whole stretch.
LEMMA CoversShifted ==
    ASSUME NEW q, NEW a, NEW b, Covers(q, a, b), NEW g \in Counts
    PROVE  Covers(q, Shift(a, g), Shift(b, g))
<1>1. q \in Seq(FrameT) /\ a \in Mark /\ b \in Mark BY DEF Covers
<1>2. PICK n \in Nat : n = Len(q) BY <1>1
<1>3. PICK c : IsPath(c, q, a, b, n) BY <1>2 DEF Covers, Passes
<1>4. c \in [0..n -> Mark] /\ c[0] = a /\ c[n] = b BY <1>3 DEF IsPath
<1>5. PICK d : d = [i \in 0..n |-> Shift(c[i], g)] OBVIOUS
<1>6. d \in [0..n -> Mark] BY <1>4, <1>5, ShiftIs
<1>7. d[0] = Shift(a, g) /\ d[n] = Shift(b, g)
    <2>1. 0 \in 0..n /\ n \in 0..n OBVIOUS
    <2> QED BY <1>4, <1>5, <2>1
<1>8. ASSUME NEW i \in 1..n PROVE Over(d[i - 1], q[i], d[i])
    <2>1. i \in 0..n /\ i - 1 \in 0..n OBVIOUS
    <2>2. PICK x \in Mark, y \in Mark : x = c[i - 1] /\ y = c[i] BY <1>4, <2>1
    <2>3. q[i] \in FrameT BY <1>1, <1>2
    <2>4. Over(x, q[i], y) BY <1>3, <2>2 DEF IsPath
    <2>5. q[i].cycles \in Counts /\ x.sum \in Counts BY <2>3 DEF FrameT, Mark
    <2>6. Plus(Plus(x.sum, q[i].cycles), g) = Plus(Plus(x.sum, g), q[i].cycles) BY <2>5, PlusOfThree
    <2>7. Over(Shift(x, g), q[i], Shift(y, g)) BY <2>4, <2>6, ShiftIs DEF Over
    <2> QED BY <1>5, <2>1, <2>2, <2>7
<1>9. IsPath(d, q, Shift(a, g), Shift(b, g), n) BY <1>6, <1>7, <1>8 DEF IsPath
<1> QED BY <1>1, <1>2, <1>9, ShiftIs DEF Covers, Passes

\* Marks go forward, and every frame ends by the last.
LEMMA CoversForward ==
    ASSUME NEW q, NEW a, NEW b, Covers(q, a, b)
    PROVE  a.at <= b.at /\ \A i \in 1..Len(q) : q[i].end <= b.at
<1>1. q \in Seq(FrameT) /\ a \in Mark /\ b \in Mark BY DEF Covers
<1>2. PICK n \in Nat : n = Len(q) BY <1>1
<1>3. PICK c : IsPath(c, q, a, b, n) BY <1>2 DEF Covers, Passes
<1>4. c \in [0..n -> Mark] /\ c[0] = a /\ c[n] = b BY <1>3 DEF IsPath
<1>5. \A i \in 0..n : c[i].at \in Nat BY <1>4 DEF Mark
<1> DEFINE In == {k \in Nat : k <= n => \A i \in 0..k : c[i].at <= c[k].at}
<1>6. 0 \in In
    <2>1. \A i \in 0..0 : i = 0 OBVIOUS
    <2>2. c[0].at \in Nat /\ c[0].at <= c[0].at BY <1>5
    <2> QED BY <2>1, <2>2
<1>7. ASSUME NEW k \in Nat, k \in In PROVE k + 1 \in In
    <2> SUFFICES ASSUME k + 1 <= n, NEW i \in 0..(k + 1) PROVE c[i].at <= c[k + 1].at OBVIOUS
    <2>1. k + 1 \in 1..n /\ k \in 0..n /\ k + 1 \in 0..n /\ (k + 1) - 1 = k OBVIOUS
    <2>2. Over(c[k], q[k + 1], c[k + 1]) BY <1>3, <2>1 DEF IsPath
    <2>3. q[k + 1].span \in Nat
        <3>1. q[k + 1] \in FrameT BY <1>1, <1>2, <2>1
        <3> QED BY <3>1 DEF FrameT
    <2>4. c[k].at <= c[k + 1].at BY <1>5, <2>1, <2>2, <2>3 DEF Over
    <2>5. CASE i = k + 1 BY <1>5, <2>1, <2>5
    <2>6. CASE i # k + 1
        <3>1. i \in 0..k /\ i \in 0..n BY <2>1, <2>6
        <3>2. c[i].at <= c[k].at BY <1>7, <2>1, <3>1
        <3> QED BY <1>5, <2>1, <2>4, <3>1, <3>2
    <2> QED BY <2>5, <2>6
<1>8. \A k \in Nat : k \in In
    <2> HIDE DEF In
    <2> QED BY <1>6, <1>7, NatSetInduction
<1>9. \A i \in 0..n : c[i].at <= b.at
    <2>1. n \in In BY <1>8
    <2> QED BY <1>4, <2>1
<1>10. ASSUME NEW i \in 1..n PROVE q[i].end <= b.at
    <2>1. Over(c[i - 1], q[i], c[i]) /\ i \in 0..n BY <1>3 DEF IsPath
    <2> QED BY <1>9, <2>1 DEF Over
<1>11. a.at <= b.at
    <2>1. 0 \in 0..n OBVIOUS
    <2> QED BY <1>4, <1>9, <2>1
<1> QED BY <1>2, <1>10, <1>11

-----------------------------------------------------------------------------
(* Frames leave the raw part                                                *)

StepT == [index : Int, frame : FrameT]
OpenT == {<< >>} \cup {<<s>> : s \in StepT}
OlderT == [coarse : Seq(FrameT), open : OpenT]

\* The step being filled is there or not.
LEMMA OpenIs ==
    ASSUME NEW o \in OpenT
    PROVE  /\ o = << >> \/ \E s \in StepT : o = <<s>> /\ Head(o) = s
           /\ Closed(o) \in Seq(FrameT) /\ Len(Closed(o)) <= 1
<1>1. CASE o = << >>
    <2>1. << >> \in Seq(FrameT) /\ Len(<< >>) = 0 OBVIOUS
    <2> QED BY <1>1, <2>1 DEF Closed
<1>2. ASSUME NEW s \in StepT, o = <<s>>
      PROVE  Head(o) = s /\ Closed(o) \in Seq(FrameT) /\ Len(Closed(o)) <= 1
    <2>1. Head(o) = s /\ o # << >> BY <1>2
    <2>2. s.frame \in FrameT BY DEF StepT
    <2>3. Closed(o) = <<s.frame>> BY <2>1 DEF Closed
    <2> QED BY <2>1, <2>2, <2>3
<1> QED BY <1>1, <1>2 DEF OpenT

\* Two frames folded cover what the two did.
LEMMA FoldedIs ==
    ASSUME NEW f \in FrameT, NEW g \in FrameT
    PROVE  /\ Folded(f, g) \in FrameT
           /\ \A a, b, c \in Mark : Over(a, f, b) /\ Over(b, g, c) => Over(a, Folded(f, g), c)
<1>1. /\ f.end \in Nat /\ f.span \in Nat \ {0} /\ f.cycles \in Counts /\ f.held \in Counts
      /\ g.end \in Nat /\ g.span \in Nat \ {0} /\ g.cycles \in Counts /\ g.held \in Counts
    BY DEF FrameT
<1>2. PICK cs \in Counts, hs \in Counts : cs = Plus(f.cycles, g.cycles) /\ hs = Plus(f.held, g.held)
    BY <1>1, PlusIs
<1>3. Folded(f, g) = [end |-> g.end, span |-> f.span + g.span, cycles |-> cs, held |-> hs]
    BY <1>2 DEF Folded, FrameOf
<1>4. f.span + g.span \in Nat \ {0} BY <1>1
<1>5. ASSUME NEW a \in Mark, NEW b \in Mark, NEW c \in Mark, Over(a, f, b), Over(b, g, c)
      PROVE  Over(a, Folded(f, g), c)
    <2>1. a.at \in Nat /\ b.at \in Nat /\ c.at \in Nat /\ a.sum \in Counts BY DEF Mark
    <2>2. c.at = a.at + (f.span + g.span) BY <1>1, <1>5, <2>1 DEF Over
    <2>3. Plus(Plus(a.sum, f.cycles), g.cycles) = Plus(a.sum, cs) BY <1>1, <1>2, <2>1, PlusOfThree
    <2> QED BY <1>3, <1>5, <2>2, <2>3 DEF Over
<1> QED BY <1>1, <1>3, <1>4, <1>5 DEF FrameT

\* The older part and the step being filled cover what is between two marks.
Spread(h, a, b) == \E m : Covers(h.coarse, a, m) /\ Covers(Closed(h.open), m, b)

\* A frame that leaves the raw part is still covered, in the step it falls in.
LEMMA LeaveRawIs ==
    ASSUME NEW h \in OlderT, NEW f \in FrameT, NEW width \in Nat \ {0}
    PROVE  /\ LeaveRaw(h, f, width) \in OlderT
           /\ \A a, b, c \in Mark : Spread(h, a, b) /\ Over(b, f, c) => Spread(LeaveRaw(h, f, width), a, c)
<1>1. h.coarse \in Seq(FrameT) /\ h.open \in OpenT BY DEF OlderT
<1>2. f.end \in Nat BY DEF FrameT
<1>3. PICK index \in Int : index = f.end \div width BY <1>2
<1>4. CASE h.open # << >> /\ Head(h.open).index = index
    <2>1. PICK s \in StepT : h.open = <<s>> /\ Head(h.open) = s BY <1>1, <1>4, OpenIs
    <2>2. s.frame \in FrameT /\ s.index \in Int BY DEF StepT
    <2>3. PICK t : t = [s EXCEPT !.frame = Folded(s.frame, f)] OBVIOUS
    <2>4. t \in StepT /\ t.frame = Folded(s.frame, f) BY <2>2, <2>3, FoldedIs DEF StepT
    <2>5. PICK u : u = LeaveRaw(h, f, width) OBVIOUS
    <2>6. u = [h EXCEPT !.open[1].frame = Folded(@, f)] BY <1>3, <1>4, <2>5 DEF LeaveRaw
    <2>7. u.coarse = h.coarse /\ u.open = [<<s>> EXCEPT ![1] = t] /\ u = [coarse |-> u.coarse, open |-> u.open]
        BY <2>1, <2>3, <2>6 DEF OlderT
    <2>8. u.open = <<t>> BY <2>7
    <2>9. u \in OlderT BY <1>1, <2>4, <2>7, <2>8 DEF OlderT, OpenT
    <2>10. ASSUME NEW a \in Mark, NEW b \in Mark, NEW c \in Mark, Spread(h, a, b), Over(b, f, c)
           PROVE  Spread(u, a, c)
        <3>1. PICK m : Covers(h.coarse, a, m) /\ Covers(Closed(h.open), m, b) BY <2>10 DEF Spread
        <3>2. m \in Mark BY <3>1 DEF Covers
        <3>3. Closed(h.open) = <<s.frame>> BY <1>4, <2>1 DEF Closed
        <3>4. Over(m, s.frame, b) BY <2>2, <3>1, <3>2, <3>3, CoversOne
        <3>5. Over(m, t.frame, c) BY <2>2, <2>4, <2>10, <3>2, <3>4, FoldedIs
        <3>6. t.frame \in FrameT BY <2>4 DEF StepT
        <3>7. Closed(u.open) = <<t.frame>> BY <2>8 DEF Closed
        <3>8. Covers(<<t.frame>>, m, c) BY <3>2, <3>5, <3>6, CoversOne
        <3> QED BY <2>7, <3>1, <3>7, <3>8 DEF Spread
    <2> QED BY <2>5, <2>9, <2>10
<1>5. CASE ~(h.open # << >> /\ Head(h.open).index = index)
    <2>1. PICK s : s = [index |-> index, frame |-> f] OBVIOUS
    <2>2. s \in StepT /\ s.frame = f BY <2>1 DEF StepT
    <2>3. PICK u : u = LeaveRaw(h, f, width) OBVIOUS
    <2>4. u = [coarse |-> h.coarse \o Closed(h.open), open |-> <<s>>] BY <1>3, <1>5, <2>1, <2>3 DEF LeaveRaw
    <2>5. u.coarse = h.coarse \o Closed(h.open) /\ u.open = <<s>> BY <2>4
    <2>6. Closed(h.open) \in Seq(FrameT) BY <1>1, OpenIs
    <2>7. u.coarse \in Seq(FrameT) BY <1>1, <2>5, <2>6
    <2>8. u \in OlderT BY <2>2, <2>4, <2>5, <2>7 DEF OlderT, OpenT
    <2>9. ASSUME NEW a \in Mark, NEW b \in Mark, NEW c \in Mark, Spread(h, a, b), Over(b, f, c)
          PROVE  Spread(u, a, c)
        <3>1. PICK m : Covers(h.coarse, a, m) /\ Covers(Closed(h.open), m, b) BY <2>9 DEF Spread
        <3>2. Covers(u.coarse, a, b) BY <2>5, <3>1, CoversBoth
        <3>3. Closed(u.open) = <<f>> BY <2>2, <2>5 DEF Closed
        <3>4. Covers(<<f>>, b, c) BY <2>9, CoversOne
        <3> QED BY <3>2, <3>3, <3>4 DEF Spread
    <2> QED BY <2>3, <2>8, <2>9
<1> QED BY <1>4, <1>5

Left(base, q, width) ==
    LET Leave(h, f) == LeaveRaw(h, f, width)
    IN FoldLeft(Leave, base, q)

IsLeaving(run, base, q, width, n) ==
    /\ run \in [0..n -> OlderT] /\ run[0] = base
    /\ \A k \in 0..(n - 1) : run[k + 1] = LeaveRaw(run[k], q[k + 1], width)
    /\ Left(base, q, width) = run[n]

\* Frames leave one after another.
LEMMA LeavingRun ==
    ASSUME NEW q \in Seq(FrameT), NEW base \in OlderT, NEW width \in Nat \ {0}
    PROVE  \E run : IsLeaving(run, base, q, width, Len(q))
<1>1. PICK n \in Nat : n = Len(q) OBVIOUS
<1>2. DOMAIN q = 1..n /\ \A i \in 1..n : q[i] \in FrameT BY <1>1
<1>3. PICK F : F = [w \in OlderT \X (1..n) |-> LeaveRaw(w[1], q[w[2]], width)] OBVIOUS
<1>4. F \in [OlderT \X (1..n) -> OlderT]
    <2>1. ASSUME NEW w \in OlderT \X (1..n) PROVE LeaveRaw(w[1], q[w[2]], width) \in OlderT
        <3>1. w[1] \in OlderT /\ q[w[2]] \in FrameT BY <1>2
        <3> QED BY <3>1, LeaveRawIs
    <2> QED BY <1>3, <2>1
<1>5. PICK it \in [SUBSET (1..n) -> OlderT] : IsFold(it, n, base, F) BY <1>4, FoldUpTo DEF Foldable
<1> DEFINE Fold(iter) == iter = [s \in SUBSET (DOMAIN q) |->
                            IF s = {} THEN base
                            ELSE LeaveRaw(iter[s \ {Max(s)}], q[Max(s)], width)]
<1>6. ASSUME NEW h \in OlderT, NEW k \in 1..n PROVE F[<<h, k>>] = LeaveRaw(h, q[k], width) BY <1>3
<1>7. Fold(it)
    <2>1. ASSUME NEW s \in SUBSET (1..n)
          PROVE  it[s] = IF s = {} THEN base ELSE LeaveRaw(it[s \ {Max(s)}], q[Max(s)], width)
        <3>1. CASE s = {} BY <1>5, <3>1 DEF IsFold
        <3>2. CASE s # {}
            <4>1. Max(s) \in 1..n /\ it[s \ {Max(s)}] \in OlderT BY <1>5, <3>2, MaxOf
            <4>2. it[s] = F[<<it[s \ {Max(s)}], Max(s)>>] BY <1>5, <3>2 DEF IsFold
            <4> QED BY <1>6, <3>2, <4>1, <4>2
        <3> QED BY <3>1, <3>2
    <2> QED BY <1>2, <1>5, <2>1
<1>8. PICK iter : iter = CHOOSE g : Fold(g) OBVIOUS
<1>9. Fold(iter) BY <1>7, <1>8
<1>10. Left(base, q, width) = iter[DOMAIN q] BY <1>8 DEF Left, FoldLeft, MapThenFoldSet
<1>11. ASSUME NEW s \in SUBSET (1..n)
       PROVE  /\ s = {} => iter[s] = base
              /\ (s # {} /\ iter[s \ {Max(s)}] \in OlderT) => iter[s] = F[<<iter[s \ {Max(s)}], Max(s)>>]
    <2>1. s = {} => iter[s] = base BY <1>2, <1>9
    <2>2. ASSUME s # {}, iter[s \ {Max(s)}] \in OlderT PROVE iter[s] = F[<<iter[s \ {Max(s)}], Max(s)>>]
        <3>1. Max(s) \in 1..n BY <2>2, MaxOf
        <3>2. iter[s] = LeaveRaw(iter[s \ {Max(s)}], q[Max(s)], width) BY <1>2, <1>9, <2>2
        <3> QED BY <1>6, <2>2, <3>1, <3>2
    <2> QED BY <2>1, <2>2
<1> HIDE DEF Fold
<1>12. PICK run : run = [k \in 0..n |-> iter[1..k]] OBVIOUS
<1>13. IsRun(run, OlderT, n, base, F)
    <2>1. FoldsAs(iter, OlderT, n, base, F) BY <1>11 DEF FoldsAs
    <2> QED BY ONLY <1>4, <2>1, <1>12, base \in OlderT, n \in Nat, RunOf
<1>14. ASSUME NEW k \in 0..(n - 1) PROVE run[k + 1] = LeaveRaw(run[k], q[k + 1], width)
    <2>1. k \in 0..n /\ k + 1 \in 1..n OBVIOUS
    <2> QED BY <1>6, <1>13, <2>1 DEF IsRun
<1>15. Left(base, q, width) = run[n] BY <1>2, <1>10, <1>12
<1>16. IsLeaving(run, base, q, width, n) BY <1>13, <1>14, <1>15 DEF IsLeaving, IsRun
<1> QED BY <1>1, <1>16

\* Frames that leave the raw part one after the other are covered by the older parts.
LEMMA LeftIs ==
    ASSUME NEW base \in OlderT, NEW q, NEW a \in Mark, NEW b \in Mark, NEW c \in Mark,
           Spread(base, a, b), Covers(q, b, c), NEW width \in Nat \ {0}
    PROVE  Left(base, q, width) \in OlderT /\ Spread(Left(base, q, width), a, c)
<1>1. q \in Seq(FrameT) BY DEF Covers
<1>2. PICK n \in Nat : n = Len(q) BY <1>1
<1>3. PICK run : IsLeaving(run, base, q, width, n) BY <1>1, <1>2, LeavingRun
<1>4. /\ run \in [0..n -> OlderT] /\ run[0] = base
      /\ \A k \in 0..(n - 1) : run[k + 1] = LeaveRaw(run[k], q[k + 1], width)
      /\ Left(base, q, width) = run[n]
    BY <1>3 DEF IsLeaving
<1>5. PICK p : IsPath(p, q, b, c, n) BY <1>2 DEF Covers, Passes
<1>6. p \in [0..n -> Mark] /\ p[0] = b /\ p[n] = c BY <1>5 DEF IsPath
<1> DEFINE In == {k \in Nat : k <= n => Spread(run[k], a, p[k])}
<1>7. 0 \in In BY <1>4, <1>6
<1>8. ASSUME NEW k \in Nat, k \in In PROVE k + 1 \in In
    <2> SUFFICES ASSUME k + 1 <= n PROVE Spread(run[k + 1], a, p[k + 1]) OBVIOUS
    <2>1. k \in 0..(n - 1) /\ k + 1 \in 1..n /\ k \in 0..n /\ k + 1 \in 0..n /\ (k + 1) - 1 = k OBVIOUS
    <2>2. Spread(run[k], a, p[k]) BY <1>8, <2>1
    <2>3. Over(p[k], q[k + 1], p[k + 1]) BY <1>5, <2>1 DEF IsPath
    <2>4. PICK h \in OlderT, f \in FrameT, x \in Mark, y \in Mark :
            h = run[k] /\ f = q[k + 1] /\ x = p[k] /\ y = p[k + 1]
        BY <1>1, <1>2, <1>4, <1>6, <2>1
    <2>5. Spread(LeaveRaw(h, f, width), a, y) BY <2>2, <2>3, <2>4, LeaveRawIs
    <2> QED BY <1>4, <2>1, <2>4, <2>5
<1>9. \A k \in Nat : k \in In
    <2> HIDE DEF In
    <2> QED BY <1>7, <1>8, NatSetInduction
<1>10. n \in In BY <1>9
<1> QED BY <1>4, <1>6, <1>10

\* The greater and the lesser of two numbers.
LEMMA OfTwo ==
    ASSUME NEW a \in Int, NEW b \in Int
    PROVE  /\ Max({a, b}) \in {a, b} /\ Max({a, b}) >= a /\ Max({a, b}) >= b
           /\ Min({a, b}) \in {a, b} /\ Min({a, b}) <= a /\ Min({a, b}) <= b
<1>1. \E x \in {a, b} : \A y \in {a, b} : x >= y
    <2>1. CASE a >= b BY <2>1
    <2>2. CASE b >= a BY <2>2
    <2> QED BY <2>1, <2>2
<1>2. \E x \in {a, b} : \A y \in {a, b} : x <= y
    <2>1. CASE a <= b BY <2>1
    <2>2. CASE b <= a BY <2>2
    <2> QED BY <2>1, <2>2
<1>3. Max({a, b}) \in {a, b} /\ \A y \in {a, b} : Max({a, b}) >= y BY <1>1 DEF Max
<1>4. Min({a, b}) \in {a, b} /\ \A y \in {a, b} : Min({a, b}) <= y BY <1>2 DEF Min
<1> QED BY <1>3, <1>4

\* Those that leave are the first of them, and the next one has not passed the reach.
LEMMA LeavingIs ==
    ASSUME NEW q \in Seq(FrameT), NEW most \in Nat, NEW at \in Nat, NEW r \in Nat
    PROVE  /\ Leaving(q, most, at, r) \in 0..Len(q) /\ Leaving(q, most, at, r) >= Len(q) - most
           /\ Leaving(q, most, at, r) < Len(q) => ~Past(q[Leaving(q, most, at, r) + 1], at, r)
<1>1. PICK n \in Nat : n = Len(q) OBVIOUS
<1>2. PICK low : low = Max({0, n - most}) OBVIOUS
<1>3. low \in Nat /\ low <= n /\ low >= n - most
    <2>0. n - most \in Int OBVIOUS
    <2>1. PICK d \in Int : d = n - most BY <2>0
    <2>2. 0 \in Int OBVIOUS
    <2>3. Max({0, d}) \in {0, d} /\ Max({0, d}) >= 0 /\ Max({0, d}) >= d BY ONLY <2>2, d \in Int, OfTwo
    <2>4. low = 0 \/ low = d BY <1>2, <2>1, <2>3
    <2>5. low >= 0 /\ low >= d BY <1>2, <2>1, <2>3
    <2> QED BY <2>1, <2>4, <2>5
<1>4. PICK S : S = {k \in low..n : k < n => ~Past(q[k + 1], at, r)} OBVIOUS
<1>5. S \subseteq low..n /\ n \in S BY <1>1, <1>3, <1>4
<1>6. Leaving(q, most, at, r) = Min(S) BY <1>1, <1>2, <1>4 DEF Leaving
<1>7. Min(S) \in S
    <2>1. S # {} /\ low \in Int /\ n \in Int BY <1>3, <1>5
    <2> QED BY ONLY <1>5, <2>1, MinIsLeast
<1>8. PICK k : k = Min(S) OBVIOUS
<1>9. k \in low..n /\ (k < n => ~Past(q[k + 1], at, r)) BY <1>4, <1>7, <1>8
<1>10. k \in 0..n /\ k >= n - most BY <1>3, <1>9
<1> QED BY <1>1, <1>6, <1>8, <1>9, <1>10

-----------------------------------------------------------------------------
(* What fades out is kept                                                   *)

FadedSum(base, q) ==
    LET FadeOut(t, f) == Plus(t, f.cycles)
    IN FoldLeft(FadeOut, base, q)

\* Folding frames into faded_out adds exactly what they cover.
LEMMA FadedSumIs ==
    ASSUME NEW q, NEW a, NEW b, Covers(q, a, b)
    PROVE  FadedSum(a.sum, q) = b.sum
<1>0. PICK base \in Counts : base = a.sum BY DEF Covers, Mark
<1>1. q \in Seq(FrameT) BY DEF Covers
<1>2. PICK n \in Nat : n = Len(q) BY <1>1
<1>3. DOMAIN q = 1..n /\ \A i \in 1..n : q[i].cycles \in Counts
    <2>1. DOMAIN q = 1..n /\ \A i \in 1..n : q[i] \in FrameT BY <1>1, <1>2
    <2> QED BY <2>1 DEF FrameT
<1>4. PICK F : F = [w \in Counts \X (1..n) |-> Plus(w[1], q[w[2]].cycles)] OBVIOUS
<1>5. F \in [Counts \X (1..n) -> Counts]
    <2>1. ASSUME NEW w \in Counts \X (1..n) PROVE Plus(w[1], q[w[2]].cycles) \in Counts
        <3>1. w[1] \in Counts /\ q[w[2]].cycles \in Counts BY <1>3
        <3> QED BY <3>1, PlusIs
    <2> QED BY <1>4, <2>1
<1>6. PICK it \in [SUBSET (1..n) -> Counts] : IsFold(it, n, base, F) BY <1>5, FoldUpTo DEF Foldable
<1> DEFINE Fold(iter) == iter = [s \in SUBSET (DOMAIN q) |->
                            IF s = {} THEN base
                            ELSE Plus(iter[s \ {Max(s)}], q[Max(s)].cycles)]
<1>7. ASSUME NEW h \in Counts, NEW k \in 1..n PROVE F[<<h, k>>] = Plus(h, q[k].cycles) BY <1>4
<1>8. Fold(it)
    <2>1. ASSUME NEW s \in SUBSET (1..n)
          PROVE  it[s] = IF s = {} THEN base ELSE Plus(it[s \ {Max(s)}], q[Max(s)].cycles)
        <3>1. CASE s = {} BY <1>6, <3>1 DEF IsFold
        <3>2. CASE s # {}
            <4>1. Max(s) \in 1..n /\ it[s \ {Max(s)}] \in Counts BY <1>6, <3>2, MaxOf
            <4>2. it[s] = F[<<it[s \ {Max(s)}], Max(s)>>] BY <1>6, <3>2 DEF IsFold
            <4> QED BY <1>7, <3>2, <4>1, <4>2
        <3> QED BY <3>1, <3>2
    <2> QED BY <1>3, <1>6, <2>1
<1>9. PICK iter : iter = CHOOSE g : Fold(g) OBVIOUS
<1>10. Fold(iter) BY <1>8, <1>9
<1>11. FadedSum(base, q) = iter[DOMAIN q] BY <1>9 DEF FadedSum, FoldLeft, MapThenFoldSet
<1>12. ASSUME NEW s \in SUBSET (1..n)
       PROVE  /\ s = {} => iter[s] = base
              /\ (s # {} /\ iter[s \ {Max(s)}] \in Counts) => iter[s] = F[<<iter[s \ {Max(s)}], Max(s)>>]
    <2>1. s = {} => iter[s] = base BY <1>3, <1>10
    <2>2. ASSUME s # {}, iter[s \ {Max(s)}] \in Counts PROVE iter[s] = F[<<iter[s \ {Max(s)}], Max(s)>>]
        <3>1. Max(s) \in 1..n BY <2>2, MaxOf
        <3>2. iter[s] = Plus(iter[s \ {Max(s)}], q[Max(s)].cycles) BY <1>3, <1>10, <2>2
        <3> QED BY <1>7, <2>2, <3>1, <3>2
    <2> QED BY <2>1, <2>2
<1> HIDE DEF Fold
<1>13. PICK run : run = [k \in 0..n |-> iter[1..k]] OBVIOUS
<1>14. IsRun(run, Counts, n, base, F)
    <2>1. FoldsAs(iter, Counts, n, base, F) BY <1>12 DEF FoldsAs
    <2> QED BY ONLY <1>5, <2>1, <1>13, base \in Counts, n \in Nat, RunOf
<1>15. PICK c : IsPath(c, q, a, b, n) BY <1>2 DEF Covers, Passes
<1> DEFINE In == {k \in Nat : k <= n => run[k] = c[k].sum}
<1>16. 0 \in In BY <1>0, <1>14, <1>15 DEF IsRun, IsPath
<1>17. ASSUME NEW k \in Nat, k \in In PROVE k + 1 \in In
    <2> SUFFICES ASSUME k + 1 <= n PROVE run[k + 1] = c[k + 1].sum OBVIOUS
    <2>1. k \in 0..(n - 1) /\ k + 1 \in 1..n /\ k \in 0..n /\ (k + 1) - 1 = k OBVIOUS
    <2>2. run[k] = c[k].sum BY <1>17, <2>1
    <2>3. c[k + 1].sum = Plus(c[k].sum, q[k + 1].cycles) BY <1>15, <2>1 DEF IsPath, Over
    <2>4. run[k] \in Counts /\ run[k + 1] = F[<<run[k], k + 1>>] BY <1>14, <2>1 DEF IsRun
    <2> QED BY <1>7, <2>1, <2>2, <2>3, <2>4
<1>18. \A k \in Nat : k \in In
    <2> HIDE DEF In
    <2> QED BY <1>16, <1>17, NatSetInduction
<1>19. n \in In BY <1>18
<1>20. run[n] = b.sum BY <1>15, <1>19 DEF IsPath
<1>21. FadedSum(base, q) = run[n]
    <2>1. n \in 0..n OBVIOUS
    <2> QED BY <1>3, <1>11, <1>13, <2>1
<1> QED BY <1>0, <1>20, <1>21

-----------------------------------------------------------------------------
(* A frame is pushed                                                        *)

\* From what has faded out to a mark, the frames leave nothing out.
FramesReach(m) ==
    /\ m \in Mark /\ coarse \in Seq(FrameT) /\ open \in OpenT
    /\ \E a, b \in Mark :
        /\ a.sum = faded_out
        /\ Spread([coarse |-> coarse, open |-> open], a, b)
        /\ Covers(raw_frames, b, m)

\* push_frame, with the names of its definition.
IsPush(frame, guess, r, frames, n, left, k, late, gone) ==
    /\ frames = Append(raw_frames, frame)
    /\ n = Leaving(frames, RAW_FRAMES, frame.end, r)
    /\ left = Left([coarse |-> coarse, open |-> open], SubSeq(frames, 1, n), step_ms(r))
    /\ k = Leaving(left.coarse, Len(left.coarse), frame.end, r)
    /\ late <=> left.open # << >> /\ Past(Head(left.open).frame, frame.end, r)
    /\ gone = FadedOut(SubSeq(left.coarse, 1, k), IF late THEN Closed(left.open) ELSE << >>)
    /\ raw_frames' = SubSeq(frames, n + 1, Len(frames))
    /\ coarse' = SubSeq(left.coarse, k + 1, Len(left.coarse))
    /\ open' = IF late THEN << >> ELSE left.open
    /\ faded_out' = FadedSum(Plus(faded_out, guess), gone)

\* The parts of push_frame, named.
LEMMA PushHas ==
    ASSUME NEW frame, NEW guess, NEW r, PushFrame(frame, guess, r)
    PROVE  \E frames, n, left, k, late, gone : IsPush(frame, guess, r, frames, n, left, k, late, gone)
<1>1. PICK frames : frames = Append(raw_frames, frame) OBVIOUS
<1>2. PICK n : n = Leaving(frames, RAW_FRAMES, frame.end, r) OBVIOUS
<1>3. PICK left : left = Left([coarse |-> coarse, open |-> open], SubSeq(frames, 1, n), step_ms(r)) OBVIOUS
<1>4. PICK k : k = Leaving(left.coarse, Len(left.coarse), frame.end, r) OBVIOUS
<1>5. PICK late : late = (left.open # << >> /\ Past(Head(left.open).frame, frame.end, r)) OBVIOUS
<1>6. PICK gone : gone = FadedOut(SubSeq(left.coarse, 1, k), IF late THEN Closed(left.open) ELSE << >>)
    OBVIOUS
<1>7. /\ raw_frames' = SubSeq(frames, n + 1, Len(frames))
      /\ coarse' = SubSeq(left.coarse, k + 1, Len(left.coarse))
      /\ open' = IF late THEN << >> ELSE left.open
      /\ faded_out' = FadedSum(Plus(faded_out, guess), gone)
    BY <1>1, <1>2, <1>3, <1>4, <1>5, <1>6 DEF PushFrame, FadedSum, Left
<1>8. IsPush(frame, guess, r, frames, n, left, k, late, gone)
    BY <1>1, <1>2, <1>3, <1>4, <1>5, <1>6, <1>7 DEF IsPush
<1> QED BY <1>8

\* A step is some time wide.
LEMMA WidthIs == ASSUME NEW r \in Nat PROVE step_ms(r) \in Nat \ {0}
<1>1. STEP_MIN_MS \in Nat \ {0} /\ STEPS \in Nat \ {0} BY UsageAssumption
<1>2. PICK d \in Int : d = r \div STEPS BY <1>1
<1>3. Max({d, STEP_MIN_MS}) \in {d, STEP_MIN_MS} /\ Max({d, STEP_MIN_MS}) >= STEP_MIN_MS
    BY ONLY <1>1, d \in Int, OfTwo
<1>4. PICK w \in Int : w = Max({d, STEP_MIN_MS}) BY <1>1, <1>3
<1> QED BY <1>1, <1>2, <1>3, <1>4 DEF step_ms

\* A new frame carries on where the last ended; what passes the reach fades out.
LEMMA PushIs ==
    ASSUME NEW m, NEW n, NEW frame \in FrameT, NEW guess \in Counts, NEW r \in Nat,
           FramesReach(m), n \in Mark, Over(Shift(m, guess), frame, n), PushFrame(frame, guess, r)
    PROVE  FramesReach(n)' /\ Len(raw_frames') <= RAW_FRAMES
<1>0. m \in Mark /\ coarse \in Seq(FrameT) /\ open \in OpenT BY DEF FramesReach
<1>1. PICK a, b \in Mark :
        /\ a.sum = faded_out /\ Spread([coarse |-> coarse, open |-> open], a, b)
        /\ Covers(raw_frames, b, m)
    BY DEF FramesReach
<1>2. PICK frames, c, left, k, late, gone :
        IsPush(frame, guess, r, frames, c, left, k, late, gone)
    BY PushHas
<1>3. PICK aa \in Mark, bb \in Mark, mm \in Mark :
        aa = Shift(a, guess) /\ bb = Shift(b, guess) /\ mm = Shift(m, guess)
    BY <1>0, <1>1, ShiftIs
<1>4. aa.sum = Plus(faded_out, guess) BY <1>1, <1>3, ShiftIs
<1>5. PICK older : older = [coarse |-> coarse, open |-> open] OBVIOUS
<1>6. older \in OlderT BY <1>0, <1>5 DEF OlderT
<1>7. Spread(older, aa, bb)
    <2>1. PICK x : Covers(older.coarse, a, x) /\ Covers(Closed(older.open), x, b) BY <1>1, <1>5 DEF Spread
    <2>2. Covers(older.coarse, aa, Shift(x, guess)) /\ Covers(Closed(older.open), Shift(x, guess), bb)
        BY <1>3, <2>1, CoversShifted
    <2> QED BY <2>2 DEF Spread
<1>8. Covers(frames, bb, n)
    <2>1. Covers(raw_frames, bb, mm) BY <1>1, <1>3, CoversShifted
    <2>2. Covers(<<frame>>, mm, n) BY <1>3, CoversOne
    <2>3. Covers(raw_frames \o <<frame>>, bb, n) BY <2>1, <2>2, CoversBoth
    <2>4. raw_frames \in Seq(FrameT) BY <2>1 DEF Covers
    <2>5. Append(raw_frames, frame) = raw_frames \o <<frame>> BY <2>4, AppendIsConcat
    <2> QED BY <1>2, <2>3, <2>5 DEF IsPush
<1>9. frames \in Seq(FrameT) BY <1>8 DEF Covers
<1>10. RAW_FRAMES \in Nat /\ frame.end \in Nat /\ step_ms(r) \in Nat \ {0}
    BY UsageAssumption, WidthIs DEF FrameT
<1>11. c \in 0..Len(frames) /\ c >= Len(frames) - RAW_FRAMES
    <2>1. c = Leaving(frames, RAW_FRAMES, frame.end, r) BY <1>2 DEF IsPush
    <2> QED BY <1>9, <1>10, <2>1, LeavingIs
<1>12. PICK d : Covers(SubSeq(frames, 1, c), bb, d) /\ Covers(SubSeq(frames, c + 1, Len(frames)), d, n)
    BY <1>8, <1>11, CoversParts DEF Splits
<1>13. d \in Mark BY <1>12 DEF Covers
<1>14. left \in OlderT /\ Spread(left, aa, d)
    <2>1. left = Left(older, SubSeq(frames, 1, c), step_ms(r)) BY <1>2, <1>5 DEF IsPush
    <2>2. PICK w \in Nat \ {0} : w = step_ms(r) BY <1>10
    <2>3. PICK q : q = SubSeq(frames, 1, c) OBVIOUS
    <2>4. Covers(q, bb, d) BY <1>12, <2>3
    <2>5. Left(older, q, w) \in OlderT /\ Spread(Left(older, q, w), aa, d)
        BY ONLY <1>6, <1>7, <1>13, <2>4, aa \in Mark, bb \in Mark, w \in Nat \ {0}, LeftIs
    <2> QED BY <2>1, <2>2, <2>3, <2>5
<1>15. PICK e : Covers(left.coarse, aa, e) /\ Covers(Closed(left.open), e, d) BY <1>14 DEF Spread
<1>16. left.coarse \in Seq(FrameT) /\ left.open \in OpenT /\ e \in Mark BY <1>14, <1>15 DEF OlderT, Covers
<1>17. PICK l \in Nat : l = Len(left.coarse) BY <1>16
<1>18. k \in 0..l /\ (k < l => ~Past(left.coarse[k + 1], frame.end, r))
    <2>1. k = Leaving(left.coarse, l, frame.end, r) BY <1>2, <1>17 DEF IsPush
    <2> QED BY <1>10, <1>16, <1>17, <2>1, LeavingIs
<1>19. PICK x : Covers(SubSeq(left.coarse, 1, k), aa, x) /\ Covers(SubSeq(left.coarse, k + 1, l), x, e)
    BY <1>15, <1>17, <1>18, CoversParts DEF Splits
<1>20. /\ raw_frames' = SubSeq(frames, c + 1, Len(frames)) /\ coarse' = SubSeq(left.coarse, k + 1, l)
       /\ open' = IF late THEN << >> ELSE left.open
       /\ faded_out' = FadedSum(aa.sum, gone)
    BY <1>2, <1>4, <1>17 DEF IsPush
<1>21. Covers(raw_frames', d, n) BY <1>12, <1>20
<1>22. Len(raw_frames') <= RAW_FRAMES
    <2>1. Len(SubSeq(frames, c + 1, Len(frames))) = Len(frames) - c BY <1>9, <1>11, Parts
    <2>2. PICK z \in Nat : z = Len(frames) BY <1>9
    <2>3. z - c <= RAW_FRAMES BY <1>10, <1>11, <2>2
    <2> QED BY <1>20, <2>1, <2>2, <2>3
<1>23. CASE late
    <2>1. left.open # << >> /\ Past(Head(left.open).frame, frame.end, r) BY <1>2, <1>23 DEF IsPush
    <2>2. PICK s \in StepT : left.open = <<s>> /\ Head(left.open) = s BY <1>16, <2>1, OpenIs
    <2>3. s.frame \in FrameT BY DEF StepT
    <2>4. Closed(left.open) = <<s.frame>> BY <2>1, <2>2 DEF Closed
    <2>5. Over(e, s.frame, d) BY <1>13, <1>15, <1>16, <2>3, <2>4, CoversOne
    <2>6. k = l
        <3> SUFFICES ASSUME k < l PROVE FALSE BY <1>18
        <3>1. PICK f \in FrameT : f = left.coarse[k + 1] BY <1>16, <1>17, <1>18
        <3>2. k + 1 \in 1..l BY <1>18
        <3>3. f.end <= e.at BY <1>15, <1>17, <3>1, <3>2, CoversForward
        <3>4. e.at <= s.frame.end
            <4>1. e.at \in Nat /\ s.frame.span \in Nat /\ s.frame.end \in Nat BY <1>16, <2>3 DEF Mark, FrameT
            <4>2. s.frame.end = e.at + s.frame.span BY <2>5 DEF Over
            <4> QED BY <4>1, <4>2
        <3>5. f.end \in Nat /\ e.at \in Nat /\ s.frame.end \in Nat BY <1>16, <2>3 DEF Mark, FrameT
        <3>6. frame.end - s.frame.end > r BY <2>1, <2>2 DEF Past
        <3>7. ~(frame.end - f.end > r) BY <1>18, <3>1 DEF Past
        <3> QED BY <1>10, <3>3, <3>4, <3>5, <3>6, <3>7
    <2>7. SubSeq(left.coarse, k + 1, l) = << >>
        <3>1. SubSeq(left.coarse, k + 1, l) \in Seq(FrameT) /\ Len(SubSeq(left.coarse, k + 1, l)) = 0
            BY <1>16, <1>17, <1>18, <2>6, Parts
        <3> QED BY <3>1, EmptySeq
    <2>8. coarse' = << >> /\ open' = << >> BY <1>20, <1>23, <2>7
    <2>9. Covers(gone, aa, d)
        <3>1. SubSeq(left.coarse, 1, k) = left.coarse BY <1>16, <1>17, <2>6, SubSeqFull
        <3>2. gone = left.coarse \o Closed(left.open) BY <1>2, <1>23, <3>1 DEF IsPush, FadedOut
        <3> QED BY <1>15, <3>2, CoversBoth
    <2>10. faded_out' = d.sum BY <1>20, <2>9, FadedSumIs
    <2>11. Spread([coarse |-> coarse', open |-> open'], d, d)
        <3>1. Closed(<< >>) = << >> BY DEF Closed
        <3> QED BY <1>13, <2>8, <3>1, CoversNone DEF Spread
    <2>12. coarse' \in Seq(FrameT) /\ open' \in OpenT BY <2>8 DEF OpenT
    <2> QED BY <1>13, <1>21, <1>22, <2>10, <2>11, <2>12 DEF FramesReach
<1>24. CASE ~late
    <2>1. gone = SubSeq(left.coarse, 1, k) \o << >> BY <1>2, <1>24 DEF IsPush, FadedOut
    <2>2. SubSeq(left.coarse, 1, k) \in Seq(FrameT) /\ x \in Mark BY <1>19 DEF Covers
    <2>3. gone = SubSeq(left.coarse, 1, k) BY <2>1, <2>2, ConcatEmptySeq
    <2>4. faded_out' = x.sum BY <1>19, <1>20, <2>3, FadedSumIs
    <2>5. open' = left.open BY <1>20, <1>24
    <2>6. Spread([coarse |-> coarse', open |-> open'], x, d) BY <1>15, <1>19, <1>20, <2>5 DEF Spread
    <2>7. coarse' \in Seq(FrameT) /\ open' \in OpenT BY <1>16, <1>19, <1>20, <2>5 DEF Covers
    <2> QED BY <1>13, <1>21, <1>22, <2>2, <2>4, <2>6, <2>7 DEF FramesReach
<1> QED BY <1>23, <1>24

GrowsBy(h, f, d, R, T) == \A k \in T : h[k] = f[k] + (IF k \in R THEN d[k] ELSE 0)

\* The sum of what grows is the sum before and the sum of what it grew by.
LEMMA SumGrows ==
    ASSUME NEW S, IsFiniteSet(S), NEW f \in [S -> Nat], NEW h \in [S -> Nat],
           NEW D \in SUBSET S, NEW d \in [D -> Nat], NEW R \in SUBSET D, NEW T \in SUBSET S,
           GrowsBy(h, f, d, R, T)
    PROVE  /\ SumFunctionOnSet(h, T) = SumFunctionOnSet(f, T) + SumFunctionOnSet(d, T \cap R)
           /\ SumFunctionOnSet(h, T) \in Nat /\ SumFunctionOnSet(f, T) \in Nat
           /\ SumFunctionOnSet(d, T \cap R) \in Nat
<1>0. IsFiniteSet(D) BY FS_Subset
<1>1. PICK F : Sums(F, S, f) BY SumIs
<1>2. PICK H : Sums(H, S, h) BY SumIs
<1>3. PICK E : Sums(E, D, d) BY <1>0, SumIs
<1>4. /\ F \in [SUBSET S -> Nat] /\ F[{}] = 0
      /\ \A s \in SUBSET S, x \in S : x \notin s => F[s \cup {x}] = f[x] + F[s]
      /\ \A s \in SUBSET S : SumFunctionOnSet(f, s) = F[s]
    BY <1>1 DEF Sums
<1>5. /\ H \in [SUBSET S -> Nat] /\ H[{}] = 0
      /\ \A s \in SUBSET S, x \in S : x \notin s => H[s \cup {x}] = h[x] + H[s]
      /\ \A s \in SUBSET S : SumFunctionOnSet(h, s) = H[s]
    BY <1>2 DEF Sums
<1>6. /\ E \in [SUBSET D -> Nat] /\ E[{}] = 0
      /\ \A s \in SUBSET D, x \in D : x \notin s => E[s \cup {x}] = d[x] + E[s]
      /\ \A s \in SUBSET D : SumFunctionOnSet(d, s) = E[s]
    BY <1>3 DEF Sums
<1> DEFINE In == {k \in Nat : \A s \in SUBSET T : Cardinality(s) <= k => H[s] = F[s] + E[s \cap R]}
<1>7. 0 \in In
    <2> SUFFICES ASSUME NEW s \in SUBSET T, Cardinality(s) <= 0 PROVE H[s] = F[s] + E[s \cap R] OBVIOUS
    <2>1. s \in SUBSET S OBVIOUS
    <2>2. Cardinality(s) \in Nat /\ (s = {} <=> Cardinality(s) = 0) BY <2>1, WithoutFirst
    <2>3. s = {} /\ s \cap R = {} BY <2>2
    <2> QED BY <1>4, <1>5, <1>6, <2>3
<1>8. ASSUME NEW k \in Nat, k \in In PROVE k + 1 \in In
    <2> SUFFICES ASSUME NEW s \in SUBSET T, Cardinality(s) <= k + 1 PROVE H[s] = F[s] + E[s \cap R]
        OBVIOUS
    <2>1. s \in SUBSET S OBVIOUS
    <2>2. CASE s = {}
        <3>1. s \cap R = {} BY <2>2
        <3> QED BY <1>4, <1>5, <1>6, <2>2, <3>1
    <2>3. CASE s # {}
        <3>1. PICK x, rest : x = First(s) /\ rest = s \ {First(s)} OBVIOUS
        <3>2. Cardinality(s) \in Nat /\ Cardinality(rest) = Cardinality(s) - 1 /\ x \in s
            BY <2>1, <2>3, <3>1, WithoutFirst
        <3>3. Cardinality(rest) <= k BY <3>2
        <3>4. rest \in SUBSET T /\ rest \in SUBSET S /\ x \in S /\ x \in T /\ x \notin rest
              /\ rest \cup {x} = s /\ rest \cap R \in SUBSET D
            BY <3>1, <3>2
        <3>5. H[rest] = F[rest] + E[rest \cap R] BY <1>8, <3>3, <3>4
        <3>6. H[s] = h[x] + H[rest] /\ F[s] = f[x] + F[rest] BY <1>4, <1>5, <3>4
        <3>7. PICK a \in Nat, b \in Nat, c \in Nat : a = f[x] /\ b = F[rest] /\ c = E[rest \cap R]
            BY <1>4, <1>6, <3>4
        <3>8. CASE x \in R
            <4>1. s \cap R = (rest \cap R) \cup {x} /\ x \notin rest \cap R /\ x \in D BY <3>4, <3>8
            <4>2. E[s \cap R] = d[x] + c BY <1>6, <3>4, <3>7, <4>1
            <4>3. h[x] = a + d[x] /\ d[x] \in Nat BY <3>4, <3>7, <3>8, <4>1 DEF GrowsBy
            <4> QED BY <3>5, <3>6, <3>7, <4>2, <4>3
        <3>9. CASE x \notin R
            <4>1. s \cap R = rest \cap R BY <3>4, <3>9
            <4>2. h[x] = a BY <3>4, <3>7, <3>9 DEF GrowsBy
            <4>3. H[s] = a + (b + c) /\ F[s] = a + b /\ E[s \cap R] = c BY <3>5, <3>6, <3>7, <4>1, <4>2
            <4>4. a + (b + c) = (a + b) + c OBVIOUS
            <4> QED BY <4>3, <4>4
        <3> QED BY <3>8, <3>9
    <2> QED BY <2>2, <2>3
<1>9. \A k \in Nat : k \in In
    <2> HIDE DEF In
    <2> QED BY <1>7, <1>8, NatSetInduction
<1>10. Cardinality(T) \in Nat BY WithoutFirst
<1>11. Cardinality(T) \in In BY <1>9, <1>10
<1>12. H[T] = F[T] + E[T \cap R] BY <1>10, <1>11
<1>13. T \cap R \in SUBSET D OBVIOUS
<1> QED BY <1>4, <1>5, <1>6, <1>12, <1>13

\* The same as one fact.
Growing(S, f, h, D, d, R, T, Q) ==
    /\ IsFiniteSet(S) /\ f \in [S -> Nat] /\ h \in [S -> Nat] /\ D \in SUBSET S /\ d \in [D -> Nat]
    /\ R \in SUBSET D /\ T \in SUBSET S /\ Q = T \cap R
    /\ GrowsBy(h, f, d, R, T)

GrownSum(h, f, d, T, Q) ==
    /\ SumFunctionOnSet(h, T) = SumFunctionOnSet(f, T) + SumFunctionOnSet(d, Q)
    /\ SumFunctionOnSet(h, T) \in Nat /\ SumFunctionOnSet(f, T) \in Nat
    /\ SumFunctionOnSet(d, Q) \in Nat

\* The same as one fact.
LEMMA SumHasGrown ==
    ASSUME NEW S, NEW f, NEW h, NEW D, NEW d, NEW R, NEW T, NEW Q, Growing(S, f, h, D, d, R, T, Q)
    PROVE  GrownSum(h, f, d, T, Q)
<1>1. /\ IsFiniteSet(S) /\ f \in [S -> Nat] /\ h \in [S -> Nat] /\ D \in SUBSET S /\ d \in [D -> Nat]
      /\ R \in SUBSET D /\ T \in SUBSET S /\ GrowsBy(h, f, d, R, T)
    BY DEF Growing
<1>2. /\ SumFunctionOnSet(h, T) = SumFunctionOnSet(f, T) + SumFunctionOnSet(d, T \cap R)
      /\ SumFunctionOnSet(h, T) \in Nat /\ SumFunctionOnSet(f, T) \in Nat
      /\ SumFunctionOnSet(d, T \cap R) \in Nat
    BY ONLY <1>1, SumGrows
<1>3. Q = T \cap R BY DEF Growing
<1> QED BY <1>2, <1>3 DEF GrownSum

\* A sum of counts is a count.
LEMMA SumIsCount ==
    ASSUME NEW S, IsFiniteSet(S), NEW f \in [S -> Nat], NEW T \in SUBSET S
    PROVE  SumFunctionOnSet(f, T) \in Nat
<1>1. PICK F : Sums(F, S, f) BY SumIs
<1> QED BY <1>1 DEF Sums

\* Nothing adds up to nothing.
LEMMA SumOfNothing ==
    ASSUME NEW S, IsFiniteSet(S), NEW f \in [S -> Nat], NEW T \in SUBSET S, \A k \in T : f[k] = 0
    PROVE  SumFunctionOnSet(f, T) = 0
<1>1. GrowsBy(f, f, f, S, T) BY DEF GrowsBy
<1>2. S \in SUBSET S OBVIOUS
<1>3. SumFunctionOnSet(f, T) = SumFunctionOnSet(f, T) + SumFunctionOnSet(f, T \cap S)
      /\ SumFunctionOnSet(f, T) \in Nat
    BY ONLY IsFiniteSet(S), f \in [S -> Nat], T \in SUBSET S, <1>1, <1>2, SumGrows
<1>4. PICK n \in Nat : n = SumFunctionOnSet(f, T) BY <1>3
<1>5. n = n + n
    <2>1. T \cap S = T OBVIOUS
    <2> QED BY <1>3, <1>4, <2>1
<1>6. n = 0 BY <1>5
<1> QED BY <1>4, <1>6

-----------------------------------------------------------------------------
(* The accounts                                                             *)

Known == DOMAIN running \cup ended

\* What a process used while it was watched.
Watched == [k \in Processes |-> used[k] - unwatched[k]]

\* Totals are kept of those that run and some that have run; a process nobody has seen
\* yet has used nothing, unless it was running before the session.
Accounts ==
    /\ used \in [Processes -> Nat] /\ unwatched \in [Processes -> Nat]
    /\ \A k \in Processes : unwatched[k] <= used[k]
    /\ \A k \in Processes \ Known : unwatched[k] = 0 /\ (k \notin Early => used[k] = 0)
    /\ DOMAIN running \subseteq DOMAIN procs /\ DOMAIN procs \subseteq Known
    /\ DOMAIN seen \subseteq Known
    /\ \A k \in DOMAIN procs : procs[k].last = used[k] /\ procs[k].total = used[k] - unwatched[k]

\* What a snapshot adds to the totals, by process.
Grown(k, snap) == Used(k, snap) + Guess(k, snap)

\* How the accounts grow with a snapshot of what runs.
Grows(snap, R) ==
    /\ Known' = Known \cup R
    /\ \A k \in R : Used(k, snap) \in Nat /\ Guess(k, snap) \in Nat
    /\ \A k \in R : Watched'[k] = (IF k \in Known THEN Watched[k] ELSE 0) + Grown(k, snap)
    /\ \A k \in Processes \ R : Watched'[k] = Watched[k]

\* A snapshot adds to each total what the process used since the last, or before it was watched.
LEMMA AccountsGrow ==
    ASSUME Clock, Lineage, Accounts, NEW at, NEW interval, NEW cycles, NEW snap, NEW R, NEW ghosts,
           IsSnapshot(at, interval, cycles, snap, R, ghosts)
    PROVE  Accounts' /\ Grows(snap, R)
<1>1. /\ R \in SUBSET Processes /\ R \cap ended = {} /\ DOMAIN snap = R
      /\ ghosts \in SUBSET (DOMAIN procs \ R)
      /\ cycles = [k \in Processes |-> used[k] + (IF k \in R THEN Rate[k] ELSE 0)]
      /\ \A k \in R : snap[k].cycles = cycles[k]
      /\ running' = snap /\ used' = cycles /\ ended' = ended \cup (DOMAIN running \ R)
      /\ Observe(at, snap, ghosts, reach)
    BY DEF IsSnapshot
<1>2. /\ used \in [Processes -> Nat] /\ unwatched \in [Processes -> Nat] /\ Rate \in [Processes -> Nat]
      /\ \A k \in Processes : unwatched[k] <= used[k]
      /\ \A k \in Processes \ Known : unwatched[k] = 0 /\ (k \notin Early => used[k] = 0)
      /\ DOMAIN running \subseteq DOMAIN procs /\ DOMAIN procs \subseteq Known
      /\ DOMAIN seen \subseteq Known /\ DOMAIN running \subseteq DOMAIN seen
      /\ \A k \in DOMAIN procs : procs[k].last = used[k] /\ procs[k].total = used[k] - unwatched[k]
    BY HistoriesAssumption DEF Accounts, Lineage
<1>3. /\ procs' = [k \in R \cup ghosts |->
                        IF k \in R
                        THEN [last |-> snap[k].cycles, total |-> Total(k, snap), alive |-> TRUE]
                        ELSE [procs[k] EXCEPT !.alive = FALSE]]
      /\ unwatched' = [k \in Processes |->
                            IF begun /\ k \in (Early \cap R) \ DOMAIN seen
                            THEN snap[k].cycles ELSE unwatched[k]]
    BY <1>1 DEF Observe
<1>4. used' \in [Processes -> Nat] /\ (\A k \in R : used'[k] = used[k] + Rate[k])
      /\ \A k \in Processes \ R : used'[k] = used[k]
    BY <1>1, <1>2
<1>5. DOMAIN running' = R /\ Known' = Known \cup R
    <2>1. DOMAIN running' = R BY <1>1
    <2> QED BY <1>1, <2>1 DEF Known
<1>6. begun \in BOOLEAN /\ (begun = FALSE => Known = {})
    BY DEF Clock, Known

\* A process that runs either ran before, with a total, or is new.
<1>7. ASSUME NEW k \in R, k \in Known
      PROVE  /\ unwatched'[k] = unwatched[k] /\ Used(k, snap) = Rate[k] /\ Guess(k, snap) = 0
             /\ Total(k, snap) = used'[k] - unwatched'[k]
    <2>1. k \in DOMAIN running /\ k \in DOMAIN procs /\ k \in DOMAIN seen /\ begun = TRUE
        BY <1>1, <1>2, <1>6, <1>7 DEF Known
    <2>2. unwatched'[k] = unwatched[k] BY <1>1, <1>3, <2>1
    <2>3. PICK a \in Nat, b \in Nat, c \in Nat : a = used[k] /\ b = Rate[k] /\ c = unwatched[k]
        BY <1>1, <1>2
    <2>4. snap[k].cycles = a + b /\ procs[k].last = a /\ procs[k].total = a - c
        BY <1>1, <1>2, <1>4, <2>1, <2>3
    <2>5. Max({(a + b) - a, 0}) = b
        <3>1. PICK e \in Int : e = (a + b) - a OBVIOUS
        <3>2. e = b BY <3>1
        <3>3. 0 \in Int OBVIOUS
        <3>4. Max({e, 0}) \in {e, 0} /\ Max({e, 0}) >= e BY ONLY e \in Int, <3>3, OfTwo
        <3>5. Max({e, 0}) = e BY <3>2, <3>4
        <3> QED BY <3>1, <3>2, <3>5
    <2>6. Used(k, snap) = b /\ Guess(k, snap) = 0 BY <2>1, <2>4, <2>5 DEF Used, Guess
    <2>7. Total(k, snap) = (a - c) + b BY <2>1, <2>4, <2>6 DEF Total
    <2>8. (a - c) + b = (a + b) - c OBVIOUS
    <2> QED BY <1>4, <2>2, <2>3, <2>6, <2>7, <2>8
<1>8. ASSUME NEW k \in R, k \notin Known
      PROVE  /\ Used(k, snap) \in Nat /\ Guess(k, snap) \in Nat
             /\ unwatched'[k] \in Nat /\ unwatched'[k] <= used'[k]
             /\ Total(k, snap) = used'[k] - unwatched'[k]
             /\ Used(k, snap) + Guess(k, snap) = used'[k] - unwatched'[k]
    <2>1. k \notin DOMAIN procs /\ k \notin DOMAIN seen /\ k \in Processes BY <1>1, <1>2, <1>8
    <2>2. PICK u \in Nat : u = used'[k] BY <1>4, <2>1
    <2>3. snap[k].cycles = u /\ unwatched[k] = 0 BY <1>1, <1>2, <1>8, <2>1, <2>2
    <2>4. CASE begun = TRUE /\ k \in Early
        <3>1. unwatched'[k] = u BY <1>3, <2>1, <2>3, <2>4
        <3>2. Used(k, snap) = 0 /\ Guess(k, snap) = 0 BY <2>1, <2>4 DEF Used, Guess
        <3>3. Total(k, snap) = 0 BY <2>1, <3>2 DEF Total
        <3> QED BY <2>2, <3>1, <3>2, <3>3
    <2>5. CASE begun = TRUE /\ k \notin Early
        <3>1. unwatched'[k] = 0 BY <1>3, <2>1, <2>3, <2>5
        <3>2. Used(k, snap) = u /\ Guess(k, snap) = 0 BY <2>1, <2>3, <2>5 DEF Used, Guess
        <3>3. Total(k, snap) = u BY <2>1, <3>2 DEF Total
        <3> QED BY <2>2, <3>1, <3>2, <3>3
    <2>6. CASE begun = FALSE
        <3>1. unwatched'[k] = 0 BY <1>3, <2>1, <2>3, <2>6
        <3>2. Used(k, snap) = 0 /\ Guess(k, snap) = u BY <2>1, <2>3, <2>6 DEF Used, Guess
        <3>3. Total(k, snap) = u BY <2>1, <3>2 DEF Total
        <3> QED BY <2>2, <3>1, <3>2, <3>3
    <2> QED BY <1>6, <2>4, <2>5, <2>6
<1>9. \A k \in Processes \ R : unwatched'[k] = unwatched[k] BY <1>3
<1>10. unwatched' \in [Processes -> Nat] /\ \A k \in Processes : unwatched'[k] <= used'[k]
    <2>1. ASSUME NEW k \in Processes PROVE unwatched'[k] \in Nat /\ unwatched'[k] <= used'[k]
        <3>1. CASE k \notin R BY <1>2, <1>4, <1>9, <3>1
        <3>2. CASE k \in R /\ k \notin Known BY <1>8, <3>2
        <3>3. CASE k \in R /\ k \in Known
            <4>1. unwatched'[k] = unwatched[k] /\ used'[k] = used[k] + Rate[k] BY <1>4, <1>7, <3>3
            <4>2. unwatched[k] \in Nat /\ used[k] \in Nat /\ Rate[k] \in Nat /\ unwatched[k] <= used[k]
                BY <1>2
            <4> QED BY <4>1, <4>2
        <3> QED BY <3>1, <3>2, <3>3
    <2> QED BY <1>3, <2>1
<1>11. DOMAIN procs' = R \cup ghosts /\ (\A k \in R : procs'[k].last = used'[k] /\ procs'[k].total = Total(k, snap))
       /\ \A k \in ghosts : procs'[k].last = procs[k].last /\ procs'[k].total = procs[k].total
    <2>1. DOMAIN procs' = R \cup ghosts BY <1>3
    <2>2. ASSUME NEW k \in R PROVE procs'[k].last = used'[k] /\ procs'[k].total = Total(k, snap)
        BY <1>1, <1>3
    <2>3. ASSUME NEW k \in ghosts PROVE procs'[k].last = procs[k].last /\ procs'[k].total = procs[k].total
        <3>1. procs'[k] = [procs[k] EXCEPT !.alive = FALSE] BY <1>1, <1>3
        <3> QED BY <3>1
    <2> QED BY <2>1, <2>2, <2>3
<1>12. DOMAIN seen' \subseteq DOMAIN seen \cup R
    <2>1. PICK lin : lin = See(snap) OBVIOUS
    <2>2. DOMAIN lin = DOMAIN seen \cup R BY <1>1, <2>1 DEF See
    <2>3. \/ seen' = lin
          \/ seen' = [k \in Ancestry(Recent(lin, now' - reach), lin) |-> lin[k]]
        BY <1>1, <2>1 DEF Observe, Trim
    <2> QED BY <2>2, <2>3 DEF Ancestry
<1>13. Grows(snap, R)
    <2>1. \A k \in Processes : Watched'[k] = used'[k] - unwatched'[k] /\ Watched[k] = used[k] - unwatched[k]
        BY DEF Watched
    <2>2. ASSUME NEW k \in R
          PROVE  /\ Used(k, snap) \in Nat /\ Guess(k, snap) \in Nat
                 /\ Watched'[k] = (IF k \in Known THEN Watched[k] ELSE 0) + Grown(k, snap)
        <3>0. k \in Processes BY <1>1
        <3>1. CASE k \in Known
            <4>1. PICK a \in Nat, b \in Nat, c \in Nat : a = used[k] /\ b = Rate[k] /\ c = unwatched[k]
                BY <1>2, <3>0
            <4>2. Used(k, snap) = b /\ Guess(k, snap) = 0 /\ unwatched'[k] = c /\ used'[k] = a + b
                BY <1>4, <1>7, <3>1, <4>1
            <4>3. (a + b) - c = (a - c) + (b + 0) OBVIOUS
            <4> QED BY <2>1, <3>0, <3>1, <4>1, <4>2, <4>3 DEF Grown
        <3>2. CASE k \notin Known
            <4>1. PICK z \in Nat : z = Used(k, snap) + Guess(k, snap) BY <1>8, <3>2
            <4>2. z = used'[k] - unwatched'[k] BY <1>8, <3>2, <4>1
            <4> QED BY <1>8, <2>1, <3>0, <3>2, <4>1, <4>2 DEF Grown
        <3> QED BY <3>1, <3>2
    <2>3. ASSUME NEW k \in Processes \ R PROVE Watched'[k] = Watched[k] BY <1>4, <1>9, <2>1
    <2> QED BY <1>5, <2>2, <2>3 DEF Grows
<1>14. ASSUME NEW k \in Processes \ Known' PROVE unwatched'[k] = 0 /\ (k \notin Early => used'[k] = 0)
    BY <1>2, <1>4, <1>5, <1>9
<1>15. ASSUME NEW k \in DOMAIN procs'
       PROVE  procs'[k].last = used'[k] /\ procs'[k].total = used'[k] - unwatched'[k]
    <2>1. CASE k \in R BY <1>7, <1>8, <1>11, <2>1
    <2>2. CASE k \in ghosts /\ k \notin R
        <3>1. k \in DOMAIN procs /\ k \in Processes BY <1>1, <1>2, <2>2 DEF Known, Clock
        <3> QED BY <1>2, <1>4, <1>9, <1>11, <2>2, <3>1
    <2> QED BY <1>11, <2>1, <2>2
<1>16. DOMAIN running' \subseteq DOMAIN procs' /\ DOMAIN procs' \subseteq Known' /\ DOMAIN seen' \subseteq Known'
    BY <1>1, <1>2, <1>5, <1>11, <1>12
<1>17. Accounts' BY <1>4, <1>10, <1>14, <1>15, <1>16 DEF Accounts
<1> QED BY <1>13, <1>17

\* What every process used while it was watched, and what that comes to by program.
Watching == [k \in Processes |-> IF k \in Known THEN Watched[k] ELSE 0]
TotalOf == [g \in Programs |-> SumFunctionOnSet(Watching, Of(g, Processes))]

ByPrograms(f, R) == [g \in Programs |-> SumFunctionOnSet(f, Of(g, R))]

\* What the processes of each program come to is a count.
LEMMA ByProgramsAre ==
    ASSUME NEW R \in SUBSET Processes, NEW f \in [R -> Nat]
    PROVE  ByPrograms(f, R) \in Counts
<1>1. IsFiniteSet(R) BY FS_Subset, UsageAssumption
<1>2. ASSUME NEW g \in Programs PROVE SumFunctionOnSet(f, Of(g, R)) \in Nat
    <2>1. Of(g, R) \in SUBSET R BY DEF Of
    <2> QED BY ONLY <1>1, <2>1, f \in [R -> Nat], SumIsCount
<1> QED BY <1>2 DEF ByPrograms, Counts

\* What has been watched is a count.
LEMMA WatchingIs ==
    ASSUME Clock, Accounts
    PROVE  /\ Watched \in [Processes -> Nat] /\ Watching \in [Processes -> Nat] /\ TotalOf \in Counts
           /\ Known \subseteq Processes
<1>1. ASSUME NEW k \in Processes PROVE used[k] - unwatched[k] \in Nat
    <2>1. used[k] \in Nat /\ unwatched[k] \in Nat /\ unwatched[k] <= used[k] BY DEF Accounts
    <2> QED BY <2>1
<1>2. Watched \in [Processes -> Nat] BY <1>1 DEF Watched
<1>3. Watching \in [Processes -> Nat] BY <1>2 DEF Watching
<1>4. ByPrograms(Watching, Processes) \in Counts
    <2>1. Processes \in SUBSET Processes OBVIOUS
    <2> QED BY <1>3, <2>1, ByProgramsAre
<1>5. TotalOf \in Counts BY <1>4 DEF TotalOf, ByPrograms
<1> QED BY <1>2, <1>3, <1>5 DEF Known, Clock

\* All there is to chart grows by what a snapshot's frame and guess hold.
LEMMA TotalGrows ==
    ASSUME Clock, Accounts, Clock', Accounts', NEW snap, NEW R \in SUBSET Processes, Grows(snap, R),
           NEW u, u = [k \in R |-> Used(k, snap)], NEW v, v = [k \in R |-> Guess(k, snap)]
    PROVE  /\ ByPrograms(u, R) \in Counts /\ ByPrograms(v, R) \in Counts
           /\ TotalOf' = Plus(Plus(TotalOf, ByPrograms(v, R)), ByPrograms(u, R))
<1>1. \A k \in R : Used(k, snap) \in Nat /\ Guess(k, snap) \in Nat BY DEF Grows
<1>2. u \in [R -> Nat] /\ v \in [R -> Nat] BY <1>1
<1>3. PICK d : d = [k \in R |-> v[k] + u[k]] OBVIOUS
<1>4. d \in [R -> Nat] /\ \A k \in R : d[k] = v[k] + u[k] BY <1>2, <1>3
<1>5. PICK w, ww : w = Watching /\ ww = Watching' OBVIOUS
<1>6. w \in [Processes -> Nat] /\ Known \subseteq Processes BY <1>5, WatchingIs
<1>7. Watched' \in [Processes -> Nat] /\ ww \in [Processes -> Nat]
    <2>1. (Clock /\ Accounts) => (Watched \in [Processes -> Nat] /\ Watching \in [Processes -> Nat])
        BY WatchingIs
    <2>2. \A k \in Processes : used'[k] - unwatched'[k] \in Nat
        <3>1. ASSUME NEW k \in Processes PROVE used'[k] - unwatched'[k] \in Nat
            <4>1. used'[k] \in Nat /\ unwatched'[k] \in Nat /\ unwatched'[k] <= used'[k] BY DEF Accounts
            <4> QED BY <4>1
        <3> QED BY <3>1
    <2>3. Watched' = [k \in Processes |-> used'[k] - unwatched'[k]] BY DEF Watched
    <2>4. Watched' \in [Processes -> Nat] BY <2>2, <2>3
    <2>5. ww = [k \in Processes |-> IF k \in Known' THEN Watched'[k] ELSE 0] BY <1>5 DEF Watching
    <2> QED BY <2>4, <2>5
<1>8. ASSUME NEW k \in Processes PROVE ww[k] = w[k] + (IF k \in R THEN d[k] ELSE 0)
    <2>1. ww[k] = (IF k \in Known \cup R THEN Watched'[k] ELSE 0) /\ w[k] = (IF k \in Known THEN Watched[k] ELSE 0)
        BY <1>5 DEF Watching, Grows
    <2>2. w[k] \in Nat /\ ww[k] \in Nat BY <1>6, <1>7
    <2>3. CASE k \in R
        <3>1. Watched'[k] = (IF k \in Known THEN Watched[k] ELSE 0) + (Used(k, snap) + Guess(k, snap))
            BY <2>3 DEF Grows, Grown
        <3>2. d[k] = Guess(k, snap) + Used(k, snap) BY <1>4, <2>3
        <3>3. Used(k, snap) + Guess(k, snap) = Guess(k, snap) + Used(k, snap) BY <1>1, <2>3
        <3> QED BY <2>1, <2>3, <3>1, <3>2, <3>3
    <2>4. CASE k \notin R
        <3>1. Watched'[k] = Watched[k] BY <2>4 DEF Grows
        <3> QED BY <2>1, <2>2, <2>4, <3>1
    <2> QED BY <2>3, <2>4
<1>9. IsFiniteSet(Processes) /\ IsFiniteSet(R) BY FS_Subset, UsageAssumption
<1>10. ASSUME NEW g \in Programs
       PROVE  SumFunctionOnSet(ww, Of(g, Processes)) =
                (SumFunctionOnSet(w, Of(g, Processes)) + SumFunctionOnSet(v, Of(g, R)))
                    + SumFunctionOnSet(u, Of(g, R))
    <2>1. PICK P, T, Q : P = Processes /\ T = Of(g, Processes) /\ Q = Of(g, R) OBVIOUS
    <2>2. T \in SUBSET P /\ Q \in SUBSET R /\ R \in SUBSET P /\ R \in SUBSET R BY <2>1 DEF Of
    <2>11. T \cap R = Q /\ Q \cap R = Q BY <2>1, <2>2 DEF Of
    <2>3. GrowsBy(ww, w, d, R, T) BY <1>8, <2>1, <2>2 DEF GrowsBy
    <2>4. GrowsBy(d, v, u, R, Q) BY <1>4, <2>2 DEF GrowsBy
    <2>5. IsFiniteSet(P) /\ w \in [P -> Nat] /\ ww \in [P -> Nat] BY <1>6, <1>7, <1>9, <2>1
    <2>12. Growing(P, w, ww, R, d, R, T, Q) BY <1>4, <2>2, <2>3, <2>5, <2>11 DEF Growing
    <2>13. Growing(R, v, d, R, u, R, Q, Q) BY <1>2, <1>4, <1>9, <2>2, <2>4, <2>11 DEF Growing
    <2>14. GrownSum(ww, w, d, T, Q) /\ GrownSum(d, v, u, Q, Q) BY <2>12, <2>13, SumHasGrown
    <2>6. SumFunctionOnSet(ww, T) = SumFunctionOnSet(w, T) + SumFunctionOnSet(d, Q)
          /\ SumFunctionOnSet(w, T) \in Nat
        BY <2>14 DEF GrownSum
    <2>7. SumFunctionOnSet(d, Q) = SumFunctionOnSet(v, Q) + SumFunctionOnSet(u, Q)
          /\ SumFunctionOnSet(v, Q) \in Nat /\ SumFunctionOnSet(u, Q) \in Nat
        BY <2>14 DEF GrownSum
    <2>8. PICK a \in Nat, b \in Nat, c \in Nat :
            a = SumFunctionOnSet(w, T) /\ b = SumFunctionOnSet(v, Q) /\ c = SumFunctionOnSet(u, Q)
        BY <2>6, <2>7
    <2>9. SumFunctionOnSet(ww, T) = a + (b + c) BY <2>6, <2>7, <2>8
    <2>10. a + (b + c) = (a + b) + c OBVIOUS
    <2> QED BY <2>1, <2>8, <2>9, <2>10
<1>11. ByPrograms(u, R) \in Counts /\ ByPrograms(v, R) \in Counts BY <1>2, ByProgramsAre
<1>12. TotalOf' = [g \in Programs |-> SumFunctionOnSet(ww, Of(g, Processes))]
       /\ TotalOf = [g \in Programs |-> SumFunctionOnSet(w, Of(g, Processes))]
    BY <1>5 DEF TotalOf
<1>13. Plus(Plus(TotalOf, ByPrograms(v, R)), ByPrograms(u, R)) =
        [g \in Programs |-> (SumFunctionOnSet(w, Of(g, Processes)) + SumFunctionOnSet(v, Of(g, R)))
                                + SumFunctionOnSet(u, Of(g, R))]
    BY <1>12 DEF Plus, ByPrograms
<1> QED BY <1>10, <1>11, <1>12, <1>13

\* The frames run from what has faded out to now and to what was used while watched.
Framed ==
    IF begun
    THEN /\ \E m \in Mark : m.at = now /\ m.sum = TotalOf /\ FramesReach(m)
         /\ Len(raw_frames) <= RAW_FRAMES
    ELSE /\ raw_frames = << >> /\ coarse = << >> /\ open = << >> /\ faded_out = Nothing
         /\ TotalOf = Nothing

\* What a snapshot does to the frames, with the names of observe.
IsObserved(at, R, snap, span, u, v, frame, guess) ==
    /\ span = (IF begun THEN Max({at - now, 0}) ELSE 0)
    /\ u = [k \in R |-> Used(k, snap)] /\ v = [k \in R |-> Guess(k, snap)]
    /\ guess = ByPrograms(v, R)
    /\ frame = FrameOf(at, span, ByPrograms(u, R), ByPrograms([k \in R |-> span], R))
    /\ IF span > 0 THEN PushFrame(frame, guess, reach)
       ELSE faded_out' = Plus(faded_out, guess) /\ UNCHANGED <<raw_frames, coarse, open>>

\* The parts of observe, named.
LEMMA ObservedHas ==
    ASSUME NEW at, NEW snap, NEW ghosts, NEW R, R = DOMAIN snap, Observe(at, snap, ghosts, reach)
    PROVE  \E span, u, v, frame, guess : IsObserved(at, R, snap, span, u, v, frame, guess)
<1>1. PICK span : span = (IF begun THEN Max({at - now, 0}) ELSE 0) OBVIOUS
<1>2. PICK u, v : u = [k \in R |-> Used(k, snap)] /\ v = [k \in R |-> Guess(k, snap)] OBVIOUS
<1>3. PICK frame, guess : guess = ByPrograms(v, R)
        /\ frame = FrameOf(at, span, ByPrograms(u, R), ByPrograms([k \in R |-> span], R))
    OBVIOUS
<1>4. IF span > 0 THEN PushFrame(frame, guess, reach)
       ELSE faded_out' = Plus(faded_out, guess) /\ UNCHANGED <<raw_frames, coarse, open>>
    BY <1>1, <1>2, <1>3 DEF Observe, ByPrograms
<1>5. IsObserved(at, R, snap, span, u, v, frame, guess) BY <1>1, <1>2, <1>3, <1>4 DEF IsObserved
<1> QED BY <1>5

\* Every step keeps the frames adding up, from what has faded out to all there is.
LEMMA FramedStep == ASSUME Clock, Clock', Lineage, Accounts, Framed, [Next]_vars PROVE Accounts' /\ Framed'
<1>1. ASSUME NEW at, NEW interval, NEW cycles, NEW snap, NEW R, NEW ghosts,
             IsSnapshot(at, interval, cycles, snap, R, ghosts)
      PROVE  Accounts' /\ Framed'
    <2>1. Accounts' /\ Grows(snap, R) BY <1>1, AccountsGrow
    <2>2. R \in SUBSET Processes /\ R = DOMAIN snap /\ at \in Nat /\ at > now /\ now' = at /\ begun' = TRUE
          /\ Observe(at, snap, ghosts, reach)
        BY <1>1 DEF IsSnapshot
    <2>3. now \in Nat /\ reach \in Nat /\ begun \in BOOLEAN BY HistoriesAssumption DEF Clock
    <2>4. PICK span, u, v, frame, guess : IsObserved(at, R, snap, span, u, v, frame, guess)
        BY <2>2, ObservedHas
    <2>5. /\ u = [k \in R |-> Used(k, snap)] /\ v = [k \in R |-> Guess(k, snap)]
          /\ guess = ByPrograms(v, R)
        BY <2>4 DEF IsObserved
    <2>6. ByPrograms(u, R) \in Counts /\ guess \in Counts
          /\ TotalOf' = Plus(Plus(TotalOf, guess), ByPrograms(u, R))
        BY <2>1, <2>2, <2>5, TotalGrows
    <2>7. PICK n : n = [at |-> at, sum |-> Plus(Plus(TotalOf, guess), ByPrograms(u, R))] OBVIOUS
    <2>8. TotalOf \in Counts BY WatchingIs
    <2>9. n \in Mark
        <3>1. Plus(TotalOf, guess) \in Counts BY <2>6, <2>8, PlusIs
        <3>2. Plus(Plus(TotalOf, guess), ByPrograms(u, R)) \in Counts BY <2>6, <3>1, PlusIs
        <3> QED BY <2>2, <2>7, <3>2 DEF Mark
    <2>10. CASE begun = TRUE
        <3>1. span = at - now /\ span \in Nat \ {0}
            <4>1. PICK d \in Nat \ {0} : d = at - now BY <2>2, <2>3
            <4>2. d \in Int /\ 0 \in Int OBVIOUS
            <4>3. Max({d, 0}) \in {d, 0} /\ Max({d, 0}) >= d BY ONLY <4>2, OfTwo
            <4>4. span = Max({d, 0}) BY <2>4, <2>10, <4>1 DEF IsObserved
            <4> QED BY <4>1, <4>3, <4>4
        <3>2. ByPrograms([k \in R |-> span], R) \in Counts
            <4>1. [k \in R |-> span] \in [R -> Nat] BY <3>1
            <4> QED BY <2>2, <4>1, ByProgramsAre
        <3>3. frame = FrameOf(at, span, ByPrograms(u, R), ByPrograms([k \in R |-> span], R))
              /\ PushFrame(frame, guess, reach)
            BY <2>4, <3>1 DEF IsObserved
        <3>4. frame \in FrameT /\ frame.end = at /\ frame.span = span /\ frame.cycles = ByPrograms(u, R)
            BY <2>2, <2>6, <3>1, <3>2, <3>3 DEF FrameOf, FrameT
        <3>5. PICK m \in Mark : m.at = now /\ m.sum = TotalOf /\ FramesReach(m) BY <2>10 DEF Framed
        <3>6. Over(Shift(m, guess), frame, n)
            <4>1. Shift(m, guess).at = now /\ Shift(m, guess).sum = Plus(TotalOf, guess)
                BY <2>6, <3>5, ShiftIs
            <4>2. at = now + span BY <2>2, <2>3, <3>1
            <4> QED BY <2>7, <3>4, <4>1, <4>2 DEF Over
        <3>7. FramesReach(n)' /\ Len(raw_frames') <= RAW_FRAMES
            BY <2>3, <2>6, <2>9, <3>3, <3>4, <3>5, <3>6, PushIs
        <3>8. n.at = now' /\ n.sum = TotalOf' BY <2>2, <2>6, <2>7
        <3> QED BY <2>1, <2>2, <2>9, <3>7, <3>8 DEF Framed
    <2>11. CASE begun = FALSE
        <3>1. span = 0 BY <2>4, <2>11 DEF IsObserved
        <3>2. faded_out' = Plus(faded_out, guess) /\ UNCHANGED <<raw_frames, coarse, open>>
            BY <2>4, <3>1 DEF IsObserved
        <3>3. /\ raw_frames = << >> /\ coarse = << >> /\ open = << >> /\ faded_out = Nothing
              /\ TotalOf = Nothing
            BY <2>11 DEF Framed
        <3>4. ByPrograms(u, R) = Nothing
            <4>1. \A k \in R : Used(k, snap) = 0
                <5>1. DOMAIN procs = {} BY <2>11 DEF Accounts, Known, Clock
                <5> QED BY <2>11, <5>1 DEF Used
            <4>2. IsFiniteSet(R) BY <2>2, FS_Subset, UsageAssumption
            <4>3. u \in [R -> Nat] /\ \A k \in R : u[k] = 0 BY <2>5, <4>1
            <4>4. ASSUME NEW g \in Programs PROVE SumFunctionOnSet(u, Of(g, R)) = 0
                <5>1. Of(g, R) \in SUBSET R /\ \A k \in Of(g, R) : u[k] = 0 BY <4>3 DEF Of
                <5> QED BY ONLY <4>2, <4>3, <5>1, SumOfNothing
            <4> QED BY <4>4 DEF ByPrograms, Nothing
        <3>5. n.sum = faded_out'
            <4>1. Nothing \in Counts /\ \A x \in Programs : Nothing[x] = 0 BY DEF Nothing, Counts
            <4>2. PICK h \in Counts : h = Plus(Nothing, guess) BY <2>6, <4>1, PlusIs
            <4>3. Plus(h, Nothing) = h
                <5>1. \A x \in Programs : h[x] + Nothing[x] = h[x] BY <4>1, <4>2 DEF Counts
                <5>2. Plus(h, Nothing) = [x \in Programs |-> h[x]] BY <5>1 DEF Plus
                <5> QED BY <4>2, <5>2 DEF Counts
            <4> QED BY <2>7, <3>2, <3>3, <3>4, <4>2, <4>3
        <3>6. FramesReach(n)'
            <4>1. raw_frames' = << >> /\ coarse' = << >> /\ open' = << >> BY <3>2, <3>3
            <4>2. Closed(<< >>) = << >> BY DEF Closed
            <4>3. Covers(<< >>, n, n) BY <2>9, CoversNone
            <4>4. Spread([coarse |-> << >>, open |-> << >>], n, n) BY <4>2, <4>3 DEF Spread
            <4>5. << >> \in Seq(FrameT) /\ << >> \in OpenT BY DEF OpenT
            <4> QED BY <2>9, <3>5, <4>1, <4>3, <4>4, <4>5 DEF FramesReach
        <3>7. Len(raw_frames') <= RAW_FRAMES
            <4>1. Len(<< >>) = 0 /\ RAW_FRAMES \in Nat BY UsageAssumption
            <4>2. raw_frames' = << >> BY <3>2, <3>3
            <4> QED BY <4>1, <4>2
        <3>8. n.at = now' /\ n.sum = TotalOf' BY <2>2, <2>6, <2>7
        <3> QED BY <2>1, <2>2, <2>9, <3>6, <3>7, <3>8 DEF Framed
    <2> QED BY <2>3, <2>10, <2>11
<1>2. ASSUME UNCHANGED <<usageVars, machine>> PROVE Accounts' /\ Framed'
    <2>1. Accounts' BY <1>2 DEF Accounts, usageVars, machine, Known
    <2>2. TotalOf' = TotalOf BY <1>2 DEF TotalOf, Watching, Watched, Known, usageVars, machine
    <2>3. \A m : FramesReach(m)' <=> FramesReach(m) BY <1>2 DEF FramesReach, usageVars
    <2>4. UNCHANGED <<begun, now, raw_frames, coarse, open, faded_out>> BY <1>2 DEF usageVars
    <2> QED BY <2>1, <2>2, <2>3, <2>4 DEF Framed
<1>3. ASSUME NEW r \in Reaches, ApplySettings(r) PROVE Accounts' /\ Framed'
    BY <1>2, <1>3 DEF ApplySettings
<1>4. CASE UNCHANGED vars BY <1>2, <1>4 DEF vars
<1> QED BY <1>1, <1>3, <1>4, StepIs

UsageInv == Lineage /\ Accounts /\ Framed

\* The usage is always so.
LEMMA UsageInvAlways == Spec => []UsageInv
<1>1. Init => UsageInv
    <2> SUFFICES ASSUME Init PROVE UsageInv OBVIOUS
    <2>1. /\ procs = << >> /\ seen = << >> /\ begun = FALSE /\ running = << >> /\ ended = {}
          /\ raw_frames = << >> /\ coarse = << >> /\ open = << >> /\ faded_out = Nothing
          /\ unwatched = [k \in Processes |-> 0]
          /\ used = [k \in Processes |-> IF k \in Early THEN 1 ELSE 0]
        BY DEF Init, UsageInit
    <2>2. DOMAIN running = {} /\ DOMAIN seen = {} /\ DOMAIN procs = {} /\ Known = {} BY <2>1 DEF Known
    <2>3. Lineage BY <2>2 DEF Lineage, ClosedUpward
    <2>4. Accounts
        <3>1. used \in [Processes -> Nat] /\ unwatched \in [Processes -> Nat] BY <2>1
        <3>2. \A k \in Processes : unwatched[k] = 0 /\ unwatched[k] <= used[k] /\ (k \notin Early => used[k] = 0)
            BY <2>1
        <3> QED BY <2>2, <3>1, <3>2 DEF Accounts
    <2>5. TotalOf = Nothing
        <3>1. Watching \in [Processes -> Nat] /\ \A k \in Processes : Watching[k] = 0 BY <2>2 DEF Watching
        <3>2. ASSUME NEW g \in Programs PROVE SumFunctionOnSet(Watching, Of(g, Processes)) = 0
            <4>1. PICK w, P, T : w = Watching /\ P = Processes /\ T = Of(g, Processes) OBVIOUS
            <4>2. IsFiniteSet(P) /\ w \in [P -> Nat] /\ T \in SUBSET P /\ \A k \in T : w[k] = 0
                BY <3>1, <4>1, UsageAssumption DEF Of
            <4>3. SumFunctionOnSet(w, T) = 0 BY ONLY <4>2, SumOfNothing
            <4> QED BY <4>1, <4>3
        <3> QED BY <3>2 DEF TotalOf, Nothing
    <2>6. Framed BY <2>1, <2>5 DEF Framed
    <2> QED BY <2>3, <2>4, <2>6 DEF UsageInv
<1>2. Clock /\ Clock' /\ UsageInv /\ [Next]_vars => UsageInv'
    BY LineageStep, FramedStep DEF UsageInv
<1> QED BY <1>1, <1>2, ClockAlways, PTL DEF Spec

-----------------------------------------------------------------------------
(* What the frames say                                                      *)

Line == coarse \o Closed(open) \o raw_frames

Lined(a, m) ==
    /\ a \in Mark /\ m \in Mark /\ a.sum = faded_out /\ m.at = now /\ m.sum = TotalOf
    /\ Covers(Line, a, m)

\* All frames there are cover the time from what has faded out until now;
LEMMA LineIs == ASSUME UsageInv, begun = TRUE PROVE \E a, m : Lined(a, m)
<1>1. PICK m \in Mark : m.at = now /\ m.sum = TotalOf /\ FramesReach(m) BY DEF UsageInv, Framed
<1>2. PICK a, b \in Mark :
        /\ a.sum = faded_out /\ Spread([coarse |-> coarse, open |-> open], a, b)
        /\ Covers(raw_frames, b, m)
    BY <1>1 DEF FramesReach
<1>3. PICK x : Covers(coarse, a, x) /\ Covers(Closed(open), x, b) BY <1>2 DEF Spread
<1>4. Covers(coarse \o Closed(open), a, b) BY <1>3, CoversBoth
<1>5. Covers((coarse \o Closed(open)) \o raw_frames, a, m) BY <1>2, <1>4, CoversBoth
<1>6. Lined(a, m) BY <1>1, <1>2, <1>5 DEF Lined, Line
<1> QED BY <1>6

\* before the first snapshot there are none.
LEMMA NoLine == ASSUME UsageInv, begun = FALSE PROVE Line = << >> /\ faded_out = Nothing /\ TotalOf = Nothing
<1>1. raw_frames = << >> /\ coarse = << >> /\ open = << >> /\ faded_out = Nothing /\ TotalOf = Nothing
    BY DEF UsageInv, Framed
<1>2. Closed(<< >>) = << >> BY DEF Closed
<1>3. << >> \o << >> = << >> OBVIOUS
<1> QED BY <1>1, <1>2, <1>3 DEF Line

\* A list from its end.
LEMMA Backwards ==
    ASSUME NEW T, NEW q \in Seq(T), NEW n \in Nat, n = Len(q)
    PROVE  Reverse(q) \in Seq(T) /\ Len(Reverse(q)) = n /\ \A i \in 1..n : Reverse(q)[i] = q[(n - i) + 1]
<1>1. Reverse(q) = [i \in 1..n |-> q[(n - i) + 1]] BY DEF Reverse
<1>2. \A i \in 1..n : (n - i) + 1 \in 1..n OBVIOUS
<1>3. \A i \in 1..n : q[(n - i) + 1] \in T BY <1>2
<1>4. [i \in 1..n |-> q[(n - i) + 1]] \in Seq(T) BY <1>3
<1> QED BY <1>1, <1>4

\* Frames that cover a stretch, newest first, each begin where the next older one ends.
LEMMA CoversTiled ==
    ASSUME NEW q, NEW a, NEW b, Covers(q, a, b), NEW f, f = Reverse(q)
    PROVE  /\ f # << >> => Head(f).end = b.at
           /\ \A i \in 1..(Len(f) - 1) : f[i].end - f[i].span = f[i + 1].end
<1>1. q \in Seq(FrameT) BY DEF Covers
<1>2. PICK n \in Nat : n = Len(q) BY <1>1
<1>3. PICK c : IsPath(c, q, a, b, n) BY <1>2 DEF Covers, Passes
<1>4. c \in [0..n -> Mark] /\ c[0] = a /\ c[n] = b /\ \A i \in 1..n : Over(c[i - 1], q[i], c[i])
    BY <1>3 DEF IsPath
<1>5. f \in Seq(FrameT) /\ Len(f) = n /\ \A i \in 1..n : f[i] = q[(n - i) + 1]
    BY <1>1, <1>2, Backwards
<1>6. ASSUME f # << >> PROVE Head(f).end = b.at
    <2>1. n > 0 /\ Head(f) = f[1] BY <1>5, <1>6
    <2>2. 1 \in 1..n /\ (n - 1) + 1 = n /\ n \in 1..n BY <2>1
    <2>3. Head(f) = q[n] BY <1>5, <2>1, <2>2
    <2> QED BY <1>4, <2>2, <2>3 DEF Over
<1>7. ASSUME NEW i \in 1..(n - 1) PROVE f[i].end - f[i].span = f[i + 1].end
    <2>0. n - i \in Nat OBVIOUS
    <2>1. PICK j \in Nat : j = n - i BY <2>0
    <2>2. i \in 1..n /\ i + 1 \in 1..n /\ (n - (i + 1)) + 1 = j /\ j \in 1..n /\ j + 1 \in 1..n
          /\ (j + 1) - 1 = j /\ j \in 0..n
        BY <2>1
    <2>3. f[i] = q[j + 1] /\ f[i + 1] = q[j] BY <1>5, <2>1, <2>2
    <2>4. Over(c[j], q[j + 1], c[j + 1]) /\ q[j].end = c[j].at BY <1>4, <2>2 DEF Over
    <2>5. c[j].at \in Nat BY <1>4, <2>2 DEF Mark
    <2>6. q[j + 1] \in FrameT BY <1>1, <1>2, <2>2
    <2>7. PICK s \in Nat : s = q[j + 1].span BY <2>6 DEF FrameT
    <2>8. q[j + 1].end = c[j].at + s BY <2>4, <2>7 DEF Over
    <2> QED BY <2>3, <2>4, <2>5, <2>7, <2>8
<1> QED BY <1>5, <1>6, <1>7

\* usage.rs, frames(): "No stretch is covered twice", and none is left out, through every
\* change of the reach and so of the width of the steps, whatever the processes use.
THEOREM FramesAlwaysTile == Spec => []FramesTile
<1>1. Clock /\ UsageInv => FramesTile
    <2> SUFFICES ASSUME Clock, UsageInv PROVE FramesTile OBVIOUS
    <2>1. CASE begun = TRUE
        <3>1. PICK a, m : Lined(a, m) BY <2>1, LineIs
        <3>2. PICK f : f = Frames OBVIOUS
        <3>3. f = Reverse(Line) BY <3>2 DEF Frames, Line
        <3>4. (f # << >> => Head(f).end = now)
              /\ \A i \in 1..(Len(f) - 1) : f[i].end - f[i].span = f[i + 1].end
            BY <3>1, <3>3, CoversTiled DEF Lined
        <3> QED BY <3>2, <3>4 DEF FramesTile
    <2>2. CASE begun = FALSE
        <3>1. Line = << >> BY <2>2, NoLine
        <3>2. Frames = Reverse(<< >>) BY <3>1 DEF Frames, Line
        <3>3. Reverse(<< >>) = << >>
            <4>1. << >> \in Seq(FrameT) /\ Len(<< >>) = 0 /\ 0 \in Nat OBVIOUS
            <4>2. Reverse(<< >>) \in Seq(FrameT) /\ Len(Reverse(<< >>)) = 0 BY <4>1, Backwards
            <4> QED BY <4>2, EmptySeq
        <3>4. Frames = << >> BY <3>2, <3>3
        <3>5. 1..(Len(<< >>) - 1) = {} OBVIOUS
        <3> QED BY <3>4, <3>5 DEF FramesTile
    <2> QED BY <2>1, <2>2 DEF Clock
<1> QED BY <1>1, ClockAlways, UsageInvAlways, PTL

SumAlong(base, q, g) ==
    LET Add(n, f) == n + f.cycles[g]
    IN FoldLeft(Add, base, q)

\* A sum run over them from the oldest end comes to what they cover.
LEMMA SumAlongIs ==
    ASSUME NEW q, NEW a, NEW b, Covers(q, a, b), NEW g \in Programs
    PROVE  SumAlong(a.sum[g], Reverse(q), g) = b.sum[g]
<1>0. q \in Seq(FrameT) /\ a \in Mark /\ b \in Mark BY DEF Covers
<1>1. PICK base \in Nat : base = a.sum[g] BY <1>0 DEF Mark, Counts
<1>2. PICK n \in Nat : n = Len(q) BY <1>0
<1>3. PICK r : r = Reverse(q) OBVIOUS
<1>4. r \in Seq(FrameT) /\ Len(r) = n /\ \A i \in 1..n : r[i] = q[(n - i) + 1]
    BY <1>0, <1>2, <1>3, Backwards
<1>5. DOMAIN r = 1..n /\ \A i \in 1..n : r[i].cycles[g] \in Nat
    <2>1. DOMAIN r = 1..n /\ \A i \in 1..n : r[i] \in FrameT BY <1>4
    <2>2. \A i \in 1..n : r[i].cycles \in Counts BY <2>1 DEF FrameT
    <2> QED BY <2>1, <2>2 DEF Counts
<1>6. PICK F : F = [w \in Nat \X (1..n) |-> w[1] + r[w[2]].cycles[g]] OBVIOUS
<1>7. F \in [Nat \X (1..n) -> Nat]
    <2>1. ASSUME NEW w \in Nat \X (1..n) PROVE w[1] + r[w[2]].cycles[g] \in Nat
        <3>1. w[1] \in Nat /\ r[w[2]].cycles[g] \in Nat BY <1>5
        <3> QED BY <3>1
    <2> QED BY <1>6, <2>1
<1>8. PICK it \in [SUBSET (1..n) -> Nat] : IsFold(it, n, base, F) BY <1>7, FoldUpTo DEF Foldable
<1> DEFINE Fold(iter) == iter = [s \in SUBSET (DOMAIN r) |->
                            IF s = {} THEN base
                            ELSE iter[s \ {Max(s)}] + r[Max(s)].cycles[g]]
<1>9. ASSUME NEW h \in Nat, NEW k \in 1..n PROVE F[<<h, k>>] = h + r[k].cycles[g] BY <1>6
<1>10. Fold(it)
    <2>1. ASSUME NEW s \in SUBSET (1..n)
          PROVE  it[s] = IF s = {} THEN base ELSE it[s \ {Max(s)}] + r[Max(s)].cycles[g]
        <3>1. CASE s = {} BY <1>8, <3>1 DEF IsFold
        <3>2. CASE s # {}
            <4>1. Max(s) \in 1..n /\ it[s \ {Max(s)}] \in Nat BY <1>8, <3>2, MaxOf
            <4>2. it[s] = F[<<it[s \ {Max(s)}], Max(s)>>] BY <1>8, <3>2 DEF IsFold
            <4> QED BY <1>9, <3>2, <4>1, <4>2
        <3> QED BY <3>1, <3>2
    <2> QED BY <1>5, <1>8, <2>1
<1>11. PICK iter : iter = CHOOSE z : Fold(z) OBVIOUS
<1>12. Fold(iter) BY <1>10, <1>11
<1>13. SumAlong(base, r, g) = iter[DOMAIN r] BY <1>11 DEF SumAlong, FoldLeft, MapThenFoldSet
<1>14. ASSUME NEW s \in SUBSET (1..n)
       PROVE  /\ s = {} => iter[s] = base
              /\ (s # {} /\ iter[s \ {Max(s)}] \in Nat) => iter[s] = F[<<iter[s \ {Max(s)}], Max(s)>>]
    <2>1. s = {} => iter[s] = base BY <1>5, <1>12
    <2>2. ASSUME s # {}, iter[s \ {Max(s)}] \in Nat PROVE iter[s] = F[<<iter[s \ {Max(s)}], Max(s)>>]
        <3>1. Max(s) \in 1..n BY <2>2, MaxOf
        <3>2. iter[s] = iter[s \ {Max(s)}] + r[Max(s)].cycles[g] BY <1>5, <1>12, <2>2
        <3> QED BY <1>9, <2>2, <3>1, <3>2
    <2> QED BY <2>1, <2>2
<1> HIDE DEF Fold
<1>15. PICK run : run = [k \in 0..n |-> iter[1..k]] OBVIOUS
<1>16. IsRun(run, Nat, n, base, F)
    <2>1. FoldsAs(iter, Nat, n, base, F) BY <1>14 DEF FoldsAs
    <2> QED BY ONLY <1>7, <2>1, <1>15, base \in Nat, n \in Nat, RunOf
<1>17. PICK c : IsPath(c, q, a, b, n) BY <1>2 DEF Covers, Passes
<1>18. c \in [0..n -> Mark] /\ c[0] = a /\ c[n] = b BY <1>17 DEF IsPath
<1>19. PICK top \in Nat : top = b.sum[g] BY <1>0 DEF Mark, Counts
<1>20. \A i \in 0..n : c[i].sum \in Counts /\ c[i].sum[g] \in Nat BY <1>18 DEF Mark, Counts
<1> DEFINE In == {k \in Nat : k <= n => run[k] + c[n - k].sum[g] = base + top}
<1>21. 0 \in In
    <2>1. n - 0 = n OBVIOUS
    <2> QED BY <1>16, <1>18, <1>19, <2>1 DEF IsRun
<1>22. ASSUME NEW k \in Nat, k \in In PROVE k + 1 \in In
    <2> SUFFICES ASSUME k + 1 <= n PROVE run[k + 1] + c[n - (k + 1)].sum[g] = base + top OBVIOUS
    <2>1. PICK j \in Nat : j = n - (k + 1) OBVIOUS
    <2>2. k \in 0..(n - 1) /\ k + 1 \in 1..n /\ k \in 0..n /\ j + 1 \in 1..n /\ (n - (k + 1)) + 1 = j + 1
          /\ n - k = j + 1 /\ j \in 0..n /\ j + 1 \in 0..n /\ (j + 1) - 1 = j
        BY <2>1
    <2>3. run[k] \in Nat /\ run[k + 1] = F[<<run[k], k + 1>>] BY <1>16, <2>2 DEF IsRun
    <2>4. r[k + 1] = q[j + 1] BY <1>4, <2>2
    <2>5. PICK x \in Nat, y \in Nat, z \in Nat, w \in Nat :
            x = run[k] /\ y = q[j + 1].cycles[g] /\ z = c[j].sum[g] /\ w = c[j + 1].sum[g]
        BY <1>5, <1>20, <2>2, <2>3, <2>4
    <2>6. run[k + 1] = x + y BY <1>9, <2>2, <2>3, <2>4, <2>5
    <2>7. w = z + y
        <3>1. c[j + 1].sum = Plus(c[j].sum, q[j + 1].cycles) BY <1>17, <2>2 DEF IsPath, Over
        <3> QED BY <2>5, <3>1 DEF Plus
    <2>8. x + w = base + top BY <1>22, <2>2, <2>5
    <2>9. (x + y) + z = base + top BY <2>7, <2>8
    <2> QED BY <2>1, <2>5, <2>6, <2>9
<1>23. \A k \in Nat : k \in In
    <2> HIDE DEF In
    <2> QED BY <1>21, <1>22, NatSetInduction
<1>24. n \in In BY <1>23
<1>25. run[n] \in Nat /\ n - n = 0 /\ n \in 0..n BY <1>16 DEF IsRun
<1>26. run[n] + base = base + top BY <1>1, <1>18, <1>24, <1>25
<1>27. run[n] = top BY <1>25, <1>26
<1>28. SumAlong(base, r, g) = run[n] BY <1>5, <1>13, <1>15, <1>25
<1> QED BY <1>1, <1>3, <1>19, <1>27, <1>28

\* What every process used while watched adds up to what those known used.
LEMMA TotalOfKnown ==
    ASSUME Clock, Accounts, NEW g \in Programs
    PROVE  TotalOf[g] = SumFunctionOnSet(Watched, Of(g, Processes) \cap Known)
<1>1. PICK P, T, R, Q, w, d, z :
        /\ P = Processes /\ T = Of(g, Processes) /\ R = Known /\ Q = T \cap R
        /\ w = Watching /\ d = Watched /\ z = [k \in P |-> 0]
    OBVIOUS
<1>2. w \in [P -> Nat] /\ d \in [P -> Nat] /\ z \in [P -> Nat] /\ R \in SUBSET P /\ T \in SUBSET P
      /\ P \in SUBSET P /\ IsFiniteSet(P)
    BY <1>1, WatchingIs, UsageAssumption DEF Of
<1>3. GrowsBy(w, z, d, R, T)
    <2>1. ASSUME NEW k \in T PROVE w[k] = z[k] + (IF k \in R THEN d[k] ELSE 0)
        <3>1. k \in P /\ z[k] = 0 /\ d[k] \in Nat BY <1>1, <1>2
        <3>2. w[k] = IF k \in R THEN d[k] ELSE 0 BY <1>1, <3>1 DEF Watching
        <3> QED BY <3>1, <3>2
    <2> QED BY <2>1 DEF GrowsBy
<1>4. Growing(P, z, w, P, d, R, T, Q) BY <1>1, <1>2, <1>3 DEF Growing
<1>5. GrownSum(w, z, d, T, Q) BY <1>4, SumHasGrown
<1>6. SumFunctionOnSet(z, T) = 0
    <2>1. \A k \in T : z[k] = 0 BY <1>1, <1>2
    <2> QED BY ONLY <1>2, <2>1, SumOfNothing
<1>7. SumFunctionOnSet(w, T) = SumFunctionOnSet(d, Q) BY <1>5, <1>6 DEF GrownSum
<1> QED BY <1>1, <1>7 DEF TotalOf

\* usage.rs, faded_out: a sum run over the frames "comes to the totals", for every program
\* and every schedule of processes that start, end, fade out of the table and outlive it.
THEOREM ChartAlwaysComesToTotals == Spec => []ChartComesToTotals
<1>1. Clock /\ UsageInv => ChartComesToTotals
    <2> SUFFICES ASSUME Clock, UsageInv PROVE ChartComesToTotals OBVIOUS
    <2>1. Accounts BY DEF UsageInv
    <2>2. \A k \in DOMAIN procs : procs[k].total = used[k] - unwatched[k] BY <2>1 DEF Accounts
    <2>3. ASSUME NEW g \in Programs
          PROVE  SumAlong(faded_out[g], Frames, g) = SumFunctionOnSet(Watched, Of(g, Processes) \cap Known)
        <3>1. SumAlong(faded_out[g], Frames, g) = TotalOf[g]
            <4>1. CASE begun = TRUE
                <5>1. PICK a, m : Lined(a, m) BY <4>1, LineIs
                <5>2. Frames = Reverse(Line) BY DEF Frames, Line
                <5> QED BY <5>1, <5>2, SumAlongIs DEF Lined
            <4>2. CASE begun = FALSE
                <5>1. Line = << >> /\ faded_out = Nothing /\ TotalOf = Nothing BY <4>2, NoLine
                <5>2. PICK a : a = [at |-> 0, sum |-> Nothing] OBVIOUS
                <5>3. a \in Mark /\ a.sum = Nothing BY <5>2 DEF Mark, Counts, Nothing
                <5>4. Covers(<< >>, a, a) BY <5>3, CoversNone
                <5>5. SumAlong(a.sum[g], Reverse(<< >>), g) = a.sum[g] BY <5>4, SumAlongIs
                <5>6. Frames = Reverse(<< >>) BY <5>1 DEF Frames, Line
                <5> QED BY <5>1, <5>3, <5>5, <5>6
            <4> QED BY <4>1, <4>2 DEF Clock
        <3> QED BY <2>1, <3>1, TotalOfKnown
    <2>4. ASSUME NEW g \in Programs
          PROVE  {k \in Of(g, Processes) : k \in DOMAIN running \/ k \in ended} = Of(g, Processes) \cap Known
        BY DEF Known
    <2>5. Watched = [k \in Processes |-> used[k] - unwatched[k]] BY DEF Watched
    <2> QED BY <2>2, <2>3, <2>4, <2>5 DEF ChartComesToTotals, SumAlong, Known
<1> QED BY <1>1, ClockAlways, UsageInvAlways, PTL

-----------------------------------------------------------------------------
(* Buckets                                                                  *)

BucketT == [first : Nat, last : Nat, count : Nat]

\* A sample falls in a bucket.
Holds(b, s) == b.first <= s /\ s <= b.last
Held(b, S) == {s \in S : Holds(b, s)}

HeldBy(bs, s) == \E j \in 1..Len(bs) : Holds(bs[j], s)

\* A bucket of some samples: it begins and ends with one, in the same window, and counts
\* those between.
Fits(b, w, S) ==
    /\ b \in BucketT /\ b.first \in S /\ b.last \in S /\ b.first <= b.last
    /\ b.first \div w = b.last \div w
    /\ b.count = Cardinality(Held(b, S))

\* One bucket is over before another, and they are not of the same window.
Precedes(b, c, w) == b.last < c.first /\ b.last \div w < c.first \div w

\* What a list of buckets tells of all samples: in order, one bucket to a window, and
\* nothing since it begins is left out.
Tells(bs, w, S) ==
    /\ bs \in Seq(BucketT)
    /\ \A j \in 1..Len(bs) : Fits(bs[j], w, S)
    /\ \A j, k \in 1..Len(bs) : j < k => Precedes(bs[j], bs[k], w)
    /\ \A s \in S : (Len(bs) > 0 /\ bs[1].first <= s) => HeldBy(bs, s)

\* Of two times the later is not in an earlier window, and in the same one they are less
\* than a width apart.
LEMMA Windows ==
    ASSUME NEW a \in Nat, NEW b \in Nat, NEW w \in Nat \ {0}
    PROVE  /\ a \div w \in Nat /\ b \div w \in Nat
           /\ a <= b => a \div w <= b \div w
           /\ a \div w < b \div w => a < b
           /\ a \div w = b \div w => a - b < w
<1>1. PICK x \in Nat, y \in 0..(w - 1) : x = a \div w /\ a = w * x + y OBVIOUS
<1>2. PICK u \in Nat, v \in 0..(w - 1) : u = b \div w /\ b = w * u + v OBVIOUS
<1>3. x > u => a > b
    <2> SUFFICES ASSUME x > u PROVE a > b OBVIOUS
    <2>1. PICK d \in Nat : x = u + 1 + d
        <3>1. x - (u + 1) \in Nat OBVIOUS
        <3> QED BY <3>1
    <2>2. w * x = w * u + w + w * d BY <2>1
    <2>3. w * d \in Nat /\ w * u \in Nat OBVIOUS
    <2> QED BY <1>1, <1>2, <2>2, <2>3
<1>4. u > x => b > a
    <2> SUFFICES ASSUME u > x PROVE b > a OBVIOUS
    <2>1. PICK d \in Nat : u = x + 1 + d
        <3>1. u - (x + 1) \in Nat OBVIOUS
        <3> QED BY <3>1
    <2>2. w * u = w * x + w + w * d BY <2>1
    <2>3. w * d \in Nat /\ w * x \in Nat OBVIOUS
    <2> QED BY <1>1, <1>2, <2>2, <2>3
<1>5. x = u => a - b < w BY <1>1, <1>2
<1> QED BY <1>1, <1>2, <1>3, <1>4, <1>5

\* The parts of a bucket that fits.
LEMMA FitsIs ==
    ASSUME NEW b, NEW w \in Nat \ {0}, NEW S \in SUBSET Nat, Fits(b, w, S)
    PROVE  /\ b \in BucketT /\ b.first \in Nat /\ b.last \in Nat /\ b.count \in Nat
           /\ b.first \in S /\ b.last \in S /\ b.first <= b.last
           /\ b.first \div w = b.last \div w
BY DEF Fits, BucketT

\* Later buckets tell as much from where they begin.
LEMMA TellsRest ==
    ASSUME NEW bs, NEW w \in Nat \ {0}, NEW S \in SUBSET Nat, Tells(bs, w, S), NEW k \in 0..Len(bs)
    PROVE  Tells(SubSeq(bs, k + 1, Len(bs)), w, S)
<1>1. bs \in Seq(BucketT) BY DEF Tells
<1>2. PICK n \in Nat : n = Len(bs) BY <1>1
<1>0. n - k \in Nat BY <1>2
<1>10. PICK m \in Nat : m = n - k BY <1>0
<1>11. PICK r : r = SubSeq(bs, k + 1, n) OBVIOUS
<1>3. m = n - k /\ r = SubSeq(bs, k + 1, n) BY <1>10, <1>11
<1>4. r \in Seq(BucketT) /\ Len(r) = m /\ \A i \in 1..m : r[i] = bs[k + i] BY <1>1, <1>2, <1>3, Parts
<1>5. k \in Nat /\ \A i \in 1..m : k + i \in 1..n BY <1>2, <1>3
<1>6. ASSUME NEW i \in 1..m PROVE Fits(r[i], w, S) BY <1>2, <1>4, <1>5 DEF Tells
<1>7. ASSUME NEW i \in 1..m, NEW j \in 1..m, i < j PROVE Precedes(r[i], r[j], w)
    <2>1. k + i < k + j BY <1>5, <1>7
    <2> QED BY <1>2, <1>4, <1>5, <2>1 DEF Tells
<1>8. ASSUME NEW s \in S, m > 0, r[1].first <= s PROVE HeldBy(r, s)
    <2>1. 1 \in 1..m /\ 1 \in 1..n /\ k + 1 \in 1..n /\ r[1] = bs[k + 1] BY <1>3, <1>4, <1>8
    <2>2. Fits(bs[1], w, S) /\ Fits(bs[k + 1], w, S) BY <1>2, <2>1 DEF Tells
    <2>3. bs[1].first \in Nat /\ bs[1].first <= bs[1].last /\ bs[1].last \in Nat /\ bs[k + 1].first \in Nat
        BY <2>2, FitsIs
    <2>4. bs[1].first <= s
        <3>1. CASE k = 0 BY <1>8, <2>1, <3>1
        <3>2. CASE k # 0
            <4>1. 1 < k + 1 BY <1>5, <3>2
            <4>2. Precedes(bs[1], bs[k + 1], w) BY <1>2, <2>1, <4>1 DEF Tells
            <4> QED BY <1>8, <2>1, <2>3, <4>2 DEF Precedes
        <3> QED BY <3>1, <3>2
    <2>5. HeldBy(bs, s) BY <1>2, <2>1, <2>4 DEF Tells
    <2>6. PICK j \in 1..n : Holds(bs[j], s) BY <1>2, <2>5 DEF HeldBy
    <2>7. j > k
        <3> SUFFICES ASSUME j < k + 1 PROVE FALSE BY <1>5
        <3>1. Precedes(bs[j], bs[k + 1], w) BY <1>2, <2>1 DEF Tells
        <3>2. Fits(bs[j], w, S) BY <1>2 DEF Tells
        <3>3. bs[j].last \in Nat BY <3>2, FitsIs
        <3>4. bs[j].last < bs[k + 1].first /\ s <= bs[j].last BY <2>6, <3>1 DEF Precedes, Holds
        <3>5. PICK x \in Nat, y \in Nat, z \in Nat : x = bs[j].last /\ y = bs[k + 1].first /\ z = s
            BY <2>3, <3>3
        <3>6. x < y /\ z <= x /\ y <= z BY <1>8, <2>1, <3>4, <3>5
        <3> QED BY <3>6
    <2>8. PICK i : i = j - k OBVIOUS
    <2>9. i \in 1..m /\ k + i = j BY <1>3, <1>5, <2>7, <2>8
    <2> QED BY <1>4, <2>6, <2>9 DEF HeldBy
<1>9. Tells(r, w, S) BY <1>4, <1>6, <1>7, <1>8 DEF Tells
<1> QED BY <1>2, <1>3, <1>9

\* What comes after every sample is in no bucket there is.
LEMMA FitsStill ==
    ASSUME NEW b, NEW w \in Nat \ {0}, NEW S \in SUBSET Nat, Fits(b, w, S), NEW at \in Nat,
           \A s \in S : s < at
    PROVE  Fits(b, w, S \cup {at}) /\ ~Holds(b, at)
<1>1. b.last \in S /\ b.last \in Nat BY FitsIs
<1>2. b.last < at BY <1>1
<1>3. ~(at <= b.last) BY <1>1, <1>2
<1>4. ~Holds(b, at) BY <1>3 DEF Holds
<1>5. Held(b, S \cup {at}) = Held(b, S) BY <1>4 DEF Held
<1> QED BY <1>4, <1>5 DEF Fits

\* A sample in a bucket of its own.
LEMMA FitsNew ==
    ASSUME NEW w \in Nat \ {0}, NEW S \in SUBSET Nat, NEW at \in Nat, \A s \in S : s < at
    PROVE  Fits(Bucket(at), w, S \cup {at}) /\ Holds(Bucket(at), at)
<1>1. PICK b : b = Bucket(at) OBVIOUS
<1>2. b = [first |-> at, last |-> at, count |-> 1] BY <1>1 DEF Bucket
<1>3. Held(b, S \cup {at}) = {at}
    <2>1. \A s \in S : ~Holds(b, s) BY <1>2 DEF Holds
    <2>2. Holds(b, at) BY <1>2 DEF Holds
    <2> QED BY <2>1, <2>2 DEF Held
<1>4. Cardinality({at}) = 1 BY FS_Singleton
<1>5. Fits(b, w, S \cup {at}) BY <1>2, <1>3, <1>4 DEF Fits, BucketT
<1>6. Holds(b, at) BY <1>2 DEF Holds
<1> QED BY <1>1, <1>5, <1>6

Later(at, S) == \A s \in S : s < at
TakesRest(b, S) == \A s \in S : b.first <= s => Holds(b, s)
AddedFits(c, b, w, S, at) ==
    /\ Fits(c, w, S \cup {at}) /\ Holds(c, at)
    /\ \A s \in S : Holds(b, s) => Holds(c, s)
    /\ c.first = b.first

\* The last bucket takes every sample of its window.
LEMMA FitsAdded ==
    ASSUME NEW b, NEW w \in Nat \ {0}, NEW S \in SUBSET Nat, IsFiniteSet(S), Fits(b, w, S), NEW at \in Nat,
           Later(at, S), TakesRest(b, S), b.first \div w = at \div w
    PROVE  AddedFits(Added(b, at), b, w, S, at)
<1>0. (\A s \in S : s < at) /\ \A s \in S : b.first <= s => Holds(b, s) BY DEF Later, TakesRest
<1>1. /\ b \in BucketT /\ b.first \in Nat /\ b.last \in Nat /\ b.count \in Nat
      /\ b.first \in S /\ b.last \in S /\ b.first <= b.last
    BY FitsIs
<1>2. b.last < at /\ b.first < at BY <1>0, <1>1
<1>3. Max({b.last, at}) = at
    <2>1. PICK l \in Int : l = b.last BY <1>1
    <2>2. at \in Int OBVIOUS
    <2>3. Max({l, at}) \in {l, at} /\ Max({l, at}) >= at BY ONLY l \in Int, <2>2, OfTwo
    <2> QED BY <1>2, <2>1, <2>3
<1>4. PICK c : c = Added(b, at) OBVIOUS
<1>5. c = [first |-> b.first, last |-> at, count |-> b.count + 1] BY <1>1, <1>3, <1>4 DEF Added, BucketT
<1>6. c \in BucketT /\ c.first = b.first /\ c.last = at /\ c.count = b.count + 1 BY <1>1, <1>5 DEF BucketT
<1>7. Held(c, S \cup {at}) = Held(b, S) \cup {at}
    <2>1. Holds(c, at) BY <1>2, <1>6, <1>1 DEF Holds
    <2>2. ASSUME NEW s \in S PROVE Holds(c, s) <=> Holds(b, s)
        <3>1. s \in Nat /\ s < at BY <1>0
        <3> QED BY <1>0, <1>1, <1>6, <3>1 DEF Holds
    <2> QED BY <2>1, <2>2 DEF Held
<1>8. Cardinality(Held(b, S) \cup {at}) = Cardinality(Held(b, S)) + 1
    <2>1. Held(b, S) \in SUBSET S BY DEF Held
    <2>2. IsFiniteSet(Held(b, S)) BY <2>1, FS_Subset
    <2>3. at \notin Held(b, S) BY <1>0 DEF Held
    <2> QED BY <2>2, <2>3, FS_AddElement
<1>9. c.count = Cardinality(Held(c, S \cup {at})) BY <1>6, <1>7, <1>8 DEF Fits
<1>10. Fits(c, w, S \cup {at}) BY <1>1, <1>2, <1>6, <1>9 DEF Fits
<1>11. Holds(c, at) /\ \A s \in S : Holds(b, s) => Holds(c, s)
    <2>1. Holds(c, at) BY <1>1, <1>2, <1>6 DEF Holds
    <2>2. ASSUME NEW s \in S, Holds(b, s) PROVE Holds(c, s)
        <3>1. s \in Nat /\ s < at BY <1>0
        <3> QED BY <1>6, <2>2, <3>1 DEF Holds
    <2> QED BY <2>1, <2>2
<1> QED BY <1>4, <1>6, <1>10, <1>11 DEF AddedFits

\* One list tells of one more sample than another, and of all it did.
TellsToo(bs, more, w, S, at) ==
    /\ Tells(more, w, S \cup {at}) /\ HeldBy(more, at)
    /\ \A s \in S : HeldBy(bs, s) => HeldBy(more, s)

StartsNew(bs, w, at) == Len(bs) > 0 => bs[Len(bs)].last \div w # at \div w

\* The last bucket of one list is that of the other with a sample added.
LastAdded(bs, more, n, w, at) ==
    /\ Len(bs) = n + 1 /\ bs[n + 1].first \div w = at \div w
    /\ more \in Seq(BucketT) /\ Len(more) = n + 1 /\ more[n + 1] = Added(bs[n + 1], at)
    /\ \A j \in 1..n : more[j] = bs[j]

\* A sample after all the others starts a bucket of its own,
LEMMA TellsMore ==
    ASSUME NEW bs, NEW w \in Nat \ {0}, NEW S \in SUBSET Nat, Tells(bs, w, S), NEW at \in Nat,
           Later(at, S), StartsNew(bs, w, at), NEW more, more = bs \o <<Bucket(at)>>
    PROVE  TellsToo(bs, more, w, S, at)
<1>0. (\A s \in S : s < at) /\ (Len(bs) > 0 => bs[Len(bs)].last \div w # at \div w) BY DEF Later, StartsNew
<1> USE <1>0
<1>1. bs \in Seq(BucketT) BY DEF Tells
<1>2. PICK n \in Nat : n = Len(bs) BY <1>1
<1>3. PICK b, U : b = Bucket(at) /\ U = S \cup {at} OBVIOUS
<1>4. Fits(b, w, U) /\ Holds(b, at) BY <1>3, FitsNew
<1>5. b \in BucketT /\ b.first = at BY <1>3, <1>4 DEF Fits, Bucket
<1>6. <<b>> \in Seq(BucketT) /\ Len(<<b>>) = 1 /\ <<b>>[1] = b BY <1>5, One
<1>7. more \in Seq(BucketT) /\ Len(more) = n + 1 /\ more[n + 1] = b /\ \A j \in 1..n : more[j] = bs[j]
    <2>1. more \in Seq(BucketT) /\ Len(more) = n + 1 /\ (\A j \in 1..n : more[j] = bs[j])
          /\ \A j \in 1..1 : more[n + j] = <<b>>[j]
        BY <1>1, <1>2, <1>3, <1>6, Longer
    <2>2. 1 \in 1..1 OBVIOUS
    <2> QED BY <1>6, <2>1, <2>2
<1>8. ASSUME NEW j \in 1..n
      PROVE  /\ Fits(bs[j], w, S) /\ Fits(bs[j], w, U) /\ bs[j].last \in Nat /\ bs[j].first \in Nat
             /\ bs[j].last < at
    <2>1. Fits(bs[j], w, S) BY <1>2 DEF Tells
    <2>2. bs[j].last \in Nat /\ bs[j].last \in S /\ bs[j].first \in Nat BY <2>1, FitsIs
    <2> QED BY <1>3, <2>1, <2>2, FitsStill
<1>9. ASSUME NEW j \in 1..(n + 1) PROVE Fits(more[j], w, U)
    <2>1. j \in 1..n \/ j = n + 1 OBVIOUS
    <2> QED BY <1>4, <1>7, <1>8, <2>1
<1>10. ASSUME NEW j \in 1..n PROVE Precedes(bs[j], b, w)
    <2>1. n \in 1..n /\ bs[n].last \in Nat /\ bs[n].last < at /\ bs[j].last \in Nat /\ bs[j].last < at
        BY <1>8
    <2>2. PICK x \in Nat, y \in Nat : x = bs[n].last /\ y = bs[j].last BY <2>1
    <2>3. x \div w < at \div w
        <3>1. x \div w # at \div w BY <1>2, <2>1, <2>2
        <3>2. x <= at BY <2>1, <2>2
        <3>3. x \div w <= at \div w /\ x \div w \in Nat /\ at \div w \in Nat BY <3>2, Windows
        <3> QED BY <3>1, <3>3
    <2>4. y <= x
        <3>1. CASE j = n BY <2>2, <3>1
        <3>2. CASE j # n
            <4>1. j < n BY <3>2
            <4>2. Precedes(bs[j], bs[n], w) BY <1>2, <2>1, <4>1 DEF Tells
            <4>3. bs[n].first <= bs[n].last /\ bs[n].first \in Nat BY <1>8, <2>1 DEF Fits
            <4> QED BY <2>2, <4>2, <4>3 DEF Precedes
        <3> QED BY <3>1, <3>2
    <2>5. y \div w < at \div w
        <3>1. y \div w <= x \div w /\ y \div w \in Nat /\ x \div w \in Nat /\ at \div w \in Nat BY <2>4, Windows
        <3> QED BY <2>3, <3>1
    <2> QED BY <1>5, <2>1, <2>2, <2>5 DEF Precedes
<1>11. ASSUME NEW j \in 1..(n + 1), NEW k \in 1..(n + 1), j < k PROVE Precedes(more[j], more[k], w)
    <2>1. j \in 1..n /\ more[j] = bs[j] BY <1>7, <1>11
    <2>2. CASE k = n + 1 BY <1>7, <1>10, <2>1, <2>2
    <2>3. CASE k # n + 1
        <3>1. k \in 1..n BY <2>3
        <3> QED BY <1>2, <1>7, <1>11, <2>1, <3>1 DEF Tells
    <2> QED BY <2>2, <2>3
<1>12. HeldBy(more, at)
    <2>1. n + 1 \in 1..(n + 1) OBVIOUS
    <2> QED BY <1>4, <1>7, <2>1 DEF HeldBy
<1>13. ASSUME NEW s \in S, HeldBy(bs, s) PROVE HeldBy(more, s)
    <2>1. PICK j \in 1..n : Holds(bs[j], s) BY <1>2, <1>13 DEF HeldBy
    <2>2. j \in 1..(n + 1) OBVIOUS
    <2> QED BY <1>7, <2>1, <2>2 DEF HeldBy
<1>14. ASSUME NEW s \in U, more[1].first <= s PROVE HeldBy(more, s)
    <2>1. CASE s = at BY <1>12, <2>1
    <2>2. CASE s # at
        <3>1. s \in S /\ s \in Nat /\ s < at BY <1>3, <2>2
        <3>2. n # 0
            <4> SUFFICES ASSUME n = 0 PROVE FALSE OBVIOUS
            <4>1. more[1] = b BY <1>7
            <4> QED BY <1>5, <1>14, <3>1, <4>1
        <3>3. n > 0 /\ 1 \in 1..n BY <3>2
        <3>4. bs[1].first <= s BY <1>7, <1>14, <3>3
        <3>5. HeldBy(bs, s) BY <1>2, <3>1, <3>3, <3>4 DEF Tells
        <3> QED BY <1>13, <3>1, <3>5
    <2> QED BY <2>1, <2>2
<1>15. Tells(more, w, U) BY <1>7, <1>9, <1>11, <1>14 DEF Tells
<1> QED BY <1>3, <1>12, <1>13, <1>15 DEF TellsToo

\* or goes into the last.
LEMMA TellsAdded ==
    ASSUME NEW bs, NEW w \in Nat \ {0}, NEW S \in SUBSET Nat, IsFiniteSet(S), Tells(bs, w, S), NEW at \in Nat,
           Later(at, S), NEW n \in Nat, NEW more, LastAdded(bs, more, n, w, at)
    PROVE  TellsToo(bs, more, w, S, at)
<1>0. \A s \in S : s < at BY DEF Later
<1>0a. /\ Len(bs) = n + 1 /\ bs[n + 1].first \div w = at \div w
       /\ more \in Seq(BucketT) /\ Len(more) = n + 1 /\ (\A j \in 1..n : more[j] = bs[j])
       /\ more[n + 1] = Added(bs[n + 1], at)
    BY DEF LastAdded
<1> USE <1>0, <1>0a
<1>1. bs \in Seq(BucketT) BY DEF Tells
<1>2. PICK b, c, U : b = bs[n + 1] /\ c = Added(b, at) /\ U = S \cup {at} OBVIOUS
<1>3. n + 1 \in 1..(n + 1) /\ more[n + 1] = c BY <1>2
<1>4. Fits(b, w, S) BY <1>2, <1>3 DEF Tells
<1>5. b.first \in Nat /\ b.last \in Nat /\ b.first <= b.last BY <1>4, FitsIs
<1>6. ASSUME NEW j \in 1..n
      PROVE  /\ Fits(bs[j], w, S) /\ Fits(bs[j], w, U) /\ bs[j].last \in Nat /\ bs[j].first \in Nat
             /\ Precedes(bs[j], b, w)
    <2>1. j \in 1..(n + 1) /\ j < n + 1 OBVIOUS
    <2>2. Fits(bs[j], w, S) /\ Precedes(bs[j], b, w) BY <1>2, <1>3, <2>1 DEF Tells
    <2>3. bs[j].last \in Nat /\ bs[j].first \in Nat BY <2>2, FitsIs
    <2> QED BY <1>2, <2>2, <2>3, FitsStill
<1>7. ASSUME NEW s \in S, b.first <= s PROVE Holds(b, s)
    <2>1. bs[1].first <= s
        <3>1. CASE n = 0 BY <1>2, <1>7, <3>1
        <3>2. CASE n # 0
            <4>1. 1 \in 1..n BY <3>2
            <4>2. Precedes(bs[1], b, w) /\ Fits(bs[1], w, S) BY <1>6, <4>1
            <4>3. bs[1].first \in Nat /\ bs[1].last \in Nat /\ bs[1].first <= bs[1].last BY <4>2, FitsIs
            <4>4. s \in Nat /\ bs[1].last < b.first BY <4>2 DEF Precedes
            <4> QED BY <1>5, <1>7, <4>3, <4>4
        <3> QED BY <3>1, <3>2
    <2>2. HeldBy(bs, s) BY <2>1 DEF Tells
    <2>3. PICK j \in 1..(n + 1) : Holds(bs[j], s) BY <2>2 DEF HeldBy
    <2>4. j = n + 1
        <3> SUFFICES ASSUME j # n + 1 PROVE FALSE OBVIOUS
        <3>1. j \in 1..n OBVIOUS
        <3>2. bs[j].last < b.first /\ bs[j].last \in Nat /\ s <= bs[j].last /\ s \in Nat
            BY <1>6, <2>3, <3>1 DEF Precedes, Holds
        <3> QED BY <1>5, <1>7, <3>2
    <2> QED BY <1>2, <2>3, <2>4
<1>8. /\ Fits(c, w, U) /\ Holds(c, at) /\ c.first = b.first
      /\ \A s \in S : Holds(b, s) => Holds(c, s)
    <2>1. /\ Fits(Added(b, at), w, S \cup {at}) /\ Holds(Added(b, at), at)
          /\ \A s \in S : Holds(b, s) => Holds(Added(b, at), s)
          /\ Added(b, at).first = b.first
        <3>1. b.first \div w = at \div w BY <1>2
        <3>2. TakesRest(b, S) BY <1>7 DEF TakesRest
        <3>3. Later(at, S) /\ IsFiniteSet(S) /\ S \in SUBSET Nat /\ w \in Nat \ {0} /\ at \in Nat BY DEF Later
        <3>4. AddedFits(Added(b, at), b, w, S, at) BY ONLY <1>4, <3>1, <3>2, <3>3, FitsAdded
        <3> QED BY <3>4 DEF AddedFits
    <2> QED BY <1>2, <2>1
<1>9. ASSUME NEW j \in 1..(n + 1) PROVE Fits(more[j], w, U)
    <2>1. j \in 1..n \/ j = n + 1 OBVIOUS
    <2> QED BY <1>3, <1>6, <1>8, <2>1
<1>10. ASSUME NEW j \in 1..(n + 1), NEW k \in 1..(n + 1), j < k PROVE Precedes(more[j], more[k], w)
    <2>1. j \in 1..n /\ more[j] = bs[j] BY <1>10
    <2>2. CASE k = n + 1
        <3>1. Precedes(bs[j], b, w) BY <1>6, <2>1
        <3>2. Precedes(bs[j], c, w) BY <1>8, <3>1 DEF Precedes
        <3> QED BY <1>3, <2>1, <2>2, <3>2
    <2>3. CASE k # n + 1
        <3>1. k \in 1..n BY <2>3
        <3> QED BY <1>10, <2>1, <3>1 DEF Tells
    <2> QED BY <2>2, <2>3
<1>11. HeldBy(more, at) BY <1>3, <1>8 DEF HeldBy
<1>12. ASSUME NEW s \in S, HeldBy(bs, s) PROVE HeldBy(more, s)
    <2>1. PICK j \in 1..(n + 1) : Holds(bs[j], s) BY <1>12 DEF HeldBy
    <2>2. CASE j = n + 1
        <3>1. Holds(c, s) BY <1>2, <1>8, <2>1, <2>2
        <3> QED BY <1>3, <3>1 DEF HeldBy
    <2>3. CASE j # n + 1
        <3>1. j \in 1..n BY <2>3
        <3>2. Holds(more[j], s) BY <2>1, <3>1
        <3> QED BY <3>2 DEF HeldBy
    <2> QED BY <2>2, <2>3
<1>13. ASSUME NEW s \in U, more[1].first <= s PROVE HeldBy(more, s)
    <2>1. CASE s = at BY <1>11, <2>1
    <2>2. CASE s # at
        <3>1. s \in S BY <1>2, <2>2
        <3>2. more[1].first = bs[1].first
            <4>1. CASE n = 0 BY <1>2, <1>3, <1>8, <4>1
            <4>2. CASE n # 0
                <5>1. 1 \in 1..n BY <4>2
                <5> QED BY <5>1
            <4> QED BY <4>1, <4>2
        <3>3. Len(bs) > 0 BY n \in Nat
        <3>4. HeldBy(bs, s) BY <1>13, <3>1, <3>2, <3>3 DEF Tells
        <3> QED BY <1>12, <3>1, <3>4
    <2> QED BY <2>1, <2>2
<1>14. Tells(more, w, U) BY <1>9, <1>10, <1>13 DEF Tells
<1> QED BY <1>2, <1>11, <1>12, <1>14 DEF TellsToo

\* Without the first of a list, and what comes after it.
LEMMA RestOfBoth ==
    ASSUME NEW T, NEW p \in Seq(T), NEW q \in Seq(T), NEW k \in 0..Len(p)
    PROVE  SubSeq(p, k + 1, Len(p)) \o q = SubSeq(p \o q, k + 1, Len(p \o q))
<1>1. PICK n \in Nat, m \in Nat : n = Len(p) /\ m = Len(q) OBVIOUS
<1>2. PICK r, b, l, s : r = SubSeq(p, k + 1, n) /\ b = p \o q /\ l = r \o q /\ s = SubSeq(b, k + 1, n + m)
    OBVIOUS
<1>3. k \in Nat /\ n - k \in Nat /\ k \in 0..(n + m) /\ (n + m) - k = (n - k) + m BY <1>1
<1>4. r \in Seq(T) /\ Len(r) = n - k /\ \A i \in 1..(n - k) : r[i] = p[k + i] BY <1>1, <1>2, Parts
<1>5. b \in Seq(T) /\ Len(b) = n + m /\ (\A i \in 1..n : b[i] = p[i])
      /\ \A i \in (n + 1)..(n + m) : b[i] = q[i - n]
    BY <1>1, <1>2, Longer
<1>6. l \in Seq(T) /\ Len(l) = (n - k) + m /\ (\A i \in 1..(n - k) : l[i] = r[i])
      /\ \A i \in ((n - k) + 1)..((n - k) + m) : l[i] = q[i - (n - k)]
    <2>1. PICK d \in Nat : d = n - k BY <1>3
    <2>2. Len(r) = d /\ l = r \o q BY <1>2, <1>4, <2>1
    <2>3. l \in Seq(T) /\ Len(l) = d + m /\ (\A i \in 1..d : l[i] = r[i])
          /\ \A i \in (d + 1)..(d + m) : l[i] = q[i - d]
        <3>1. r \in Seq(T) /\ q \in Seq(T) BY <1>4
        <3>2. /\ r \o q \in Seq(T) /\ Len(r \o q) = Len(r) + Len(q)
              /\ \A i \in 1..Len(r) : (r \o q)[i] = r[i]
              /\ \A i \in (Len(r) + 1)..(Len(r) + Len(q)) : (r \o q)[i] = q[i - Len(r)]
            BY ONLY <3>1, Longer
        <3> QED BY <1>1, <2>2, <3>2
    <2> QED BY <2>1, <2>3
<1>7. s \in Seq(T) /\ Len(s) = (n - k) + m /\ \A i \in 1..((n - k) + m) : s[i] = b[k + i]
    <2>1. PICK e \in Nat : e = n + m BY <1>1
    <2>2. s = SubSeq(b, k + 1, e) /\ Len(b) = e /\ b \in Seq(T) /\ k \in 0..e BY <1>2, <1>3, <1>5, <2>1
    <2>3. s \in Seq(T) /\ Len(s) = e - k /\ \A i \in 1..(e - k) : s[i] = b[k + i] BY <2>2, Parts
    <2> QED BY <1>3, <2>1, <2>3
<1>8. ASSUME NEW i \in 1..((n - k) + m) PROVE l[i] = s[i]
    <2>1. CASE i <= n - k
        <3>1. i \in 1..(n - k) /\ k + i \in 1..n BY <1>3, <2>1
        <3> QED BY <1>4, <1>5, <1>6, <1>7, <3>1
    <2>2. CASE i > n - k
        <3>1. i \in ((n - k) + 1)..((n - k) + m) /\ k + i \in (n + 1)..(n + m) /\ (k + i) - n = i - (n - k)
            BY <1>3, <2>2
        <3> QED BY <1>5, <1>6, <1>7, <3>1
    <2> QED BY <1>3, <2>1, <2>2
<1>9. l = s BY <1>6, <1>7, <1>8, SeqEqual
<1> QED BY <1>1, <1>2, <1>5, <1>9

\* The newest elements that fit.
LEMMA RingIs ==
    ASSUME NEW T, NEW s \in Seq(T), NEW cap \in Nat
    PROVE  \E k \in 0..Len(s) :
            /\ Ring(s, cap) = SubSeq(s, k + 1, Len(s)) /\ Len(s) - k <= cap
            /\ k > 0 => Len(s) - k = cap
<1>1. PICK n \in Nat : n = Len(s) OBVIOUS
<1>2. PICK d \in Int : d = n - cap + 1 OBVIOUS
<1>3. 1 \in Int OBVIOUS
<1>4. Max({1, d}) \in {1, d} /\ Max({1, d}) >= 1 /\ Max({1, d}) >= d BY ONLY <1>3, d \in Int, OfTwo
<1>5. PICK m \in Int : m = Max({1, d}) BY <1>4
<1>6. (m = 1 \/ m = d) /\ m >= 1 /\ m >= d BY <1>4, <1>5
<1>7. PICK k \in Int : k = m - 1 OBVIOUS
<1>8. k \in 0..n /\ n - k <= cap /\ (k > 0 => n - k = cap) /\ m = k + 1 BY <1>2, <1>6, <1>7
<1>9. Ring(s, cap) = SubSeq(s, k + 1, n) BY <1>1, <1>2, <1>5, <1>8 DEF Ring
<1> QED BY <1>1, <1>8, <1>9

-----------------------------------------------------------------------------
(* Tiers                                                                    *)

\* A span later is at most that many windows later, and one.
LEMMA WindowsOfSum ==
    ASSUME NEW a \in Nat, NEW b \in Nat, NEW w \in Nat \ {0}
    PROVE  /\ a \div w \in Nat /\ b \div w \in Nat /\ (a + b) \div w \in Nat
           /\ (a + b) \div w <= a \div w + b \div w + 1
<1>1. PICK x \in Nat, y \in 0..(w - 1) : x = a \div w /\ a = w * x + y OBVIOUS
<1>2. PICK u \in Nat, v \in 0..(w - 1) : u = b \div w /\ b = w * u + v OBVIOUS
<1>3. PICK c \in Nat : c = a + b OBVIOUS
<1>4. PICK p \in Nat, q \in 0..(w - 1) : p = c \div w /\ c = w * p + q OBVIOUS
<1>5. w * x \in Nat /\ w * u \in Nat /\ w * p \in Nat OBVIOUS
<1>6. p <= x + u + 1
    <2> SUFFICES ASSUME p > x + u + 1 PROVE FALSE OBVIOUS
    <2>1. PICK d \in Nat : p = x + u + 2 + d
        <3>1. p - (x + u + 2) \in Nat OBVIOUS
        <3> QED BY <3>1
    <2>2. w * p = w * x + w * u + w + w + w * d BY <2>1
    <2>3. w * d \in Nat OBVIOUS
    <2>4. w * p <= a + b BY <1>3, <1>4, <1>5
    <2>5. a + b < w * x + w * u + w + w BY <1>1, <1>2, <1>5
    <2> QED BY <1>5, <2>2, <2>3, <2>4, <2>5
<1> QED BY <1>1, <1>2, <1>3, <1>4, <1>6

\* Each bucket of a list is at least a window after the one before.
LEMMA Climbs ==
    ASSUME NEW bs, NEW w \in Nat \ {0}, NEW S \in SUBSET Nat, Tells(bs, w, S), NEW n \in Nat, n = Len(bs)
    PROVE  /\ \A j \in 1..n : bs[j].first \in Nat /\ bs[j].last \in Nat /\ bs[j].first <= bs[j].last
                              /\ bs[j].first \in S /\ bs[j].last \in S
                              /\ bs[j].first \div w = bs[j].last \div w /\ bs[j].last \div w \in Nat
           /\ \A d \in Nat : \A j \in 1..n : j + d <= n => bs[j].last \div w + d <= bs[j + d].last \div w
<1>1. ASSUME NEW j \in 1..n
      PROVE  /\ bs[j].first \in Nat /\ bs[j].last \in Nat /\ bs[j].first <= bs[j].last
             /\ bs[j].first \in S /\ bs[j].last \in S
             /\ bs[j].first \div w = bs[j].last \div w /\ bs[j].last \div w \in Nat
    <2>1. Fits(bs[j], w, S) BY DEF Tells
    <2>2. bs[j].first \in Nat /\ bs[j].last \in Nat /\ bs[j].first <= bs[j].last
          /\ bs[j].first \div w = bs[j].last \div w /\ bs[j].first \in S /\ bs[j].last \in S
        BY <2>1, FitsIs
    <2>3. bs[j].last \div w \in Nat BY <2>2, Windows
    <2> QED BY <2>2, <2>3
<1> DEFINE In == {d \in Nat : \A j \in 1..n : j + d <= n => bs[j].last \div w + d <= bs[j + d].last \div w}
<1>2. 0 \in In
    <2> SUFFICES ASSUME NEW j \in 1..n PROVE bs[j].last \div w + 0 <= bs[j + 0].last \div w OBVIOUS
    <2>1. j + 0 = j /\ bs[j].last \div w \in Nat BY <1>1
    <2> QED BY <2>1
<1>3. ASSUME NEW d \in Nat, d \in In PROVE d + 1 \in In
    <2> SUFFICES ASSUME NEW j \in 1..n, j + (d + 1) <= n
                 PROVE  bs[j].last \div w + (d + 1) <= bs[j + (d + 1)].last \div w
        OBVIOUS
    <2>1. PICK i \in 1..n : i = j + d OBVIOUS
    <2>2. i + 1 \in 1..n /\ i + 1 = j + (d + 1) /\ i < i + 1 BY <2>1
    <2>3. bs[j].last \div w + d <= bs[i].last \div w BY <1>3, <2>1
    <2>4. Precedes(bs[i], bs[i + 1], w) BY <2>2 DEF Tells
    <2>5. PICK x \in Nat, y \in Nat, z \in Nat :
            x = bs[j].last \div w /\ y = bs[i].last \div w /\ z = bs[i + 1].last \div w
        BY <1>1, <2>2
    <2>6. bs[i + 1].first \div w = z BY <1>1, <2>2, <2>5
    <2>7. y < z BY <2>4, <2>5, <2>6 DEF Precedes
    <2>8. x + d <= y BY <2>3, <2>5
    <2>9. x + (d + 1) <= z BY ONLY <2>5, <2>7, <2>8, d \in Nat
    <2> QED BY <2>2, <2>5, <2>9
<1>4. \A d \in Nat : d \in In
    <2> HIDE DEF In
    <2> QED BY <1>2, <1>3, NatSetInduction
<1> QED BY <1>1, <1>4

\* The buckets a ring drops are older than its span.
LEMMA Dropped ==
    ASSUME NEW bs, NEW w \in Nat \ {0}, NEW S \in SUBSET Nat, Tells(bs, w, S), NEW n \in Nat, n = Len(bs),
           NEW k \in 0..n, NEW sp \in Nat, k > 0 => n - k >= sp \div w + 2,
           NEW top \in Nat, \A x \in S : x <= top,
           NEW s \in S, s >= top - sp, HeldBy(bs, s)
    PROVE  HeldBy(SubSeq(bs, k + 1, n), s)
<1>0. bs \in Seq(BucketT) BY DEF Tells
<1>1. PICK j \in 1..n : Holds(bs[j], s) BY DEF HeldBy
<1>2. n - k \in Nat /\ j \in Nat /\ k \in Nat OBVIOUS
<1>3. PICK m \in Nat : m = n - k BY <1>2
<1>4. PICK r : r = SubSeq(bs, k + 1, n) OBVIOUS
<1>5. Len(r) = m /\ \A i \in 1..m : r[i] = bs[k + i] BY <1>0, <1>3, <1>4, Parts
<1>6. CASE j > k
    <2>1. PICK i : i = j - k OBVIOUS
    <2>2. i \in 1..m /\ k + i = j BY <1>3, <1>6, <2>1
    <2> QED BY <1>1, <1>4, <1>5, <2>2 DEF HeldBy
<1>7. CASE ~(j > k)
    <2> SUFFICES FALSE OBVIOUS
    <2>1. n \in 1..n /\ n - j \in Nat /\ k > 0 BY <1>7
    <2>2. PICK d \in Nat : d = n - j BY <2>1
    <2>3. j + d = n /\ d >= n - k BY <1>7, <2>2
    <2>4. bs[j].last \div w + d <= bs[n].last \div w
        <3>1. \A e \in Nat : \A i \in 1..n : i + e <= n => bs[i].last \div w + e <= bs[i + e].last \div w
            BY Climbs
        <3>2. j + d <= n BY <2>3
        <3>3. bs[j].last \div w + d <= bs[j + d].last \div w BY ONLY <3>1, <3>2, d \in Nat, j \in 1..n
        <3> QED BY <2>3, <3>3
    <2>5. bs[j].last \in Nat /\ bs[n].last \in Nat /\ bs[n].last \in S BY <2>1, Climbs
    <2>6. PICK x \in Nat, z \in Nat : x = bs[j].last /\ z = bs[n].last BY <2>5
    <2>7. s \in Nat /\ s <= x /\ z <= top BY <1>1, <2>5, <2>6 DEF Holds
    <2>8. s \div w <= x \div w /\ z \div w <= top \div w /\ top \div w <= (s + sp) \div w
        <3>1. s \in Nat /\ x \in Nat /\ z \in Nat /\ top \in Nat /\ s + sp \in Nat /\ top <= s + sp BY <2>7
        <3> QED BY <2>7, <3>1, Windows
    <2>9. (s + sp) \div w <= s \div w + sp \div w + 1 BY <2>7, WindowsOfSum
    <2>10. /\ s \div w \in Nat /\ x \div w \in Nat /\ z \div w \in Nat /\ top \div w \in Nat
           /\ sp \div w \in Nat /\ (s + sp) \div w \in Nat
        BY <2>7, Windows, WindowsOfSum
    <2>11. PICK a \in Nat, b \in Nat, c \in Nat, e \in Nat, f \in Nat, g \in Nat :
             /\ a = s \div w /\ b = x \div w /\ c = z \div w /\ e = top \div w /\ f = sp \div w
             /\ g = (s + sp) \div w
        BY <2>10
    <2>12. b + d <= c /\ a <= b /\ c <= e /\ e <= g /\ g <= a + f + 1 BY <2>4, <2>6, <2>8, <2>9, <2>11
    <2>13. n - k >= f + 2 BY <2>1, <2>11
    <2>14. d >= f + 2 BY <2>3, <2>13
    <2> QED BY ONLY <2>11, <2>12, <2>14, d \in Nat
<1> QED BY <1>6, <1>7

TierT == [width : Nat \ {0}, capacity : Nat, closed : Seq(BucketT), open : {<< >>} \cup {<<b>> : b \in BucketT}]

\* What a tier tells of all samples.
TierFits(t, S) ==
    /\ t \in TierT /\ Len(t.closed) <= t.capacity /\ (t.open = << >> => t.closed = << >>)
    /\ Tells(Everything(t), t.width, S)

\* No sample from some time on that one tier holds is missing in the other.
Keeps(t, u, S, a) == \A s \in S : (s >= a /\ HeldBy(Everything(t), s)) => HeldBy(Everything(u), s)

\* The parts of a tier.
LEMMA TierIs ==
    ASSUME NEW t, NEW S, TierFits(t, S)
    PROVE  /\ t \in TierT /\ t.width \in Nat \ {0} /\ t.capacity \in Nat /\ t.closed \in Seq(BucketT)
           /\ t = [width |-> t.width, capacity |-> t.capacity, closed |-> t.closed, open |-> t.open]
           /\ t.open \in Seq(BucketT)
           /\ \/ t.open = << >> /\ Len(t.open) = 0 /\ t.closed = << >>
              \/ \E b \in BucketT : t.open = <<b>> /\ Len(t.open) = 1 /\ t.open[1] = b /\ Head(t.open) = b
<1>1. t \in TierT /\ (t.open = << >> => t.closed = << >>) BY DEF TierFits
<1>2. /\ t.width \in Nat \ {0} /\ t.capacity \in Nat /\ t.closed \in Seq(BucketT)
      /\ t = [width |-> t.width, capacity |-> t.capacity, closed |-> t.closed, open |-> t.open]
      /\ t.open = << >> \/ \E b \in BucketT : t.open = <<b>>
    BY <1>1 DEF TierT
<1>3. CASE t.open = << >>
    <2>1. Len(t.open) = 0 /\ t.open \in Seq(BucketT) BY <1>3
    <2> QED BY <1>1, <1>2, <1>3, <2>1
<1>4. ASSUME NEW b \in BucketT, t.open = <<b>>
      PROVE  t.open \in Seq(BucketT) /\ Len(t.open) = 1 /\ t.open[1] = b /\ Head(t.open) = b
    BY <1>4
<1> QED BY <1>1, <1>2, <1>3, <1>4

\* A sample pushed to a tier.
Pushed(t, u, S, at) ==
    /\ TierFits(u, S \cup {at}) /\ u.width = t.width /\ u.capacity = t.capacity
    /\ HeldBy(Everything(u), at)
    /\ \A sp \in Nat : t.capacity = Buckets(sp, t.width) => Keeps(t, u, S, at - sp)

\* Tier::push: the tier tells of the sample too, and drops only what is past its span.
LEMMA PushTierIs ==
    ASSUME NEW t, NEW S \in SUBSET Nat, IsFiniteSet(S), TierFits(t, S), NEW at \in Nat, Later(at, S)
    PROVE  Pushed(t, PushTier(t, at), S, at)
<1>1. PICK w \in Nat \ {0}, cap \in Nat, cl \in Seq(BucketT), o \in Seq(BucketT) :
        w = t.width /\ cap = t.capacity /\ cl = t.closed /\ o = t.open
    BY TierIs
<1>2. t = [width |-> w, capacity |-> cap, closed |-> cl, open |-> o] BY <1>1, TierIs
<1>3. PICK bs, U, u : bs = cl \o o /\ U = S \cup {at} /\ u = PushTier(t, at) OBVIOUS
<1>4. Everything(t) = bs BY <1>1, <1>3 DEF Everything
<1>5. Tells(bs, w, S) /\ Len(cl) <= cap BY <1>1, <1>4 DEF TierFits
<1>6. bs \in Seq(BucketT) BY <1>5 DEF Tells
<1>7. PICK n \in Nat : n = Len(bs) BY <1>6
<1>8. \A s \in S : s < at BY DEF Later
<1>9. U \in SUBSET Nat /\ \A s \in U : s <= at BY <1>3, <1>8
<1>10. \/ o = << >> /\ Len(o) = 0 /\ cl = << >>
       \/ \E b \in BucketT : o = <<b>> /\ Len(o) = 1 /\ o[1] = b /\ Head(o) = b
    BY <1>1, TierIs
<1>11. CASE o # << >> /\ Head(o).first \div w = at \div w
    <2>1. PICK b \in BucketT : o = <<b>> /\ Len(o) = 1 /\ o[1] = b /\ Head(o) = b BY <1>10, <1>11
    <2>2. PICK m \in Nat : m = Len(cl) OBVIOUS
    <2>3. PICK c : c = Added(b, at) OBVIOUS
    <2>4. n = m + 1 /\ bs[m + 1] = b /\ \A i \in 1..m : bs[i] = cl[i]
        <3>1. /\ Len(bs) = Len(cl) + Len(o) /\ (\A i \in 1..Len(cl) : bs[i] = cl[i])
              /\ \A i \in 1..Len(o) : bs[Len(cl) + i] = o[i]
            BY <1>3, Longer
        <3>2. 1 \in 1..1 OBVIOUS
        <3> QED BY <1>7, <2>1, <2>2, <3>1, <3>2
    <2>5. u = [width |-> w, capacity |-> cap, closed |-> cl, open |-> <<c>>]
        <3>1. u = [t EXCEPT !.open[1] = Added(@, at)] BY <1>1, <1>3, <1>11 DEF PushTier
        <3>2. [<<b>> EXCEPT ![1] = Added(b, at)] = <<Added(b, at)>> OBVIOUS
        <3>3. u = [width |-> w, capacity |-> cap, closed |-> cl, open |-> [o EXCEPT ![1] = Added(o[1], at)]]
            BY <1>2, <3>1
        <3> QED BY <2>1, <2>3, <3>2, <3>3
    <2>6. b.first \div w = at \div w /\ Fits(b, w, S)
        <3>1. m + 1 \in 1..Len(bs) BY <1>7, <2>4
        <3> QED BY <1>5, <1>11, <2>1, <2>4, <3>1 DEF Tells
    <2>7. c \in BucketT
        <3>1. b.first \in Nat /\ b.last \in Nat /\ b.count \in Nat /\ b.last < at BY <1>8, <2>6, FitsIs
        <3>2. PICK l \in Int : l = b.last BY <3>1
        <3>3. at \in Int OBVIOUS
        <3>4. Max({l, at}) \in {l, at} BY ONLY l \in Int, <3>3, OfTwo
        <3>5. Max({b.last, at}) \in Nat BY <3>1, <3>2, <3>4
        <3>6. c = [first |-> b.first, last |-> Max({b.last, at}), count |-> b.count + 1]
            BY <2>3 DEF Added, BucketT
        <3>7. b.count + 1 \in Nat BY <3>1
        <3> QED BY <3>1, <3>5, <3>6, <3>7 DEF BucketT
    <2>8. PICK more : more = cl \o <<c>> OBVIOUS
    <2>9. more \in Seq(BucketT) /\ Len(more) = m + 1 /\ more[m + 1] = c /\ \A i \in 1..m : more[i] = bs[i]
        <3>1. <<c>> \in Seq(BucketT) /\ Len(<<c>>) = 1 /\ <<c>>[1] = c BY <2>7, One
        <3>2. /\ more \in Seq(BucketT) /\ Len(more) = Len(cl) + Len(<<c>>)
              /\ (\A i \in 1..Len(cl) : more[i] = cl[i])
              /\ \A i \in 1..Len(<<c>>) : more[Len(cl) + i] = <<c>>[i]
            BY <2>8, <3>1, Longer
        <3>3. 1 \in 1..1 OBVIOUS
        <3> QED BY <2>2, <2>4, <3>1, <3>2, <3>3
    <2>10. Tells(more, w, U) /\ HeldBy(more, at) /\ \A s \in S : HeldBy(bs, s) => HeldBy(more, s)
        <3>1. Len(bs) = m + 1 /\ bs[m + 1].first \div w = at \div w /\ more[m + 1] = Added(bs[m + 1], at)
            BY <1>7, <2>3, <2>4, <2>6, <2>9
        <3>2. m \in Nat /\ more \in Seq(BucketT) /\ Len(more) = m + 1 /\ \A i \in 1..m : more[i] = bs[i]
            BY <2>9
        <3>3. LastAdded(bs, more, m, w, at) BY <3>1, <3>2 DEF LastAdded
        <3>4. TellsToo(bs, more, w, S, at)
            BY ONLY <1>5, <3>3, w \in Nat \ {0}, S \in SUBSET Nat, IsFiniteSet(S), at \in Nat, Later(at, S),
                    m \in Nat, TellsAdded
        <3> QED BY <1>3, <3>4 DEF TellsToo
    <2>11. Everything(u) = more BY <2>5, <2>8 DEF Everything
    <2>12. u \in TierT BY <2>5, <2>7 DEF TierT
    <2>13. TierFits(u, U)
        <3>1. u.width = w /\ u.capacity = cap /\ u.closed = cl /\ u.open = <<c>> BY <2>5
        <3>2. <<c>> # << >> OBVIOUS
        <3> QED BY <1>5, <2>10, <2>11, <2>12, <3>1, <3>2 DEF TierFits
    <2>14. \A a : Keeps(t, u, S, a) BY <1>4, <2>10, <2>11 DEF Keeps
    <2> QED BY <1>1, <1>3, <2>5, <2>10, <2>11, <2>13, <2>14 DEF Pushed
<1>12. CASE ~(o # << >> /\ Head(o).first \div w = at \div w)
    <2>1. PICK b, more : b = Bucket(at) /\ more = bs \o <<b>> OBVIOUS
    <2>2. u = [t EXCEPT !.closed = Ring(bs, cap), !.open = <<b>>] BY <1>1, <1>3, <1>12, <2>1 DEF PushTier
    <2>3. PICK k \in 0..n : Ring(bs, cap) = SubSeq(bs, k + 1, n) /\ n - k <= cap /\ (k > 0 => n - k = cap)
        BY <1>6, <1>7, RingIs
    <2>4. PICK r : r = SubSeq(bs, k + 1, n) OBVIOUS
    <2>5. u = [width |-> w, capacity |-> cap, closed |-> r, open |-> <<b>>] BY <1>2, <2>2, <2>3, <2>4
    <2>6. r \in Seq(BucketT) /\ Len(r) = n - k BY <1>6, <1>7, <2>4, Parts
    <2>7. b \in BucketT BY <2>1 DEF Bucket, BucketT
    <2>8. Len(bs) > 0 => bs[Len(bs)].last \div w # at \div w
        <3> SUFFICES ASSUME n > 0 PROVE bs[n].last \div w # at \div w BY <1>7
        <3>1. o # << >> /\ cl \in Seq(BucketT)
            <4> SUFFICES ASSUME o = << >> PROVE FALSE OBVIOUS
            <4>1. cl = << >> BY <1>10
            <4>2. bs = << >> BY <1>3, <4>1
            <4>3. Len(bs) = 0 BY <4>2
            <4> QED BY <1>7, <4>3
        <3>2. PICK e \in BucketT : o = <<e>> /\ Len(o) = 1 /\ o[1] = e /\ Head(o) = e BY <1>10, <3>1
        <3>3. /\ Len(bs) = Len(cl) + Len(o) /\ \A i \in 1..Len(o) : bs[Len(cl) + i] = o[i]
            BY <1>3, Longer
        <3>4. 1 \in 1..1 OBVIOUS
        <3>5. bs[n] = e BY <1>7, <3>2, <3>3, <3>4
        <3>6. n \in 1..Len(bs) BY <1>7
        <3>7. Fits(bs[n], w, S) BY <1>5, <3>6 DEF Tells
        <3>8. e.first \div w = e.last \div w BY <3>5, <3>7 DEF Fits
        <3> QED BY <1>12, <3>1, <3>2, <3>5, <3>8
    <2>9. Tells(more, w, U) /\ HeldBy(more, at) /\ \A s \in S : HeldBy(bs, s) => HeldBy(more, s)
        <3>1. StartsNew(bs, w, at) BY <2>8 DEF StartsNew
        <3>2. more = bs \o <<Bucket(at)>> BY <2>1
        <3>3. TellsToo(bs, more, w, S, at)
            BY ONLY <1>5, <3>1, <3>2, w \in Nat \ {0}, S \in SUBSET Nat, at \in Nat, Later(at, S), TellsMore
        <3> QED BY <1>3, <3>3 DEF TellsToo
    <2>10. <<b>> \in Seq(BucketT) /\ Len(<<b>>) = 1 BY <2>7, One
    <2>11. more \in Seq(BucketT) /\ Len(more) = n + 1
        <3>1. more \in Seq(BucketT) /\ Len(more) = Len(bs) + Len(<<b>>) BY <1>6, <2>1, <2>10, Longer
        <3> QED BY <1>7, <2>10, <3>1
    <2>12. PICK e \in Nat : e = n + 1 OBVIOUS
    <2>13. Everything(u) = SubSeq(more, k + 1, e)
        <3>1. Everything(u) = r \o <<b>> BY <2>5 DEF Everything
        <3>2. k \in 0..Len(bs) BY <1>7
        <3>3. SubSeq(bs, k + 1, Len(bs)) \o <<b>> = SubSeq(bs \o <<b>>, k + 1, Len(bs \o <<b>>))
            BY ONLY <1>6, <2>10, <3>2, RestOfBoth
        <3> QED BY <1>7, <2>1, <2>4, <2>11, <2>12, <3>1, <3>3
    <2>14. k \in 0..e /\ e = Len(more) BY <2>11, <2>12
    <2>15. Tells(Everything(u), w, U)
        <3>1. Tells(more, w, U) /\ k \in 0..Len(more) BY <2>9, <2>14
        <3>2. Tells(SubSeq(more, k + 1, Len(more)), w, U)
            BY ONLY <3>1, <1>9, w \in Nat \ {0}, TellsRest
        <3> QED BY <2>13, <2>14, <3>2
    <2>16. u \in TierT /\ u.width = w /\ u.capacity = cap /\ u.closed = r /\ u.open = <<b>> /\ <<b>> # << >>
        BY <2>5, <2>6, <2>7 DEF TierT
    <2>17. TierFits(u, U) BY <2>3, <2>6, <2>15, <2>16 DEF TierFits
    <2>18. ASSUME NEW sp \in Nat, k > 0 => e - k >= sp \div w + 2, NEW s \in U, s >= at - sp, HeldBy(more, s)
           PROVE  HeldBy(Everything(u), s)
        <3>1. HeldBy(SubSeq(more, k + 1, e), s)
            BY ONLY <1>9, <2>9, <2>14, <2>18, w \in Nat \ {0}, e \in Nat, at \in Nat, Dropped
        <3> QED BY <2>13, <3>1
    <2>19. HeldBy(Everything(u), at)
        <3>1. e \in 1..e /\ more[e] = b
            <4>1. \A i \in 1..Len(<<b>>) : more[Len(bs) + i] = <<b>>[i] BY <1>6, <2>1, <2>10, Longer
            <4>2. 1 \in 1..1 OBVIOUS
            <4> QED BY <1>7, <2>10, <2>12, <4>1, <4>2
        <3>2. b = [first |-> at, last |-> at, count |-> 1] BY <2>1 DEF Bucket
        <3>3. Holds(more[e], at) BY <3>1, <3>2 DEF Holds
        <3>4. PICK d \in Nat : d = e - k BY <2>12
        <3>5. d \in 1..d /\ k + d = e BY <2>12, <3>4
        <3>6. PICK q : q = SubSeq(more, k + 1, e) OBVIOUS
        <3>7. Len(q) = d /\ \A i \in 1..d : q[i] = more[k + i]
            <4>1. more \in Seq(BucketT) /\ k \in 0..Len(more) /\ Len(more) = e BY <2>11, <2>14
            <4>2. /\ Len(SubSeq(more, k + 1, Len(more))) = Len(more) - k
                  /\ \A i \in 1..(Len(more) - k) : SubSeq(more, k + 1, Len(more))[i] = more[k + i]
                BY ONLY <4>1, Parts
            <4> QED BY ONLY <3>4, <3>6, <4>1, <4>2
        <3> QED BY <2>13, <3>3, <3>5, <3>6, <3>7 DEF HeldBy
    <2>20. ASSUME NEW sp \in Nat, cap = Buckets(sp, w) PROVE Keeps(t, u, S, at - sp)
        <3>1. sp \div w \in Nat BY Windows
        <3>2. cap = sp \div w + 2 BY <2>20 DEF Buckets
        <3>3. k > 0 => e - k >= sp \div w + 2
            <4>1. PICK x \in Nat : x = sp \div w BY <3>1
            <4> QED BY <2>3, <2>12, <3>2, <4>1
        <3>4. ASSUME NEW s \in S, s >= at - sp, HeldBy(bs, s) PROVE HeldBy(Everything(u), s)
            <4>1. s \in U /\ HeldBy(more, s) BY <1>3, <2>9, <3>4
            <4> QED BY <2>18, <3>3, <3>4, <4>1
        <3> QED BY <1>4, <3>4 DEF Keeps
    <2> QED BY <1>1, <1>3, <2>16, <2>17, <2>19, <2>20 DEF Pushed
<1> QED BY <1>11, <1>12

\* A tier of another capacity.
Resized(t, u, S, cap) ==
    /\ TierFits(u, S) /\ u.width = t.width /\ u.capacity = cap
    /\ \A sp \in Nat, top \in Nat :
        (cap = Buckets(sp, t.width) /\ \A x \in S : x <= top) => Keeps(t, u, S, top - sp)

\* Ring::set_capacity: as many buckets as a span needs are enough for the span.
LEMMA ResizedIs ==
    ASSUME NEW t, NEW S \in SUBSET Nat, TierFits(t, S), NEW cap \in Nat
    PROVE  Resized(t, [t EXCEPT !.capacity = cap, !.closed = Ring(@, cap)], S, cap)
<1>1. PICK w \in Nat \ {0}, cl \in Seq(BucketT), o \in Seq(BucketT) :
        w = t.width /\ cl = t.closed /\ o = t.open
    BY TierIs
<1>2. t = [width |-> w, capacity |-> t.capacity, closed |-> cl, open |-> o] BY <1>1, TierIs
<1>3. PICK bs, u : bs = cl \o o /\ u = [t EXCEPT !.capacity = cap, !.closed = Ring(@, cap)] OBVIOUS
<1>4. Everything(t) = bs BY <1>1, <1>3 DEF Everything
<1>5. Tells(bs, w, S) BY <1>1, <1>4 DEF TierFits
<1>6. bs \in Seq(BucketT) BY <1>5 DEF Tells
<1>7. PICK n \in Nat, m \in Nat : n = Len(bs) /\ m = Len(cl) BY <1>6
<1>8. n >= m
    <2>1. Len(bs) = Len(cl) + Len(o) BY <1>3, Longer
    <2>2. Len(o) \in Nat OBVIOUS
    <2> QED BY <1>7, <2>1, <2>2
<1>9. PICK k \in 0..m : Ring(cl, cap) = SubSeq(cl, k + 1, m) /\ m - k <= cap /\ (k > 0 => m - k = cap)
    BY <1>7, RingIs
<1>10. PICK r : r = SubSeq(cl, k + 1, m) OBVIOUS
<1>11. r \in Seq(BucketT) /\ Len(r) = m - k BY <1>7, <1>10, Parts
<1>12. u = [width |-> w, capacity |-> cap, closed |-> r, open |-> o] BY <1>1, <1>2, <1>3, <1>9, <1>10
<1>13. u.width = w /\ u.capacity = cap /\ u.closed = r /\ u.open = o BY <1>12
<1>14. Everything(u) = SubSeq(bs, k + 1, n)
    <2>1. Everything(u) = r \o o BY <1>13 DEF Everything
    <2>2. k \in 0..Len(cl) BY <1>7
    <2>3. SubSeq(cl, k + 1, Len(cl)) \o o = SubSeq(cl \o o, k + 1, Len(cl \o o))
        BY ONLY <2>2, cl \in Seq(BucketT), o \in Seq(BucketT), RestOfBoth
    <2> QED BY <1>3, <1>7, <1>10, <2>1, <2>3
<1>15. k \in 0..n /\ (k > 0 => n - k >= cap) BY <1>8, <1>9
<1>16. Tells(Everything(u), w, S)
    <2>1. k \in 0..Len(bs) BY <1>7, <1>15
    <2>2. Tells(SubSeq(bs, k + 1, Len(bs)), w, S) BY ONLY <1>5, <2>1, w \in Nat \ {0}, S \in SUBSET Nat, TellsRest
    <2> QED BY <1>7, <1>14, <2>2
<1>17. u \in TierT
    <2>1. o \in {<< >>} \cup {<<b>> : b \in BucketT} BY <1>1 DEF TierFits, TierT
    <2> QED BY <1>11, <1>12, <2>1 DEF TierT
<1>18. o = << >> => r = << >>
    <2> SUFFICES ASSUME o = << >> PROVE r = << >> OBVIOUS
    <2>1. cl = << >> BY <1>1 DEF TierFits
    <2>2. m = 0 BY <1>7, <2>1
    <2>3. Len(r) = 0
        <3>1. k \in 0..0 BY <1>9, <2>2
        <3>2. k = 0 BY <3>1
        <3>3. m - k = 0 BY <2>2, <3>2
        <3> QED BY <1>11, <3>3
    <2> QED BY <1>11, <2>3, EmptySeq
<1>19. TierFits(u, S) BY <1>9, <1>11, <1>13, <1>16, <1>17, <1>18 DEF TierFits
<1>20. ASSUME NEW sp \in Nat, NEW top \in Nat, cap = Buckets(sp, w), \A x \in S : x <= top
       PROVE  Keeps(t, u, S, top - sp)
    <2>1. sp \div w \in Nat /\ cap = sp \div w + 2 BY <1>20, Windows DEF Buckets
    <2>2. k > 0 => n - k >= sp \div w + 2
        <3>1. PICK x \in Nat : x = sp \div w BY <2>1
        <3> QED BY <1>15, <2>1, <3>1
    <2>3. ASSUME NEW s \in S, s >= top - sp, HeldBy(bs, s) PROVE HeldBy(Everything(u), s)
        <3>1. n = Len(bs) /\ k \in 0..n BY <1>7, <1>15
        <3>2. HeldBy(SubSeq(bs, k + 1, n), s)
            BY ONLY <1>5, <1>20, <2>2, <2>3, <3>1, w \in Nat \ {0}, S \in SUBSET Nat, n \in Nat, Dropped
        <3> QED BY <1>14, <3>2
    <2> QED BY <1>4, <2>3 DEF Keeps
<1> QED BY <1>1, <1>3, <1>13, <1>19, <1>20 DEF Resized

\* A tier that is new tells of nothing.
LEMMA EmptyTierFits ==
    ASSUME NEW r, r.width \in Nat \ {0}, r.capacity \in Nat, NEW S
    PROVE  TierFits(EmptyTier(r), S) /\ EmptyTier(r).width = r.width /\ EmptyTier(r).capacity = r.capacity
<1>1. PICK t : t = EmptyTier(r) OBVIOUS
<1>2. t = [width |-> r.width, capacity |-> r.capacity, closed |-> << >>, open |-> << >>] BY <1>1 DEF EmptyTier
<1>3. Everything(t) = << >> /\ Len(<< >>) = 0 /\ << >> \in Seq(BucketT) BY <1>2 DEF Everything
<1>4. Tells(Everything(t), t.width, S)
    <2>1. 1..0 = {} OBVIOUS
    <2> QED BY <1>3, <2>1 DEF Tells
<1>5. t \in TierT BY <1>2 DEF TierT
<1>6. Len(t.closed) <= t.capacity BY <1>2
<1>7. TierFits(t, S) BY <1>2, <1>4, <1>5, <1>6 DEF TierFits
<1> QED BY <1>1, <1>2, <1>7

-----------------------------------------------------------------------------
(* Raw samples                                                              *)

\* The latest of all samples, none left out since the first.
IsRaw(q, S) ==
    /\ q \in Seq(Nat) /\ Len(q) <= RAW_SAMPLES /\ (q = << >> => S = {})
    /\ \A i \in 1..Len(q) : q[i] \in S
    /\ \A i, k \in 1..Len(q) : i < k => q[i] < q[k]
    /\ \A s \in S : (Len(q) > 0 /\ q[1] <= s) => \E i \in 1..Len(q) : q[i] = s

\* Ring::push: the raw samples stay the latest there are.
LEMMA RawPushed ==
    ASSUME NEW q, NEW S \in SUBSET Nat, IsRaw(q, S), NEW at \in Nat, Later(at, S)
    PROVE  IsRaw(Ring(Append(q, at), RAW_SAMPLES), S \cup {at})
<1>1. PICK cap \in Nat : cap = RAW_SAMPLES /\ cap > 0 BY RetentionAssumption
<1>2. q \in Seq(Nat) BY DEF IsRaw
<1>3. PICK n \in Nat, m \in Nat : n = Len(q) /\ m = n + 1 BY <1>2
<1>4. PICK p, U : p = Append(q, at) /\ U = S \cup {at} OBVIOUS
<1>5. p \in Seq(Nat) /\ Len(p) = m /\ p[m] = at /\ \A i \in 1..n : p[i] = q[i] BY <1>2, <1>3, <1>4
<1>6. PICK k \in 0..m : Ring(p, cap) = SubSeq(p, k + 1, m) /\ m - k <= cap /\ (k > 0 => m - k = cap)
    BY <1>5, RingIs
<1>7. PICK r : r = SubSeq(p, k + 1, m) OBVIOUS
<1>8. m - k \in Nat /\ k \in Nat OBVIOUS
<1>9. PICK d \in Nat : d = m - k BY <1>8
<1>10. r \in Seq(Nat) /\ Len(r) = d /\ \A i \in 1..d : r[i] = p[k + i] BY <1>5, <1>7, <1>9, Parts
<1>11. d > 0 /\ d <= cap BY <1>1, <1>3, <1>6, <1>9
<1>12. ASSUME NEW i \in 1..m PROVE p[i] \in U /\ p[i] \in Nat
    <2>1. CASE i = m BY <1>4, <1>5, <2>1
    <2>2. CASE i # m
        <3>1. i \in 1..n BY <1>3, <2>2
        <3>2. q[i] \in S BY <1>3, <3>1 DEF IsRaw
        <3> QED BY <1>4, <1>5, <3>1, <3>2
    <2> QED BY <2>1, <2>2
<1>13. ASSUME NEW i \in 1..m, NEW j \in 1..m, i < j PROVE p[i] < p[j]
    <2>1. i \in 1..n BY <1>3, <1>13
    <2>2. CASE j = m
        <3>1. q[i] \in S BY <1>3, <2>1 DEF IsRaw
        <3> QED BY <1>5, <2>1, <2>2, <3>1 DEF Later
    <2>3. CASE j # m
        <3>1. j \in 1..n BY <1>3, <2>3
        <3>2. q[i] < q[j] BY <1>3, <1>13, <2>1, <3>1 DEF IsRaw
        <3> QED BY <1>5, <2>1, <3>1, <3>2
    <2> QED BY <2>2, <2>3
<1>14. ASSUME NEW i \in 1..d PROVE r[i] \in U
    <2>1. k + i \in 1..m BY <1>9
    <2> QED BY <1>10, <1>12, <2>1
<1>15. ASSUME NEW i \in 1..d, NEW j \in 1..d, i < j PROVE r[i] < r[j]
    <2>1. k + i \in 1..m /\ k + j \in 1..m /\ k + i < k + j BY <1>9, <1>15
    <2> QED BY <1>10, <1>13, <2>1
<1>16. ASSUME NEW s \in U, r[1] <= s PROVE \E i \in 1..d : r[i] = s
    <2>1. 1 \in 1..d /\ k + 1 \in 1..m /\ r[1] = p[k + 1] BY <1>9, <1>10, <1>11
    <2>2. CASE s = at
        <3>1. d \in 1..d /\ k + d = m BY <1>9, <1>11
        <3> QED BY <1>5, <1>10, <2>2, <3>1
    <2>3. CASE s # at
        <3>1. s \in S /\ s \in Nat /\ s < at BY <1>4, <2>3 DEF Later
        <3>2. k + 1 # m BY <1>5, <1>16, <2>1, <3>1
        <3>3. k + 1 \in 1..n /\ 1 \in 1..n BY <1>3, <2>1, <3>2
        <3>4. q[1] <= q[k + 1] /\ q[1] \in Nat /\ q[k + 1] \in Nat
            <4>1. q[1] \in Nat /\ q[k + 1] \in Nat BY <1>2, <1>3, <3>3
            <4>2. CASE k = 0 BY <4>1, <4>2
            <4>3. CASE k # 0
                <5>1. 1 < k + 1 BY <1>8, <4>3
                <5> QED BY <1>3, <3>3, <4>1, <5>1 DEF IsRaw
            <4> QED BY <4>2, <4>3
        <3>5. q[k + 1] <= s BY <1>5, <1>16, <2>1, <3>3
        <3>6. q[1] <= s /\ Len(q) > 0
            <4>1. n > 0 BY <3>3
            <4> QED BY <1>3, <3>1, <3>4, <3>5, <4>1
        <3>7. PICK i \in 1..n : q[i] = s BY <1>3, <3>1, <3>6 DEF IsRaw
        <3>8. i >= k + 1
            <4> SUFFICES ASSUME i < k + 1 PROVE FALSE BY <1>8
            <4>1. q[i] < q[k + 1] BY <1>3, <3>3 DEF IsRaw
            <4> QED BY <3>1, <3>4, <3>5, <3>7, <4>1
        <3>9. PICK j : j = i - k OBVIOUS
        <3>10. j \in 1..d /\ k + j = i BY <1>3, <1>9, <3>8, <3>9
        <3> QED BY <1>5, <1>10, <3>7, <3>10
    <2> QED BY <2>2, <2>3
<1>17. IsRaw(r, U)
    <2>1. r # << >> BY <1>10, <1>11
    <2> QED BY <1>1, <1>10, <1>11, <1>14, <1>15, <1>16, <2>1 DEF IsRaw
<1> QED BY <1>1, <1>4, <1>6, <1>7, <1>17

-----------------------------------------------------------------------------
(* The series                                                               *)

\* How many tiers a reach has, and the width and the span of each.
Count(r) == IF r > FINE_SPAN_MS THEN 2 ELSE 1
WidthOf(i) == IF i = 1 THEN FINE_MS ELSE COARSE_MS
SpanOf(i, r) == IF i = 1 THEN Min({r, FINE_SPAN_MS}) ELSE r

\* A tier holds every sample since some time, as far back from now as its span.
IsTier(t, i, S, r, from, top) ==
    /\ TierFits(t, S) /\ t.width = WidthOf(i) /\ t.capacity = Buckets(SpanOf(i, r), t.width)
    /\ \A s \in S : (s >= from /\ s >= top - SpanOf(i, r)) => HeldBy(Everything(t), s)

AreTiers(ts, S, r, from, top) ==
    /\ ts \in Seq(TierT) /\ Len(ts) = Count(r)
    /\ \A i \in 1..Count(r) : IsTier(ts[i], i, S, r, from, top)

\* The last tier spans the whole reach.
LEMMA SpansAre ==
    ASSUME NEW r \in Nat
    PROVE  /\ Count(r) \in {1, 2} /\ SpanOf(Count(r), r) = r
           /\ \A i \in 1..Count(r) : SpanOf(i, r) \in Nat /\ SpanOf(i, r) <= r
           /\ \A i \in {1, 2} : WidthOf(i) \in Nat \ {0}
           /\ WidthOf(1) < WidthOf(2)
<1>1. FINE_SPAN_MS \in Nat /\ FINE_MS \in Nat \ {0} /\ COARSE_MS \in Nat \ {0} /\ FINE_MS < COARSE_MS
    BY RetentionAssumption
<1>2. PICK f \in Int, x \in Int : f = FINE_SPAN_MS /\ x = r BY <1>1
<1>3. Min({x, f}) \in {x, f} /\ Min({x, f}) <= x /\ Min({x, f}) <= f BY ONLY x \in Int, f \in Int, OfTwo
<1>4. SpanOf(1, r) = Min({x, f}) /\ SpanOf(2, r) = r BY <1>2 DEF SpanOf
<1>5. PICK m \in Int : m = Min({x, f}) BY <1>3
<1>6. m \in Nat /\ m <= r /\ (r <= f => m = r) BY <1>1, <1>2, <1>3, <1>5
<1>7. CASE r > FINE_SPAN_MS
    <2>1. Count(r) = 2 BY <1>7 DEF Count
    <2>2. \A i \in 1..2 : SpanOf(i, r) \in Nat /\ SpanOf(i, r) <= r
        <3>1. \A i \in 1..2 : i = 1 \/ i = 2 OBVIOUS
        <3> QED BY <1>4, <1>5, <1>6, <3>1
    <2> QED BY <1>1, <1>4, <2>1, <2>2 DEF WidthOf
<1>8. CASE ~(r > FINE_SPAN_MS)
    <2>1. Count(r) = 1 BY <1>8 DEF Count
    <2>2. SpanOf(1, r) = r BY <1>1, <1>2, <1>4, <1>5, <1>6, <1>8
    <2>3. \A i \in 1..1 : SpanOf(i, r) \in Nat /\ SpanOf(i, r) <= r
        <3>1. \A i \in 1..1 : i = 1 OBVIOUS
        <3> QED BY <2>2, <3>1
    <2> QED BY <1>1, <2>1, <2>2, <2>3 DEF WidthOf
<1> QED BY <1>7, <1>8

\* A sample pushed leaves no gap in what a tier held.
LEMMA TierOfStep ==
    ASSUME NEW t, NEW u, NEW i, NEW S \in SUBSET Nat, NEW r, NEW a \in Nat, NEW top \in Nat,
           IsTier(t, i, S, r, a, top), SpanOf(i, r) \in Nat, NEW at \in Nat, at >= top, Pushed(t, u, S, at),
           NEW b \in Nat, b >= a
    PROVE  IsTier(u, i, S \cup {at}, r, b, at)
<1>1. PICK sp \in Nat, U \in {S \cup {at}} : sp = SpanOf(i, r) /\ U = S \cup {at} OBVIOUS
<1>2. TierFits(u, U) /\ u.width = t.width /\ u.capacity = t.capacity /\ HeldBy(Everything(u), at)
    BY <1>1 DEF Pushed
<1>3. t.width = WidthOf(i) /\ t.capacity = Buckets(sp, t.width) BY <1>1 DEF IsTier
<1>4. Keeps(t, u, S, at - sp) BY <1>3 DEF Pushed
<1>5. ASSUME NEW s \in U, s >= b, s >= at - sp PROVE HeldBy(Everything(u), s)
    <2>1. CASE s = at BY <1>2, <2>1
    <2>2. CASE s # at
        <3>1. s \in S /\ s \in Nat BY <1>1, <2>2
        <3>2. s >= a /\ s >= top - sp BY <1>5, <3>1
        <3>3. HeldBy(Everything(t), s) BY <1>1, <3>1, <3>2 DEF IsTier
        <3> QED BY <1>4, <1>5, <3>1, <3>3 DEF Keeps
    <2> QED BY <2>1, <2>2
<1> QED BY <1>1, <1>2, <1>3, <1>5 DEF IsTier

\* A series told of all samples so far.
IsSeries(v, S, r, from, top) ==
    /\ v = [raw |-> v.raw, tiers |-> v.tiers]
    /\ S \in SUBSET Nat /\ IsFiniteSet(S) /\ (\A s \in S : s <= top)
    /\ r \in Nat /\ from \in Nat /\ top \in Nat
    /\ IsRaw(v.raw, S) /\ AreTiers(v.tiers, S, r, from, top)

\* A time after all samples, not before the last snapshot, and another from which on to ask.
Follows(at, b, S, a, top) == at \in Nat /\ b \in Nat /\ Later(at, S) /\ at >= top /\ b >= a

\* One sample pushed to the series.
LEMMA PushOneIs ==
    ASSUME NEW v, NEW S, NEW r, NEW a, NEW top, IsSeries(v, S, r, a, top), NEW at, NEW b, Follows(at, b, S, a, top)
    PROVE  IsSeries(PushOne(v, at), S \cup {at}, r, b, at)
<1>0. PICK q, ts, u : q = v.raw /\ ts = v.tiers /\ u = PushOne(v, at) OBVIOUS
<1>0a. /\ v = [raw |-> q, tiers |-> ts] /\ S \in SUBSET Nat /\ IsFiniteSet(S) /\ r \in Nat /\ a \in Nat
       /\ top \in Nat /\ IsRaw(q, S) /\ AreTiers(ts, S, r, a, top)
       /\ at \in Nat /\ b \in Nat /\ Later(at, S) /\ at >= top /\ b >= a
    BY <1>0 DEF IsSeries, Follows
<1> USE <1>0a
<1>1. PICK m \in Nat : m = Count(r) BY SpansAre
<1>2. ts \in Seq(TierT) /\ Len(ts) = m /\ DOMAIN ts = 1..m BY <1>1 DEF AreTiers
<1>3. PICK us : us = [i \in 1..m |-> PushTier(ts[i], at)] OBVIOUS
<1>4. u = [raw |-> Ring(Append(q, at), RAW_SAMPLES), tiers |-> us] BY <1>0, <1>2, <1>3 DEF PushOne
<1>5. IsRaw(u.raw, S \cup {at}) BY <1>4, RawPushed
<1>6. ASSUME NEW i \in 1..m PROVE IsTier(us[i], i, S \cup {at}, r, b, at) /\ us[i] \in TierT
    <2>1. IsTier(ts[i], i, S, r, a, top) BY <1>1 DEF AreTiers
    <2>2. TierFits(ts[i], S) BY <2>1 DEF IsTier
    <2>3. Pushed(ts[i], us[i], S, at) BY <1>3, <2>2, PushTierIs
    <2>4. SpanOf(i, r) \in Nat BY <1>1, SpansAre
    <2>5. IsTier(us[i], i, S \cup {at}, r, b, at)
        BY ONLY <1>0a, <2>1, <2>3, <2>4, S \in SUBSET Nat, a \in Nat, top \in Nat, at \in Nat, at >= top, b \in Nat,
                b >= a, TierOfStep
    <2> QED BY <2>5 DEF IsTier, TierFits
<1>7. us \in [1..m -> TierT] BY <1>3, <1>6
<1>8. us \in Seq(TierT) /\ Len(us) = m
    <2>1. us \in Seq(TierT) BY <1>7
    <2>2. DOMAIN us = 1..m BY <1>3
    <2> QED BY <2>1, <2>2
<1>9. AreTiers(us, S \cup {at}, r, b, at) BY <1>1, <1>6, <1>8 DEF AreTiers
<1>10. u.tiers = us BY <1>4
<1>11. u = [raw |-> u.raw, tiers |-> u.tiers] BY <1>4
<1>12. IsFiniteSet(S \cup {at}) BY FS_AddElement
<1>13. ASSUME NEW s \in S \cup {at} PROVE s <= at
    <2>1. s \in S => s < at BY DEF Later
    <2>2. s \in Nat OBVIOUS
    <2> QED BY <2>1, <2>2
<1> QED BY <1>0, <1>5, <1>9, <1>10, <1>11, <1>12, <1>13 DEF IsSeries

\* Samples pushed one after another: all there are at a snapshot are one or two.
PushedAll(v, new) == FoldLeft(PushOne, v, new)

\* One sample pushed,
LEMMA PushedOnce ==
    ASSUME NEW v, NEW x PROVE PushedAll(v, <<x>>) = PushOne(v, x)
<1>1. PICK q : q = <<x>> OBVIOUS
<1>2. DOMAIN q = 1..1 /\ q[1] = x BY <1>1
<1> DEFINE Fold(iter) == iter = [s \in SUBSET (DOMAIN q) |->
                            IF s = {} THEN v ELSE PushOne(iter[s \ {Max(s)}], q[Max(s)])]
<1>3. \A s \in SUBSET (1..1) : s = {} \/ (s = {1} /\ s # {} /\ Max(s) = 1 /\ s \ {Max(s)} = {})
    <2> SUFFICES ASSUME NEW s \in SUBSET (1..1), s # {} PROVE s = {1} /\ Max(s) = 1 /\ s \ {Max(s)} = {} OBVIOUS
    <2>0. \A i \in s : i = 1 OBVIOUS
    <2>1. s = {1} BY <2>0
    <2>2. Max(s) \in s BY MaxOf
    <2> QED BY <2>1, <2>2
<1>4. PICK it : it = [s \in SUBSET (1..1) |-> IF s = {} THEN v ELSE PushOne(v, x)] OBVIOUS
<1>5. Fold(it)
    <2>1. ASSUME NEW s \in SUBSET (1..1)
          PROVE  it[s] = IF s = {} THEN v ELSE PushOne(it[s \ {Max(s)}], q[Max(s)])
        <3>1. CASE s = {} BY <1>4, <3>1
        <3>2. CASE s # {}
            <4>1. Max(s) = 1 /\ s \ {Max(s)} = {} BY <1>3, <3>2
            <4>2. it[s \ {Max(s)}] = v BY <1>4, <4>1
            <4>3. it[s] = PushOne(v, x) BY <1>4, <3>2
            <4> QED BY <1>2, <3>2, <4>1, <4>2, <4>3
        <3> QED BY <3>1, <3>2
    <2> QED BY <1>2, <1>4, <2>1
<1>6. PICK iter : iter = CHOOSE g : Fold(g) OBVIOUS
<1>7. Fold(iter) BY <1>5, <1>6
<1>8. PushedAll(v, q) = iter[DOMAIN q] BY <1>6 DEF PushedAll, FoldLeft, MapThenFoldSet
<1>9. {} \in SUBSET (1..1) /\ 1..1 \in SUBSET (1..1) /\ 1 \in 1..1 OBVIOUS
<1>10. iter[{}] = v BY <1>2, <1>7, <1>9
<1>11. Max(1..1) = 1 /\ (1..1) \ {1} = {} /\ 1..1 # {} BY <1>3, <1>9
<1>12. iter[1..1] = PushOne(v, x) BY <1>2, <1>7, <1>9, <1>10, <1>11
<1> QED BY <1>1, <1>2, <1>8, <1>12

\* and two.
LEMMA PushedTwice ==
    ASSUME NEW v, NEW x, NEW y PROVE PushedAll(v, <<x, y>>) = PushOne(PushOne(v, x), y)
<1>1. PICK q : q = <<x, y>> OBVIOUS
<1>2. DOMAIN q = 1..2 /\ q[1] = x /\ q[2] = y BY <1>1
<1> DEFINE Fold(iter) == iter = [s \in SUBSET (DOMAIN q) |->
                            IF s = {} THEN v ELSE PushOne(iter[s \ {Max(s)}], q[Max(s)])]
<1>3. \A s \in SUBSET (1..2) :
        \/ s = {}
        \/ s = {1} /\ s # {} /\ Max(s) = 1 /\ s \ {Max(s)} = {}
        \/ s = {2} /\ s # {} /\ s # {1} /\ Max(s) = 2 /\ s \ {Max(s)} = {}
        \/ s = {1, 2} /\ s # {} /\ s # {1} /\ s # {2} /\ Max(s) = 2 /\ s \ {Max(s)} = {1}
    <2> SUFFICES ASSUME NEW s \in SUBSET (1..2), s # {}
                 PROVE  \/ s = {1} /\ Max(s) = 1 /\ s \ {Max(s)} = {}
                        \/ s = {2} /\ s # {1} /\ Max(s) = 2 /\ s \ {Max(s)} = {}
                        \/ s = {1, 2} /\ s # {1} /\ s # {2} /\ Max(s) = 2 /\ s \ {Max(s)} = {1}
        OBVIOUS
    <2>1. Max(s) \in s /\ \A i \in s : i <= Max(s) BY MaxOf
    <2>2. \A i \in s : i = 1 \/ i = 2 OBVIOUS
    <2>3. CASE 1 \in s /\ 2 \notin s
        <3>1. s = {1} BY <2>2, <2>3
        <3> QED BY <2>1, <3>1
    <2>4. CASE 1 \notin s /\ 2 \in s
        <3>1. s = {2} BY <2>2, <2>4
        <3> QED BY <2>1, <3>1
    <2>5. CASE 1 \in s /\ 2 \in s
        <3>1. s = {1, 2} BY <2>2, <2>5
        <3>2. Max(s) = 2
            <4>1. Max(s) = 1 \/ Max(s) = 2 BY <2>1, <2>2
            <4>2. 2 <= Max(s) BY <2>1, <2>5
            <4> QED BY <4>1, <4>2
        <3> QED BY <3>1, <3>2
    <2> QED BY <2>2, <2>3, <2>4, <2>5
<1>4. PICK it : it = [s \in SUBSET (1..2) |->
                        IF s = {} THEN v ELSE IF s = {1} THEN PushOne(v, x)
                        ELSE IF s = {2} THEN PushOne(v, y) ELSE PushOne(PushOne(v, x), y)]
    OBVIOUS
<1>5. {} \in SUBSET (1..2) /\ {1} \in SUBSET (1..2) /\ 1..2 \in SUBSET (1..2) /\ 1..2 = {1, 2} OBVIOUS
<1>6. Fold(it)
    <2>1. ASSUME NEW s \in SUBSET (1..2)
          PROVE  it[s] = IF s = {} THEN v ELSE PushOne(it[s \ {Max(s)}], q[Max(s)])
        <3>0. it[{}] = v /\ it[{1}] = PushOne(v, x) BY <1>4, <1>5
        <3>1. CASE s = {} BY <1>4, <3>1
        <3>2. CASE s = {1} /\ s # {} /\ Max(s) = 1 /\ s \ {Max(s)} = {} BY <1>2, <3>0, <3>2
        <3>3. CASE s = {2} /\ s # {} /\ s # {1} /\ Max(s) = 2 /\ s \ {Max(s)} = {}
            <4>1. it[s] = PushOne(v, y) BY <1>4, <3>3
            <4> QED BY <1>2, <3>0, <3>3, <4>1
        <3>4. CASE s = {1, 2} /\ s # {} /\ s # {1} /\ s # {2} /\ Max(s) = 2 /\ s \ {Max(s)} = {1}
            <4>1. it[s] = PushOne(PushOne(v, x), y) BY <1>4, <3>4
            <4> QED BY <1>2, <3>0, <3>4, <4>1
        <3> QED BY <1>3, <3>1, <3>2, <3>3, <3>4
    <2> QED BY <1>2, <1>4, <2>1
<1>7. PICK iter : iter = CHOOSE g : Fold(g) OBVIOUS
<1>8. Fold(iter) BY <1>6, <1>7
<1>9. PushedAll(v, q) = iter[DOMAIN q] BY <1>7 DEF PushedAll, FoldLeft, MapThenFoldSet
<1>10. iter[{}] = v BY <1>2, <1>5, <1>8
<1>11. Max({1}) = 1 /\ {1} \ {1} = {} /\ {1} # {}
    <2>1. Max({1}) \in {1} BY <1>5, MaxOf
    <2> QED BY <2>1
<1>12. iter[{1}] = PushOne(v, x) BY <1>2, <1>5, <1>8, <1>10, <1>11
<1>13. Max(1..2) = 2 /\ (1..2) \ {2} = {1} /\ 1..2 # {}
    <2>1. Max(1..2) \in 1..2 /\ 2 <= Max(1..2) BY <1>5, MaxOf
    <2> QED BY <2>1
<1>14. iter[1..2] = PushOne(PushOne(v, x), y) BY <1>2, <1>5, <1>8, <1>12, <1>13
<1> QED BY <1>1, <1>2, <1>9, <1>14

\* Retention::covering, tier by tier.
LEMMA CoveringIs ==
    ASSUME NEW r \in Nat
    PROVE  /\ DOMAIN Covering(r) = 1..Count(r) /\ Len(Covering(r)) = Count(r)
           /\ \A i \in 1..Count(r) :
                /\ Covering(r)[i].width = WidthOf(i) /\ WidthOf(i) \in Nat \ {0}
                /\ Covering(r)[i].capacity = Buckets(SpanOf(i, r), WidthOf(i))
                /\ Covering(r)[i].capacity \in Nat
<1>1. PICK a, b : /\ a = [width |-> FINE_MS, capacity |-> Buckets(Min({r, FINE_SPAN_MS}), FINE_MS)]
                  /\ b = [width |-> COARSE_MS, capacity |-> Buckets(r, COARSE_MS)]
    OBVIOUS
<1>2. Covering(r) = IF r > FINE_SPAN_MS THEN <<a, b>> ELSE <<a>> BY <1>1 DEF Covering
<1>3. a.width = WidthOf(1) /\ a.capacity = Buckets(SpanOf(1, r), WidthOf(1)) BY <1>1 DEF WidthOf, SpanOf
<1>4. b.width = WidthOf(2) /\ b.capacity = Buckets(SpanOf(2, r), WidthOf(2)) BY <1>1 DEF WidthOf, SpanOf
<1>5. ASSUME NEW i \in 1..Count(r) PROVE WidthOf(i) \in Nat \ {0} /\ Buckets(SpanOf(i, r), WidthOf(i)) \in Nat
    <2>1. i \in {1, 2}
        <3>1. PICK c \in Nat : c = Count(r) /\ (c = 1 \/ c = 2) BY SpansAre
        <3> QED BY <3>1
    <2>2. PICK w \in Nat \ {0}, sp \in Nat : w = WidthOf(i) /\ sp = SpanOf(i, r) BY <2>1, SpansAre
    <2>3. sp \div w \in Nat BY Windows
    <2>4. Buckets(sp, w) \in Nat BY <2>3 DEF Buckets
    <2> QED BY <2>2, <2>4
<1>6. CASE r > FINE_SPAN_MS
    <2>1. Count(r) = 2 /\ Covering(r) = <<a, b>> BY <1>2, <1>6 DEF Count
    <2>2. DOMAIN <<a, b>> = 1..2 /\ Len(<<a, b>>) = 2 /\ <<a, b>>[1] = a /\ <<a, b>>[2] = b OBVIOUS
    <2>3. \A i \in 1..2 : i = 1 \/ i = 2 OBVIOUS
    <2> QED BY <1>3, <1>4, <1>5, <2>1, <2>2, <2>3
<1>7. CASE ~(r > FINE_SPAN_MS)
    <2>1. Count(r) = 1 /\ Covering(r) = <<a>> BY <1>2, <1>7 DEF Count
    <2>2. DOMAIN <<a>> = 1..1 /\ Len(<<a>>) = 1 /\ <<a>>[1] = a OBVIOUS
    <2>3. \A i \in 1..1 : i = 1 OBVIOUS
    <2> QED BY <1>3, <1>5, <2>1, <2>2, <2>3
<1> QED BY <1>6, <1>7

\* A tier that is new holds every sample from some time on, where none is so late.
LEMMA EmptyTierIs ==
    ASSUME NEW r \in Nat, NEW i \in 1..Count(r), NEW S, NEW from, NEW top,
           \A s \in S : ~(s >= from)
    PROVE  IsTier(EmptyTier(Covering(r)[i]), i, S, r, from, top)
<1>1. PICK c : c = Covering(r)[i] OBVIOUS
<1>2. c.width = WidthOf(i) /\ c.width \in Nat \ {0} /\ c.capacity = Buckets(SpanOf(i, r), WidthOf(i))
      /\ c.capacity \in Nat
    BY <1>1, CoveringIs
<1>3. TierFits(EmptyTier(c), S) /\ EmptyTier(c).width = c.width /\ EmptyTier(c).capacity = c.capacity
    BY <1>2, EmptyTierFits
<1> QED BY <1>1, <1>2, <1>3 DEF IsTier

\* Another reach: what tiers there are keep as much of it as they had.
LEMMA RetainedIs ==
    ASSUME NEW S \in SUBSET Nat, NEW r \in Nat, NEW z \in Nat, NEW a \in Nat, NEW b \in Int, NEW top \in Nat,
           AreTiers(tiers, S, r, a, top), Later(top + 1, S),
           b >= a \/ b > top, S # {} => a >= top - r,
           Count(z) > Count(r) => b > top
    PROVE  AreTiers(Retained(Covering(z)), S, z, b, top)
<1>1. PICK m \in {1, 2}, n \in {1, 2} : m = Count(r) /\ n = Count(z) BY SpansAre
<1>2. tiers \in Seq(TierT) /\ Len(tiers) = m /\ DOMAIN tiers = 1..m BY <1>1 DEF AreTiers
<1>3. ASSUME NEW i \in 1..m
      PROVE  /\ IsTier(tiers[i], i, S, r, a, top) /\ TierFits(tiers[i], S) /\ tiers[i].width = WidthOf(i)
             /\ i \in {1, 2}
    <2>1. IsTier(tiers[i], i, S, r, a, top) BY <1>1 DEF AreTiers
    <2> QED BY <1>1, <2>1 DEF IsTier
<1>4. DOMAIN Covering(z) = 1..n BY <1>1, CoveringIs
<1> DEFINE Kept(c) == {t \in ToSet(tiers) : t.width = c.width}
           Sized(c, t) == [t EXCEPT !.capacity = c.capacity, !.closed = Ring(@, c.capacity)]
<1>5. PICK ts : ts = Retained(Covering(z)) OBVIOUS
<1>6. ts = [i \in 1..n |-> IF Kept(Covering(z)[i]) = {} THEN EmptyTier(Covering(z)[i])
                           ELSE Sized(Covering(z)[i], CHOOSE t \in Kept(Covering(z)[i]) : TRUE)]
    BY <1>4, <1>5 DEF Retained
<1>7. ToSet(tiers) = {tiers[i] : i \in 1..m} BY <1>2 DEF ToSet
<1>8. \A s \in S : s <= top
    <2>1. ASSUME NEW s \in S PROVE s <= top
        <3>1. s < top + 1 /\ s \in Nat BY DEF Later
        <3> QED BY <3>1
    <2> QED BY <2>1
<1>9. ASSUME NEW i \in 1..n PROVE IsTier(ts[i], i, S, z, b, top)
    <2>1. PICK c : c = Covering(z)[i] OBVIOUS
    <2>2. c.width = WidthOf(i) /\ WidthOf(i) \in Nat \ {0} /\ c.capacity = Buckets(SpanOf(i, z), WidthOf(i))
          /\ c.capacity \in Nat
        BY <1>1, <2>1, CoveringIs
    <2>3. i \in {1, 2} BY <1>1
    <2>4. \A j, k \in {1, 2} : WidthOf(j) = WidthOf(k) => j = k
        <3>1. PICK x \in Nat, y \in Nat : x = WidthOf(1) /\ y = WidthOf(2) /\ x < y BY SpansAre
        <3>2. WidthOf(1) # WidthOf(2) BY <3>1
        <3> QED BY <3>2
    <2>5. CASE i > m
        <3>1. Kept(c) = {}
            <4> SUFFICES ASSUME NEW j \in 1..m, tiers[j].width = c.width PROVE FALSE BY <1>7
            <4>1. j = i BY <1>3, <2>2, <2>3, <2>4
            <4> QED BY <1>1, <2>5, <4>1
        <3>2. ts[i] = EmptyTier(c) BY <1>6, <2>1, <3>1
        <3>3. b > top BY <1>1, <2>3, <2>5
        <3>4. \A s \in S : ~(s >= b) BY <1>8, <3>3
        <3>5. i \in 1..Count(z) BY <1>1
        <3> QED BY <2>1, <3>2, <3>4, <3>5, EmptyTierIs
    <2>6. CASE ~(i > m)
        <3>1. i \in 1..m BY <1>1, <2>3, <2>6
        <3>2. PICK t : t = tiers[i] OBVIOUS
        <3>3. IsTier(t, i, S, r, a, top) /\ TierFits(t, S) /\ t.width = WidthOf(i) BY <1>3, <3>1, <3>2
        <3>4. Kept(c) = {t}
            <4>1. t \in Kept(c) BY <1>7, <2>2, <3>1, <3>2, <3>3
            <4>2. ASSUME NEW j \in 1..m, tiers[j].width = c.width PROVE tiers[j] = t
                <5>1. j = i BY <1>3, <2>2, <2>3, <2>4, <4>2
                <5> QED BY <3>2, <5>1
            <4> QED BY <1>7, <4>1, <4>2
        <3>5. (CHOOSE x \in Kept(c) : TRUE) = t BY <3>4
        <3>6. Kept(c) # {} BY <3>4
        <3>7. ts[i] = Sized(c, t) BY <1>6, <2>1, <3>5, <3>6
        <3>8a. PICK u : u = ts[i] OBVIOUS
        <3>8b. PICK cap \in Nat : cap = c.capacity BY <2>2
        <3>8. u = ts[i] /\ cap = c.capacity BY <3>8a, <3>8b
        <3>9. u = [t EXCEPT !.capacity = cap, !.closed = Ring(@, cap)] BY <3>7, <3>8
        <3>10. Resized(t, u, S, cap) BY <3>3, <3>9, ResizedIs
        <3>11. PICK sp \in Nat, was \in Nat : sp = SpanOf(i, z) /\ was = SpanOf(i, r) BY <1>1, <3>1, SpansAre
        <3>12. TierFits(u, S) /\ u.width = t.width /\ u.capacity = cap BY <3>10 DEF Resized
        <3>13. Keeps(t, u, S, top - sp)
            <4>1. cap = Buckets(sp, t.width) BY <2>2, <3>3, <3>8, <3>11
            <4> QED BY <1>8, <3>10, <4>1 DEF Resized
        <3>14. ASSUME NEW s \in S, s >= b, s >= top - sp PROVE HeldBy(Everything(u), s)
            <4>1. s \in Nat /\ s >= a /\ a >= top - r /\ s >= top - r
                <5>1. s \in Nat /\ s <= top /\ a >= top - r BY <1>8
                <5>2. b >= a BY <3>14, <5>1
                <5> QED BY <3>14, <5>1, <5>2
            <4>2. s >= top - was
                <5>1. CASE i = m
                    <6>1. was = r BY <1>1, <3>11, <5>1, SpansAre
                    <6> QED BY <4>1, <6>1
                <5>2. CASE i # m
                    <6>1. i = 1 /\ m = 2 BY <1>1, <2>3, <2>6, <5>2
                    <6>2. r > FINE_SPAN_MS BY <1>1, <6>1 DEF Count
                    <6>3. PICK f \in Int, x \in Int, y \in Int : f = FINE_SPAN_MS /\ x = r /\ y = z
                        BY RetentionAssumption
                    <6>4. Min({x, f}) \in {x, f} /\ Min({x, f}) <= x /\ Min({x, f}) <= f
                        BY ONLY x \in Int, f \in Int, OfTwo
                    <6>5. Min({y, f}) <= f BY ONLY y \in Int, f \in Int, OfTwo
                    <6>6. was = Min({x, f}) /\ sp = Min({y, f}) BY <3>11, <6>1, <6>3 DEF SpanOf
                    <6>7. was = f /\ sp <= f
                        <7>1. x > f BY <6>2, <6>3
                        <7>2. was \in {x, f} /\ was <= f /\ sp <= f BY <6>4, <6>5, <6>6
                        <7> QED BY <7>1, <7>2
                    <6> QED BY <3>14, <4>1, <6>7
                <5> QED BY <5>1, <5>2
            <4>3. HeldBy(Everything(t), s) BY <3>3, <3>11, <4>1, <4>2 DEF IsTier
            <4> QED BY <3>13, <3>14, <4>3 DEF Keeps
        <3> QED BY <2>2, <3>3, <3>8, <3>11, <3>12, <3>14 DEF IsTier
    <2> QED BY <2>5, <2>6
<1>10. ts \in Seq(TierT) /\ Len(ts) = n
    <2>1. \A i \in 1..n : ts[i] \in TierT BY <1>9 DEF IsTier, TierFits
    <2> HIDE DEF Kept, Sized
    <2>2a. DOMAIN ts = 1..n BY <1>6
    <2>2. DOMAIN ts = 1..n /\ n \in Nat BY <2>2a
    <2>3. ts = [i \in 1..n |-> ts[i]] BY <1>6
    <2>4. ts \in [1..n -> TierT] BY <2>1, <2>3
    <2>5. ts \in Seq(TierT) BY <2>2, <2>4
    <2> QED BY <2>2, <2>5
<1> QED BY <1>1, <1>5, <1>9, <1>10 DEF AreTiers

SeriesInv ==
    /\ samples \in SUBSET Nat /\ IsFiniteSet(samples) /\ \A s \in samples : s <= now
    /\ tick = 0 => samples = {}
    /\ since \in Nat /\ (samples # {} => since >= now - reach)
    /\ IsRaw(raw, samples) /\ AreTiers(tiers, samples, reach, since, now)

\* A reach is a number.
LEMMA ReachesAre ==
    ASSUME NEW r \in Reaches PROVE r \in Nat
BY HistoriesAssumption

\* Timeline::new: nothing has been pushed.
LEMMA SeriesFirst == Init => SeriesInv
<1> SUFFICES ASSUME Init PROVE SeriesInv OBVIOUS
<1>1. PICK r \in Reaches : reach = r /\ TimelineInit(r) BY DEF Init
<1>2. r \in Nat BY ReachesAre
<1>3. raw = << >> /\ samples = {} /\ since = 0 BY <1>1 DEF TimelineInit
<1>4. PICK n \in Nat : n = Count(r) BY <1>2, SpansAre
<1>5. tiers = [i \in 1..n |-> EmptyTier(Covering(r)[i])] BY <1>1, <1>2, <1>4, CoveringIs DEF TimelineInit
<1>6. ASSUME NEW i \in 1..n PROVE IsTier(tiers[i], i, {}, r, 0, now) /\ tiers[i] \in TierT
    <2>1. i \in 1..Count(r) BY <1>4
    <2>2. IsTier(EmptyTier(Covering(r)[i]), i, {}, r, 0, now) BY <1>2, <2>1, EmptyTierIs
    <2>3. IsTier(tiers[i], i, {}, r, 0, now) BY <1>5, <2>2
    <2> QED BY <2>3 DEF IsTier, TierFits
<1>7. tiers \in Seq(TierT) /\ Len(tiers) = n
    <2>1. DOMAIN tiers = 1..n /\ tiers = [i \in 1..n |-> tiers[i]] BY <1>5
    <2>2. tiers \in [1..n -> TierT] BY <1>6, <2>1
    <2>3. tiers \in Seq(TierT) BY <2>2
    <2> QED BY <2>1, <2>3
<1>8. AreTiers(tiers, {}, r, 0, now) BY <1>4, <1>6, <1>7 DEF AreTiers
<1>9. IsRaw(<< >>, {})
    <2>1. << >> \in Seq(Nat) /\ Len(<< >>) = 0 /\ 1..0 = {} OBVIOUS
    <2>2. 0 <= RAW_SAMPLES BY RetentionAssumption
    <2> QED BY <2>1, <2>2 DEF IsRaw
<1>10. IsFiniteSet({}) BY FS_EmptySet
<1> QED BY <1>1, <1>3, <1>8, <1>9, <1>10 DEF SeriesInv

\* Time passes.
LEMMA TiersLater ==
    ASSUME NEW ts, NEW S \in SUBSET Nat, NEW r \in Nat, NEW a, NEW top \in Nat, AreTiers(ts, S, r, a, top),
           NEW at \in Nat, at >= top
    PROVE  AreTiers(ts, S, r, a, at)
<1>1. ASSUME NEW i \in 1..Count(r) PROVE IsTier(ts[i], i, S, r, a, at)
    <2>1. IsTier(ts[i], i, S, r, a, top) BY DEF AreTiers
    <2>2. PICK sp \in Nat : sp = SpanOf(i, r) BY SpansAre
    <2>3. ASSUME NEW s \in S, s >= a, s >= at - sp PROVE HeldBy(Everything(ts[i]), s)
        <3>1. s \in Nat OBVIOUS
        <3>2. s >= top - sp BY <2>3, <3>1
        <3> QED BY <2>1, <2>2, <2>3, <3>2 DEF IsTier
    <2> QED BY <2>1, <2>2, <2>3 DEF IsTier
<1> QED BY <1>1 DEF AreTiers

\* Timeline::observe, the first sample with its interval's start included.
LEMMA ChartIs ==
    ASSUME Clock, SeriesInv, NEW at \in Nat, NEW interval \in Steps, at = now + interval, now' = at, at > now,
           tick > 0, tick' # 0, reach' = reach, Chart(at, interval, reach)
    PROVE  SeriesInv'
<1>1. PICK r \in Nat, top \in Nat : r = reach /\ top = now BY ReachesAre DEF Clock
<1>2. PICK S : S = samples OBVIOUS
<1>3. S \in SUBSET Nat /\ IsFiniteSet(S) /\ (\A s \in S : s <= top) /\ since \in Nat
      /\ (S # {} => since >= top - r) /\ IsRaw(raw, S) /\ AreTiers(tiers, S, r, since, top)
    BY <1>1, <1>2 DEF SeriesInv
<1>4. PICK b \in Nat : b = Max({since, at - r}) /\ b >= since /\ b >= at - r
    <2>1. since \in Int /\ at - r \in Int BY <1>3
    <2>2. Max({since, at - r}) \in {since, at - r} /\ Max({since, at - r}) >= since /\ Max({since, at - r}) >= at - r
        BY ONLY <2>1, OfTwo
    <2>3. Max({since, at - r}) \in Int BY <2>1, <2>2
    <2>4. Max({since, at - r}) \in Nat BY <1>3, <2>2, <2>3
    <2> QED BY <2>2, <2>4
<1>5. PICK new, v, pushed : /\ new = (IF raw = << >> THEN <<at - interval, at>> ELSE <<at>>)
                            /\ v = [raw |-> raw, tiers |-> tiers] /\ pushed = PushedAll(v, new)
    OBVIOUS
<1>6. raw' = pushed.raw /\ tiers' = pushed.tiers /\ samples' = S \cup ToSet(new) /\ since' = b
    BY <1>1, <1>2, <1>4, <1>5 DEF Chart, PushedAll
<1>7. Later(at, S)
    <2>1. ASSUME NEW s \in S PROVE s < at
        <3>1. s \in Nat /\ s <= top /\ top < at BY <1>1, <1>3
        <3> QED BY <3>1
    <2> QED BY <2>1 DEF Later
<1>8. at >= top BY <1>1
<1>9. IsSeries(v, S, r, since, top)
    <2>1. v.raw = raw /\ v.tiers = tiers /\ v = [raw |-> v.raw, tiers |-> v.tiers] BY <1>5
    <2> QED BY <1>3, <2>1 DEF IsSeries
<1>10. IsSeries(pushed, samples', r, b, at)
    <2>1. CASE raw # << >>
        <3>1. pushed = PushOne(v, at) /\ new = <<at>> BY <1>5, <2>1, PushedOnce
        <3>2. Follows(at, b, S, since, top) BY <1>4, <1>7, <1>8 DEF Follows
        <3>3. IsSeries(PushOne(v, at), S \cup {at}, r, b, at) BY <1>9, <3>2, PushOneIs
        <3>4. ToSet(<<at>>) = {at} BY DEF ToSet
        <3>5. samples' = S \cup {at} BY <1>6, <3>1, <3>4
        <3> QED BY <3>1, <3>3, <3>5
    <2>2. CASE raw = << >>
        <3>1. S = {} BY <1>3, <2>2 DEF IsRaw
        <3>2. at - interval = top
            <4>1. interval \in Int BY HistoriesAssumption
            <4> QED BY <1>1, <4>1
        <3>3. PICK u : u = PushOne(v, top) OBVIOUS
        <3>4. new = <<top, at>> /\ pushed = PushOne(u, at)
            <4>1. new = <<top, at>> BY <1>5, <2>2, <3>2
            <4> QED BY <1>5, <3>3, <4>1, PushedTwice
        <3>5. Follows(top, since, S, since, top)
            <4>1. Later(top, S) BY <3>1 DEF Later
            <4>2. top >= top /\ since >= since BY <1>3
            <4> QED BY <1>3, <4>1, <4>2 DEF Follows
        <3>6. IsSeries(u, S \cup {top}, r, since, top) BY <1>9, <3>3, <3>5, PushOneIs
        <3>7. S \cup {top} = {top} BY <3>1
        <3>8. Follows(at, b, {top}, since, top)
            <4>1. Later(at, {top}) BY <1>1 DEF Later
            <4> QED BY <1>4, <1>8, <4>1 DEF Follows
        <3>9. IsSeries(PushOne(u, at), {top} \cup {at}, r, b, at)
            <4>1. IsSeries(u, {top}, r, since, top) BY <3>6, <3>7
            <4> QED BY <3>8, <4>1, PushOneIs
        <3>10. samples' = {top} \cup {at}
            <4>1. DOMAIN <<top, at>> = 1..2 /\ <<top, at>>[1] = top /\ <<top, at>>[2] = at OBVIOUS
            <4>2. \A i \in 1..2 : i = 1 \/ i = 2 OBVIOUS
            <4>3. 1 \in 1..2 /\ 2 \in 1..2 OBVIOUS
            <4>4. ToSet(<<top, at>>) = {top, at} BY <4>1, <4>2, <4>3 DEF ToSet
            <4> QED BY <1>6, <3>1, <3>4, <4>4
        <3> QED BY <3>4, <3>9, <3>10
    <2> QED BY <2>1, <2>2
<1> QED BY <1>1, <1>4, <1>6, <1>10 DEF SeriesInv, IsSeries

\* A list is as long as what it is listed from.
LEMMA LenIs ==
    ASSUME NEW n \in Nat, NEW f, f = [i \in 1..n |-> f[i]] PROVE Len(f) = n
<1>1. PICK T : T = {f[i] : i \in 1..n} OBVIOUS
<1>2. \A i \in 1..n : f[i] \in T BY <1>1
<1>3. f \in [1..n -> T] BY <1>2
<1>4. f \in Seq(T) /\ DOMAIN f = 1..n BY <1>3
<1> QED BY <1>4

\* Timeline::set_retention.
LEMMA RetainIs ==
    ASSUME Clock, SeriesInv, NEW z \in Reaches, ApplySettings(z)
    PROVE  SeriesInv'
<1>1. PICK r \in Nat, top \in Nat : r = reach /\ top = now BY ReachesAre DEF Clock
<1>2. z \in Nat BY ReachesAre
<1>3. PICK S : S = samples OBVIOUS
<1>4. S \in SUBSET Nat /\ IsFiniteSet(S) /\ (\A s \in S : s <= top) /\ since \in Nat
      /\ (S # {} => since >= top - r) /\ IsRaw(raw, S) /\ AreTiers(tiers, S, r, since, top)
    BY <1>1, <1>3 DEF SeriesInv
<1>5. /\ reach' = z /\ now' = now /\ tick' = tick /\ tick > 0
      /\ tiers' = Retained(Covering(z))
      /\ since' = IF Len(tiers') > Len(tiers) THEN top + 1 ELSE Max({since, top - z})
      /\ raw' = raw /\ samples' = S
    BY <1>1, <1>3 DEF ApplySettings, Retain, usageVars, machine
<1>6. PICK n \in Nat : n = Len(tiers') /\ n = Count(z)
    <2>1. PICK c : c = Covering(z) OBVIOUS
    <2>2. DOMAIN c = 1..Count(z) BY <1>2, <2>1, CoveringIs
    <2>3. PICK n \in Nat : n = Count(z) BY <1>2, SpansAre
    <2>4. DOMAIN Retained(c) = DOMAIN c BY DEF Retained
    <2>5. Len(Retained(c)) = n
        <3>1. PICK f : f = Retained(c) OBVIOUS
        <3>2. DOMAIN f = 1..n BY <2>2, <2>3, <2>4, <3>1
        <3>3. f = [i \in DOMAIN f |-> f[i]] BY <3>1 DEF Retained
        <3>4. f = [i \in 1..n |-> f[i]] BY <3>2, <3>3
        <3> QED BY <3>1, <3>4, LenIs
    <2> QED BY <1>5, <2>1, <2>3, <2>5
<1>7. Len(tiers) = Count(r) BY <1>4 DEF AreTiers
<1>8. PICK b \in Nat : b = since' /\ (b >= since \/ b > top) /\ b >= top - z /\ (Count(z) > Count(r) => b > top)
    <2>1. CASE Count(z) > Count(r)
        <3>1. since' = top + 1 BY <1>5, <1>6, <1>7, <2>1
        <3>2. top + 1 \in Nat /\ top + 1 > top /\ top + 1 >= top - z BY <1>2
        <3> QED BY <3>1, <3>2
    <2>2. CASE ~(Count(z) > Count(r))
        <3>1. since' = Max({since, top - z}) BY <1>5, <1>6, <1>7, <2>2
        <3>2. since \in Int /\ top - z \in Int BY <1>2, <1>4
        <3>3. Max({since, top - z}) \in {since, top - z} /\ Max({since, top - z}) >= since
              /\ Max({since, top - z}) >= top - z
            BY ONLY <3>2, OfTwo
        <3>4. Max({since, top - z}) \in Int BY <3>2, <3>3
        <3>5. Max({since, top - z}) \in Nat BY <1>4, <3>3, <3>4
        <3> QED BY <2>2, <3>1, <3>3, <3>5
    <2> QED BY <2>1, <2>2
<1>9. Later(top + 1, S)
    <2>1. ASSUME NEW s \in S PROVE s < top + 1
        <3>1. s \in Nat /\ s <= top BY <1>4
        <3> QED BY <3>1
    <2> QED BY <2>1 DEF Later
<1>10. AreTiers(tiers', S, z, b, top) BY <1>2, <1>4, <1>5, <1>8, <1>9, RetainedIs
<1> QED BY <1>1, <1>4, <1>5, <1>8, <1>10 DEF SeriesInv

\* Every step keeps the series telling of all samples.
LEMMA SeriesStep == ASSUME Clock, Clock', SeriesInv, [Next]_vars PROVE SeriesInv'
<1>1. CASE \E at, interval, cycles, snap, R, ghosts : IsSnapshot(at, interval, cycles, snap, R, ghosts)
    <2>1. PICK at, interval, cycles, snap, R, ghosts : IsSnapshot(at, interval, cycles, snap, R, ghosts) BY <1>1
    <2>2. /\ interval \in Steps /\ at \in Nat /\ at > now /\ at = (IF tick = 0 THEN Start ELSE now + interval)
          /\ tick' = tick + 1 /\ now' = at /\ reach' = reach
          /\ IF tick = 0 THEN UNCHANGED timelineVars ELSE Chart(at, interval, reach)
        BY <2>1 DEF IsSnapshot
    <2>3. tick \in Nat /\ now \in Nat BY DEF Clock
    <2>4. CASE tick = 0
        <3>1. samples = {} /\ raw' = raw /\ tiers' = tiers /\ samples' = {} /\ since' = since
            BY <2>2, <2>4 DEF SeriesInv, timelineVars
        <3>2. PICK r \in Nat : r = reach BY ReachesAre DEF Clock
        <3>3. AreTiers(tiers, {}, r, since, now) /\ IsRaw(raw, {}) /\ since \in Nat BY <3>1, <3>2 DEF SeriesInv
        <3>4. AreTiers(tiers, {}, r, since, at) BY <2>2, <2>3, <3>3, TiersLater
        <3>5. IsFiniteSet({}) BY FS_EmptySet
        <3> QED BY <2>2, <3>1, <3>2, <3>3, <3>4, <3>5 DEF SeriesInv
    <2>5. CASE tick # 0
        <3>1. tick > 0 /\ tick' # 0 /\ at = now + interval BY <2>2, <2>3, <2>5
        <3>2. Chart(at, interval, reach) BY <2>2, <2>5
        <3> QED BY <2>2, <3>1, <3>2, ChartIs
    <2> QED BY <2>4, <2>5
<1>2. CASE \E r \in Reaches : ApplySettings(r) BY <1>2, RetainIs
<1>3. CASE UNCHANGED vars
    <2>1. UNCHANGED <<raw, tiers, samples, since, now, tick, reach>> BY <1>3 DEF vars, timelineVars, usageVars
    <2> QED BY <2>1 DEF SeriesInv
<1> QED BY <1>1, <1>2, <1>3, StepIs

\* The series is always so.
LEMMA SeriesAlways == Spec => []SeriesInv
<1>1. Spec => []Clock BY ClockAlways
<1>2. Init => SeriesInv BY SeriesFirst
<1>3. Clock /\ Clock' /\ SeriesInv /\ [Next]_vars => SeriesInv' BY SeriesStep
<1> QED BY <1>1, <1>2, <1>3, PTL DEF Spec

\* The parts of each tier.
LEMMA TierNow ==
    ASSUME Clock, SeriesInv, NEW i \in DOMAIN tiers
    PROVE  /\ i \in 1..Count(reach) /\ IsTier(tiers[i], i, samples, reach, since, now)
           /\ TierFits(tiers[i], samples) /\ tiers[i].width \in Nat \ {0}
           /\ Tells(Everything(tiers[i]), tiers[i].width, samples)
<1>1. tiers \in Seq(TierT) /\ Len(tiers) = Count(reach) BY DEF SeriesInv, AreTiers
<1>2. i \in 1..Count(reach) BY <1>1
<1>3. IsTier(tiers[i], i, samples, reach, since, now) BY <1>2 DEF SeriesInv, AreTiers
<1>4. TierFits(tiers[i], samples) BY <1>3 DEF IsTier
<1> QED BY <1>2, <1>3, <1>4, TierIs DEF TierFits

\* EachSampleOnce.
THEOREM SamplesAreAlwaysCountedOnce == Spec => []EachSampleOnce
<1>1. ASSUME Clock, SeriesInv PROVE EachSampleOnce
    <2> SUFFICES ASSUME NEW i \in DOMAIN tiers
                 PROVE  LET bs == Everything(tiers[i])
                            In(s, b) == b.first <= s /\ s <= b.last
                        IN /\ \A j \in DOMAIN bs : bs[j].count = Cardinality({s \in samples : In(s, bs[j])})
                           /\ \A s \in samples : (bs # << >> /\ s >= Head(bs).first) =>
                                Cardinality({j \in DOMAIN bs : In(s, bs[j])}) = 1
        BY DEF EachSampleOnce
    <2>1a. PICK w \in Nat \ {0} : w = tiers[i].width BY <1>1, TierNow
    <2>1b. PICK S \in SUBSET Nat : S = samples BY <1>1 DEF SeriesInv
    <2>1c. PICK bs : bs = Everything(tiers[i]) OBVIOUS
    <2>1. bs = Everything(tiers[i]) /\ w = tiers[i].width /\ S = samples BY <2>1a, <2>1b, <2>1c
    <2>2. Tells(bs, w, S) BY <1>1, <2>1, TierNow
    <2>3. bs \in Seq(BucketT) BY <2>2 DEF Tells
    <2>4. PICK n \in Nat : n = Len(bs) BY <2>3
    <2>5. DOMAIN bs = 1..n BY <2>3, <2>4
    <2>6. ASSUME NEW j \in 1..n PROVE bs[j].count = Cardinality({s \in S : bs[j].first <= s /\ s <= bs[j].last})
        <3>1. Fits(bs[j], w, S) BY <2>2, <2>4 DEF Tells
        <3> QED BY <3>1 DEF Fits, Held, Holds
    <2>7. ASSUME NEW s \in S, bs # << >>, s >= Head(bs).first
          PROVE  Cardinality({j \in 1..n : bs[j].first <= s /\ s <= bs[j].last}) = 1
        <3>1. n > 0 /\ Head(bs) = bs[1] BY <2>3, <2>4, <2>7, EmptySeq
        <3>2. bs[1].first \in Nat /\ s \in Nat
            <4>1. 1 \in 1..n BY <3>1
            <4> QED BY <2>2, <2>4, <4>1, Climbs
        <3>3. bs[1].first <= s BY <2>7, <3>1, <3>2
        <3>4. HeldBy(bs, s) BY <2>2, <2>4, <3>1, <3>3 DEF Tells
        <3>5. PICK j \in 1..n : Holds(bs[j], s) BY <2>4, <3>4 DEF HeldBy
        <3>6. ASSUME NEW k \in 1..n, Holds(bs[k], s) PROVE k = j
            <4>1. /\ bs[j].first \in Nat /\ bs[j].last \in Nat /\ bs[k].first \in Nat /\ bs[k].last \in Nat
                BY <2>2, <2>4, Climbs
            <4>2. bs[j].first <= s /\ s <= bs[j].last /\ bs[k].first <= s /\ s <= bs[k].last
                BY <3>5, <3>6 DEF Holds
            <4>3. ~(j < k)
                <5> SUFFICES ASSUME j < k PROVE FALSE OBVIOUS
                <5>1. bs[j].last < bs[k].first BY <2>2, <2>4 DEF Tells, Precedes
                <5> QED BY <3>2, <4>1, <4>2, <5>1
            <4>4. ~(k < j)
                <5> SUFFICES ASSUME k < j PROVE FALSE OBVIOUS
                <5>1. bs[k].last < bs[j].first BY <2>2, <2>4 DEF Tells, Precedes
                <5> QED BY <3>2, <4>1, <4>2, <5>1
            <4> QED BY <4>3, <4>4
        <3>7. {k \in 1..n : bs[k].first <= s /\ s <= bs[k].last} = {j} BY <3>5, <3>6 DEF Holds
        <3> QED BY <3>7, FS_Singleton
    <2> QED BY <2>1, <2>5, <2>6, <2>7
<1>2. Spec => []Clock BY ClockAlways
<1>3. Spec => []SeriesInv BY SeriesAlways
<1> QED BY <1>1, <1>2, <1>3, PTL

-----------------------------------------------------------------------------
(* Types                                                                    *)

\* Nobody was seen, and nothing was trimmed, later than now.
Dates ==
    /\ trimmed \in Nat /\ trimmed <= now
    /\ \A k \in DOMAIN seen : /\ seen[k].first \in Nat /\ seen[k].last \in Nat
                              /\ seen[k].first <= seen[k].last /\ seen[k].last <= now

\* Every step keeps the dates in order.
LEMMA DatesStep == ASSUME Clock, Dates, [Next]_vars PROVE Dates'
<1>1. CASE \E at, interval, cycles, snap, R, ghosts : IsSnapshot(at, interval, cycles, snap, R, ghosts)
    <2>1. PICK at, interval, cycles, snap, R, ghosts : IsSnapshot(at, interval, cycles, snap, R, ghosts) BY <1>1
    <2>2. at \in Nat /\ at > now /\ now' = at /\ now \in Nat BY <2>1 DEF IsSnapshot, Clock
    <2>3. PICK lin : lin = [k \in DOMAIN seen \cup DOMAIN snap |->
            [parent |-> IF k \in DOMAIN snap THEN snap[k].parent ELSE seen[k].parent,
             first |-> IF k \in DOMAIN seen THEN seen[k].first ELSE at,
             last |-> IF k \in DOMAIN snap THEN at ELSE seen[k].last]]
        OBVIOUS
    <2>4. lin = See(snap) BY <2>2, <2>3 DEF See
    <2>5. ASSUME NEW k \in DOMAIN lin
          PROVE  /\ lin[k].first \in Nat /\ lin[k].last \in Nat
                 /\ lin[k].first <= lin[k].last /\ lin[k].last <= at
        <3>1. k \in DOMAIN seen \cup DOMAIN snap BY <2>3
        <3>2. lin[k].first = (IF k \in DOMAIN seen THEN seen[k].first ELSE at)
              /\ lin[k].last = (IF k \in DOMAIN snap THEN at ELSE seen[k].last)
            BY <2>3, <3>1
        <3>3. CASE k \in DOMAIN seen
            <4>1. PICK x \in Nat, y \in Nat : x = seen[k].first /\ y = seen[k].last /\ x <= y /\ y <= now
                BY <3>3 DEF Dates
            <4>2. x <= at /\ y <= at BY <2>2, <4>1
            <4> QED BY <2>2, <3>2, <3>3, <4>1, <4>2
        <3>4. CASE k \notin DOMAIN seen BY <2>2, <3>1, <3>2, <3>4
        <3> QED BY <3>3, <3>4
    <2>6. Trim(lin, reach) BY <2>1, <2>4 DEF IsSnapshot, Observe
    <2>7. trimmed' \in Nat /\ trimmed' <= at
        <3>1. trimmed' = at \/ trimmed' = trimmed BY <2>2, <2>6 DEF Trim
        <3> QED BY <2>2, <3>1 DEF Dates
    <2>8. DOMAIN seen' \subseteq DOMAIN lin /\ \A k \in DOMAIN seen' : seen'[k] = lin[k]
        <3>1. PICK anc : anc = Ancestry(Recent(lin, at - reach), lin) OBVIOUS
        <3>2. seen' = lin \/ seen' = [k \in anc |-> lin[k]] BY <2>2, <2>6, <3>1 DEF Trim
        <3>3. anc \subseteq DOMAIN lin BY <3>1 DEF Ancestry
        <3> QED BY <3>2, <3>3
    <2> QED BY <2>2, <2>5, <2>7, <2>8 DEF Dates
<1>2. ASSUME NEW r \in Reaches, ApplySettings(r) PROVE Dates'
    BY <1>2 DEF ApplySettings, Dates, usageVars
<1>3. CASE UNCHANGED vars BY <1>3 DEF vars, usageVars, Dates
<1> QED BY <1>1, <1>2, <1>3, StepIs

\* The dates are always so.
LEMMA DatesAlways == Spec => []Dates
<1>1. Init => Dates
    <2> SUFFICES ASSUME Init PROVE Dates OBVIOUS
    <2>1. seen = << >> /\ trimmed = 0 /\ now = 0 BY DEF Init, UsageInit
    <2>2. DOMAIN seen = {} BY <2>1
    <2> QED BY <2>1, <2>2 DEF Dates
<1>2. Clock /\ Dates /\ [Next]_vars => Dates' BY DatesStep
<1> QED BY <1>1, <1>2, ClockAlways, PTL DEF Spec

\* The frames and what has faded out are counts.
LEMMA FramesAre ==
    ASSUME Clock, UsageInv
    PROVE  /\ faded_out \in Counts /\ Len(raw_frames) <= RAW_FRAMES /\ Len(open) <= 1
           /\ \A i \in DOMAIN Frames : Frames[i] \in FrameT
<1>1. CASE begun = TRUE
    <2>1. PICK a, m : Lined(a, m) BY <1>1, LineIs
    <2>2. faded_out \in Counts BY <2>1 DEF Lined, Mark
    <2>3. Line \in Seq(FrameT) BY <2>1 DEF Lined, Covers
    <2>4a. PICK q : q = Line OBVIOUS
    <2>4b. PICK n \in Nat : n = Len(q) BY <2>3, <2>4a
    <2>4. q = Line /\ n = Len(q) BY <2>4a, <2>4b
    <2>5. Reverse(q) \in Seq(FrameT) BY <2>3, <2>4, Backwards
    <2>6. Frames \in Seq(FrameT) BY <2>4, <2>5 DEF Frames, Line
    <2>7. Len(raw_frames) <= RAW_FRAMES /\ \E x \in Mark : FramesReach(x) BY <1>1 DEF UsageInv, Framed
    <2>8. open \in OpenT BY <2>7 DEF FramesReach
    <2>9. Len(open) <= 1
        <3>1. open = << >> \/ \E s \in StepT : open = <<s>> BY <2>8, OpenIs
        <3>2. CASE open = << >> BY <3>2
        <3>3. ASSUME NEW s \in StepT, open = <<s>> PROVE Len(open) <= 1 BY <3>3
        <3> QED BY <3>1, <3>2, <3>3
    <2>10. \A i \in DOMAIN Frames : Frames[i] \in FrameT BY <2>6
    <2> QED BY <2>2, <2>7, <2>9, <2>10
<1>2. CASE begun = FALSE
    <2>1. raw_frames = << >> /\ open = << >> BY <1>2 DEF UsageInv, Framed
    <2>2. Line = << >> /\ faded_out = Nothing BY <1>2, NoLine
    <2>3. Len(<< >>) = 0 /\ 0 <= RAW_FRAMES BY UsageAssumption
    <2>4. Frames = << >> BY <2>2 DEF Frames, Line, Reverse
    <2>5. DOMAIN Frames = {} BY <2>4
    <2>6. Nothing \in Counts BY DEF Nothing, Counts
    <2> QED BY <2>1, <2>2, <2>3, <2>5, <2>6
<1>3. begun = TRUE \/ begun = FALSE BY DEF Clock
<1> QED BY <1>1, <1>2, <1>3

\* Rings within their capacity, buckets within their windows.
LEMMA TimelineTypes == ASSUME Clock, SeriesInv PROVE TimelineTypeOK
<1>1. raw \in Seq(Int) /\ Len(raw) <= RAW_SAMPLES /\ ToSet(raw) \subseteq samples
    <2>1. raw \in Seq(Nat) /\ Len(raw) <= RAW_SAMPLES /\ \A i \in 1..Len(raw) : raw[i] \in samples
        BY DEF SeriesInv, IsRaw
    <2>2. raw \in Seq(Int)
        <3>1. PICK n \in Nat : n = Len(raw) BY <2>1
        <3>2. raw = [i \in 1..n |-> raw[i]] /\ \A i \in 1..n : raw[i] \in Nat BY <2>1, <3>1
        <3>3. \A i \in 1..n : raw[i] \in Int BY <3>2
        <3>4. [i \in 1..n |-> raw[i]] \in Seq(Int) BY <3>3
        <3> QED BY <3>2, <3>4
    <2> QED BY <2>1, <2>2 DEF ToSet
<1>2. ASSUME NEW i \in DOMAIN tiers
      PROVE  LET t == tiers[i] IN
             /\ Len(t.closed) <= t.capacity /\ Len(t.open) <= 1
             /\ \A j \in DOMAIN Everything(t) :
                LET b == Everything(t)[j] IN
                b.first <= b.last /\ b.first \div t.width = b.last \div t.width
    <2>1. PICK t : t = tiers[i] OBVIOUS
    <2>2. TierFits(t, samples) /\ t.width \in Nat \ {0} /\ Tells(Everything(t), t.width, samples)
        BY <2>1, TierNow
    <2>3. Len(t.closed) <= t.capacity BY <2>2 DEF TierFits
    <2>4. Len(t.open) <= 1
        <3>1. t.open = << >> \/ \E b \in BucketT : t.open = <<b>> BY <2>2 DEF TierFits, TierT
        <3>2. Len(<< >>) <= 1 OBVIOUS
        <3>3. \A b : Len(<<b>>) <= 1 OBVIOUS
        <3> QED BY <3>1, <3>2, <3>3
    <2>5. ASSUME NEW j \in DOMAIN Everything(t)
          PROVE  Everything(t)[j].first <= Everything(t)[j].last
                 /\ Everything(t)[j].first \div t.width = Everything(t)[j].last \div t.width
        <3>1. Everything(t) \in Seq(BucketT) BY <2>2 DEF Tells
        <3>2. j \in 1..Len(Everything(t)) BY <3>1
        <3>3. Fits(Everything(t)[j], t.width, samples) BY <2>2, <3>2 DEF Tells
        <3> QED BY <3>3 DEF Fits
    <2> QED BY <2>1, <2>3, <2>4, <2>5
<1> QED BY <1>1, <1>2 DEF TimelineTypeOK

\* Type correctness: rings within their capacity, a bucket within its window, a lineage
\* not ahead of the clock, frames of some length.
THEOREM TypeCorrect == Spec => []TypeOK
<1>1. ASSUME Clock, UsageInv, SeriesInv, Dates PROVE TypeOK
    <2>1. TimelineTypeOK BY <1>1, TimelineTypes
    <2>2. DOMAIN procs \subseteq Processes /\ DOMAIN seen \subseteq Processes
        BY <1>1 DEF UsageInv, Accounts, Lineage, Known, Clock
    <2>3. \A k \in DOMAIN seen : seen[k].first <= seen[k].last /\ seen[k].last <= now BY <1>1 DEF Dates
    <2>4. trimmed <= now BY <1>1 DEF Dates
    <2>5. /\ faded_out \in Counts /\ Len(raw_frames) <= RAW_FRAMES /\ Len(open) <= 1
          /\ \A i \in DOMAIN Frames : Frames[i] \in FrameT
        BY <1>1, FramesAre
    <2>6. \A f \in FrameT : f.span > 0 /\ f.cycles \in Counts BY DEF FrameT
    <2> QED BY <2>1, <2>2, <2>3, <2>4, <2>5, <2>6 DEF TypeOK, Counts
<1>2. Spec => []Clock BY ClockAlways
<1>3. Spec => []UsageInv BY UsageInvAlways
<1>4. Spec => []SeriesInv BY SeriesAlways
<1>5. Spec => []Dates BY DatesAlways
<1> QED BY <1>1, <1>2, <1>3, <1>4, <1>5, PTL

-----------------------------------------------------------------------------
(* A history read back                                                      *)

WideT == [first : Nat, last : Nat, count : Nat, width : Nat \ {0}]

\* Newest first, no instant twice, and no sample so far before a bucket that it is not
\* within the width of the next.
Seamless(h, S) ==
    /\ h \in Seq(WideT)
    /\ \A i \in 1..(Len(h) - 1) :
        /\ h[i + 1].last < h[i].first
        /\ \A s \in S : (h[i + 1].last < s /\ s < h[i].first) => h[i].first - s < h[i + 1].width

Narrow(b) == b.first <= b.last /\ b.last - b.first < b.width

\* A sample after a bucket of a list is in one no wider, before it in the list.
Met(c, q, s) == \E p \in 1..(q - 1) : Holds(c[p], s) /\ c[p].width <= c[q].width
Coarser(c, S) ==
    /\ c \in Seq(WideT)
    /\ \A q \in 1..Len(c) : Narrow(c[q]) /\ \A s \in S : c[q].last < s => Met(c, q, s)

\* The history goes back as far as the buckets it has been offered.
Walked(h, c, k) == \A q \in 1..k : Len(h) > 0 /\ h[Len(h)].first <= c[q].last

Taken(h, b) == IF Before(h, b) THEN Append(h, b) ELSE h

\* A bucket offered to the history leaves it seamless, and as far back as the bucket ends.
LEMMA TakenIs ==
    ASSUME NEW h, NEW c, NEW S \in SUBSET Nat, Seamless(h, S), Coarser(c, S), NEW k \in Nat, k + 1 <= Len(c),
           Walked(h, c, k)
    PROVE  Seamless(Taken(h, c[k + 1]), S) /\ Walked(Taken(h, c[k + 1]), c, k + 1)
<1>1. h \in Seq(WideT) /\ c \in Seq(WideT) BY DEF Seamless, Coarser
<1>2. PICK n \in Nat, b \in {c[k + 1]}, t \in {Taken(h, c[k + 1])} : n = Len(h) /\ b = c[k + 1] /\ t = Taken(h, b) BY <1>1
<1>3. k + 1 \in 1..Len(c) BY <1>1
<1>4. b \in WideT /\ b.first \in Nat /\ b.last \in Nat /\ b.first <= b.last
    <2>1. b \in WideT BY <1>1, <1>2, <1>3
    <2>2. Narrow(b) BY <1>2, <1>3 DEF Coarser
    <2> QED BY <2>1, <2>2 DEF WideT, Narrow
<1>5. \A q \in 1..k : q \in 1..Len(c) /\ c[q] \in WideT /\ c[q].first \in Nat /\ c[q].last \in Nat
    <2>1. \A q \in 1..k : q \in 1..Len(c) BY <1>3
    <2>2. \A q \in 1..k : c[q] \in WideT BY <1>1, <2>1
    <2> QED BY <2>1, <2>2 DEF WideT
<1>6. \A i \in 1..n : h[i] \in WideT /\ h[i].first \in Nat /\ h[i].last \in Nat
    <2>1. \A i \in 1..n : h[i] \in WideT BY <1>1, <1>2
    <2> QED BY <2>1 DEF WideT
<1>7. Before(h, b) <=> (n > 0 => b.last < h[n].first)
    <2>1. h # << >> <=> n > 0 BY <1>1, <1>2, EmptySeq
    <2> QED BY <1>2, <2>1 DEF Before, Last
<1>8. CASE ~Before(h, b)
    <2>1. t = h BY <1>2, <1>8 DEF Taken
    <2>2. n > 0 /\ n \in 1..n BY <1>7, <1>8
    <2>3. h[n].first <= b.last BY <1>4, <1>6, <1>7, <1>8, <2>2
    <2>4. ASSUME NEW q \in 1..(k + 1) PROVE Len(h) > 0 /\ h[Len(h)].first <= c[q].last
        <3>1. CASE q = k + 1 BY <1>2, <2>2, <2>3, <3>1
        <3>2. CASE q # k + 1
            <4>1. q \in 1..k BY <3>2
            <4> QED BY <4>1 DEF Walked
        <3> QED BY <3>1, <3>2
    <2> QED BY <1>2, <2>1, <2>4 DEF Walked
<1>9. CASE Before(h, b)
    <2>1. t = Append(h, b) BY <1>2, <1>9 DEF Taken
    <2>2. t \in Seq(WideT) /\ Len(t) = n + 1 /\ t[n + 1] = b /\ \A i \in 1..n : t[i] = h[i]
        BY <1>1, <1>2, <1>4, <2>1
    <2>3. ASSUME NEW i \in 1..n
          PROVE  /\ t[i + 1].last < t[i].first
                 /\ \A s \in S : (t[i + 1].last < s /\ s < t[i].first) => t[i].first - s < t[i + 1].width
        <3>1. CASE i = n
            <4>1. t[i + 1] = b /\ t[i] = h[n] /\ n > 0 /\ n \in 1..n BY <2>2, <3>1
            <4>2. b.last < h[n].first BY <1>7, <1>9, <4>1
            <4>3. ASSUME NEW s \in S, b.last < s, s < h[n].first PROVE h[n].first - s < b.width
                <5>1. Met(c, k + 1, s) BY <1>2, <1>3, <4>3 DEF Coarser
                <5>2. PICK p \in 1..k : Holds(c[p], s) /\ c[p].width <= b.width
                    <6>1. (k + 1) - 1 = k OBVIOUS
                    <6> QED BY <1>2, <5>1, <6>1 DEF Met
                <5>3. h[n].first <= c[p].last BY <1>2 DEF Walked
                <5>4. Narrow(c[p]) BY <1>5 DEF Coarser
                <5>5. PICK f \in Nat, l \in Nat, w \in Nat, x \in Nat, y \in Nat :
                        f = c[p].first /\ l = c[p].last /\ w = c[p].width /\ x = h[n].first /\ y = b.width
                    BY <1>4, <1>5, <1>6, <4>1 DEF WideT
                <5>6. f <= s /\ l - f < w /\ x <= l /\ w <= y BY <5>2, <5>3, <5>4, <5>5 DEF Holds, Narrow
                <5>7. s \in Nat OBVIOUS
                <5>8. x - s < y BY ONLY <5>5, <5>6, <5>7
                <5> QED BY <5>5, <5>8
            <4> QED BY <4>1, <4>2, <4>3
        <3>2. CASE i # n
            <4>1. i \in 1..(Len(h) - 1) /\ i + 1 \in 1..n BY <1>2, <3>2
            <4>2. t[i] = h[i] /\ t[i + 1] = h[i + 1] BY <2>2, <4>1
            <4> QED BY <4>1, <4>2 DEF Seamless
        <3> QED BY <3>1, <3>2
    <2>4. Seamless(t, S)
        <3>1. Len(t) - 1 = n BY <2>2
        <3> QED BY <2>2, <2>3, <3>1 DEF Seamless
    <2>5. ASSUME NEW q \in 1..(k + 1) PROVE Len(t) > 0 /\ t[Len(t)].first <= c[q].last
        <3>0. Len(t) > 0 /\ t[Len(t)] = b BY <2>2
        <3>1. CASE q = k + 1 BY <1>2, <1>4, <3>0, <3>1
        <3>2. CASE q # k + 1
            <4>1. q \in 1..k BY <3>2
            <4>2. n > 0 /\ h[n].first <= c[q].last BY <1>2, <4>1 DEF Walked
            <4>3. n \in 1..n BY <4>2
            <4>4. b.last < h[n].first BY <1>7, <1>9, <4>2
            <4>5. PICK x \in Nat, y \in Nat, l \in Nat : x = h[n].first /\ y = c[q].last /\ l = b.last
                BY <1>4, <1>5, <1>6, <4>1, <4>3
            <4>6. b.first <= y BY <1>4, <4>2, <4>4, <4>5
            <4> QED BY <3>0, <4>5, <4>6
        <3> QED BY <3>1, <3>2
    <2> QED BY <1>2, <2>4, <2>5 DEF Walked
<1> QED BY <1>8, <1>9

Walk(base, c) ==
    LET Yield(h, b) == IF Before(h, b) THEN Append(h, b) ELSE h
    IN FoldLeft(Yield, base, c)

\* So do all of them.
LEMMA WalkIs ==
    ASSUME NEW base, NEW c, NEW S \in SUBSET Nat, Seamless(base, S), Coarser(c, S)
    PROVE  Seamless(Walk(base, c), S) /\ Walked(Walk(base, c), c, Len(c))
<1>0. PICK A : A = Seq(WideT) OBVIOUS
<1>1. base \in A /\ c \in Seq(WideT) BY <1>0 DEF Seamless, Coarser
<1>2. PICK n \in Nat : n = Len(c) BY <1>1
<1>3. DOMAIN c = 1..n /\ \A i \in 1..n : c[i] \in WideT BY <1>1, <1>2
<1>4. PICK F : F = [w \in A \X (1..n) |-> Taken(w[1], c[w[2]])] OBVIOUS
<1>5. F \in [A \X (1..n) -> A]
    <2>1. ASSUME NEW w \in A \X (1..n) PROVE Taken(w[1], c[w[2]]) \in A
        <3>1. w[1] \in Seq(WideT) /\ c[w[2]] \in WideT BY <1>0, <1>3
        <3>2. Append(w[1], c[w[2]]) \in Seq(WideT) BY <3>1
        <3> QED BY <1>0, <3>1, <3>2 DEF Taken
    <2> QED BY <1>4, <2>1
<1>6. PICK it \in [SUBSET (1..n) -> A] : IsFold(it, n, base, F) BY <1>1, <1>5, FoldUpTo DEF Foldable
<1> DEFINE Fold(iter) == iter = [s \in SUBSET (DOMAIN c) |->
                            IF s = {} THEN base
                            ELSE IF Before(iter[s \ {Max(s)}], c[Max(s)])
                                 THEN Append(iter[s \ {Max(s)}], c[Max(s)]) ELSE iter[s \ {Max(s)}]]
<1>7. ASSUME NEW h \in A, NEW k \in 1..n
      PROVE  F[<<h, k>>] = IF Before(h, c[k]) THEN Append(h, c[k]) ELSE h
    BY <1>4 DEF Taken
<1>8. Fold(it)
    <2>1. ASSUME NEW s \in SUBSET (1..n)
          PROVE  it[s] = IF s = {} THEN base
                         ELSE IF Before(it[s \ {Max(s)}], c[Max(s)])
                              THEN Append(it[s \ {Max(s)}], c[Max(s)]) ELSE it[s \ {Max(s)}]
        <3>1. CASE s = {} BY <1>6, <3>1 DEF IsFold
        <3>2. CASE s # {}
            <4>1. Max(s) \in 1..n /\ it[s \ {Max(s)}] \in A BY <1>6, <3>2, MaxOf
            <4>2. it[s] = F[<<it[s \ {Max(s)}], Max(s)>>] BY <1>6, <3>2 DEF IsFold
            <4> QED BY <1>7, <3>2, <4>1, <4>2
        <3> QED BY <3>1, <3>2
    <2> QED BY <1>3, <1>6, <2>1
<1>9. PICK iter : iter = CHOOSE g : Fold(g) OBVIOUS
<1>10. Fold(iter) BY <1>8, <1>9
<1>11. Walk(base, c) = iter[DOMAIN c] BY <1>9 DEF Walk, FoldLeft, MapThenFoldSet
<1>12. ASSUME NEW s \in SUBSET (1..n)
       PROVE  /\ s = {} => iter[s] = base
              /\ (s # {} /\ iter[s \ {Max(s)}] \in A) => iter[s] = F[<<iter[s \ {Max(s)}], Max(s)>>]
    <2>1. s = {} => iter[s] = base BY <1>3, <1>10
    <2>2. ASSUME s # {}, iter[s \ {Max(s)}] \in A PROVE iter[s] = F[<<iter[s \ {Max(s)}], Max(s)>>]
        <3>1. Max(s) \in 1..n BY <2>2, MaxOf
        <3>2. iter[s] = IF Before(iter[s \ {Max(s)}], c[Max(s)])
                        THEN Append(iter[s \ {Max(s)}], c[Max(s)]) ELSE iter[s \ {Max(s)}]
            BY <1>3, <1>10, <2>2
        <3> QED BY <1>7, <2>2, <3>1, <3>2
    <2> QED BY <2>1, <2>2
<1> HIDE DEF Fold
<1>13. PICK run : run = [k \in 0..n |-> iter[1..k]] OBVIOUS
<1>14. IsRun(run, A, n, base, F)
    <2>1. FoldsAs(iter, A, n, base, F) BY <1>12 DEF FoldsAs
    <2> QED BY ONLY <1>1, <1>5, <2>1, <1>13, n \in Nat, RunOf
<1> DEFINE In == {k \in Nat : k <= n => Seamless(run[k], S) /\ Walked(run[k], c, k)}
<1>15. 0 \in In
    <2>1. 1..0 = {} /\ run[0] = base BY <1>14 DEF IsRun
    <2> QED BY <2>1 DEF Walked
<1>16. ASSUME NEW k \in Nat, k \in In PROVE k + 1 \in In
    <2> SUFFICES ASSUME k + 1 <= n PROVE Seamless(run[k + 1], S) /\ Walked(run[k + 1], c, k + 1) OBVIOUS
    <2>1. k \in 0..(n - 1) /\ k + 1 \in 1..n /\ k \in 0..n OBVIOUS
    <2>2. Seamless(run[k], S) /\ Walked(run[k], c, k) BY <1>16, <2>1
    <2>3. run[k] \in A /\ run[k + 1] = F[<<run[k], k + 1>>] BY <1>14, <2>1 DEF IsRun
    <2>4. run[k + 1] = Taken(run[k], c[k + 1]) BY <1>4, <2>1, <2>3
    <2>5. k + 1 <= Len(c) BY <1>2
    <2>6. Seamless(Taken(run[k], c[k + 1]), S) /\ Walked(Taken(run[k], c[k + 1]), c, k + 1)
        BY <2>2, <2>5, TakenIs
    <2> QED BY <2>4, <2>6
<1>17. \A k \in Nat : k \in In
    <2> HIDE DEF In
    <2> QED BY <1>15, <1>16, NatSetInduction
<1>18. n \in In BY <1>17
<1>19. Walk(base, c) = run[n]
    <2>1. n \in 0..n OBVIOUS
    <2> QED BY <1>3, <1>11, <1>13, <2>1
<1> QED BY <1>2, <1>18, <1>19

\* A list of buckets from its end, with their width.
LEMMA YieldedIs ==
    ASSUME NEW bs \in Seq(BucketT), NEW w \in Nat \ {0}, NEW n \in Nat, n = Len(bs),
           NEW y, y = Yielded(bs, w)
    PROVE  /\ y \in Seq(WideT) /\ Len(y) = n
           /\ \A i \in 1..n : /\ y[i].first = bs[(n - i) + 1].first /\ y[i].last = bs[(n - i) + 1].last
                              /\ y[i].width = w
<1>1. PICK r : r = Reverse(bs) OBVIOUS
<1>2. r \in Seq(BucketT) /\ Len(r) = n /\ \A i \in 1..n : r[i] = bs[(n - i) + 1] BY <1>1, Backwards
<1>3. y = [i \in 1..n |-> [first |-> r[i].first, last |-> r[i].last, count |-> r[i].count, width |-> w]]
    <2>1. DOMAIN bs = 1..n OBVIOUS
    <2> QED BY <1>1, <2>1 DEF Yielded
<1>4. ASSUME NEW i \in 1..n PROVE y[i] \in WideT
    <2>1. r[i] \in BucketT BY <1>2
    <2>2. r[i].first \in Nat /\ r[i].last \in Nat /\ r[i].count \in Nat BY <2>1 DEF BucketT
    <2>3. y[i] = [first |-> r[i].first, last |-> r[i].last, count |-> r[i].count, width |-> w] BY <1>3
    <2> QED BY <2>2, <2>3 DEF WideT
<1>5. y = [i \in 1..n |-> y[i]] BY <1>3
<1>6. y \in Seq(WideT) /\ Len(y) = n
    <2>1. y \in Seq(WideT) BY <1>4, <1>5
    <2>2. DOMAIN y = 1..n BY <1>3
    <2> QED BY <2>1, <2>2
<1>7. ASSUME NEW i \in 1..n
      PROVE  /\ y[i].first = bs[(n - i) + 1].first /\ y[i].last = bs[(n - i) + 1].last /\ y[i].width = w
    <2>1. y[i] = [first |-> r[i].first, last |-> r[i].last, count |-> r[i].count, width |-> w] BY <1>3
    <2>2. r[i] = bs[(n - i) + 1] BY <1>2
    <2> QED BY <2>1, <2>2
<1> QED BY <1>6, <1>7

\* A tier read from its end.
LEMMA CoarserOfTier ==
    ASSUME NEW bs, NEW w \in Nat \ {0}, NEW S \in SUBSET Nat, Tells(bs, w, S)
    PROVE  Coarser(Yielded(bs, w), S)
<1>1. bs \in Seq(BucketT) BY DEF Tells
<1>2. PICK n \in Nat : n = Len(bs) BY <1>1
<1>3. PICK y : y = Yielded(bs, w) OBVIOUS
<1>4. /\ y \in Seq(WideT) /\ Len(y) = n
      /\ \A i \in 1..n : /\ y[i].first = bs[(n - i) + 1].first /\ y[i].last = bs[(n - i) + 1].last
                         /\ y[i].width = w
    BY <1>1, <1>2, <1>3, YieldedIs
<1>5. \A j \in 1..n : /\ bs[j].first \in Nat /\ bs[j].last \in Nat /\ bs[j].first <= bs[j].last
                      /\ bs[j].first \div w = bs[j].last \div w
    BY <1>2, Climbs
<1>6. ASSUME NEW q \in 1..n PROVE Narrow(y[q]) /\ \A s \in S : y[q].last < s => Met(y, q, s)
    <2>0. n - q \in Nat OBVIOUS
    <2>1. PICK j \in 1..n : j = (n - q) + 1 BY <2>0
    <2>2. PICK f \in Nat, l \in Nat : f = bs[j].first /\ l = bs[j].last BY <1>5
    <2>3. y[q].first = f /\ y[q].last = l /\ y[q].width = w BY <1>4, <2>1, <2>2
    <2>4. f <= l /\ f \div w = l \div w BY <1>5, <2>2
    <2>5. l - f < w BY <2>4, Windows
    <2>6. Narrow(y[q]) BY <2>3, <2>4, <2>5 DEF Narrow
    <2>7. ASSUME NEW s \in S, l < s PROVE Met(y, q, s)
        <3>1. s \in Nat /\ 1 \in 1..n BY <2>1
        <3>2. bs[1].first <= s
            <4>1. CASE j = 1 BY <2>2, <2>4, <2>7, <3>1, <4>1
            <4>2. CASE j # 1
                <5>1. 1 < j BY <4>2
                <5>2. bs[1].last < bs[j].first BY <1>2, <3>1, <5>1 DEF Tells, Precedes
                <5>3. PICK a \in Nat, b \in Nat : a = bs[1].first /\ b = bs[1].last /\ a <= b BY <1>5, <3>1
                <5>4. a <= s BY <2>2, <2>4, <2>7, <3>1, <5>2, <5>3
                <5> QED BY <5>3, <5>4
            <4> QED BY <4>1, <4>2
        <3>3. HeldBy(bs, s)
            <4>1. Len(bs) > 0 BY <1>2, <3>1
            <4> QED BY <3>2, <4>1 DEF Tells
        <3>4. PICK i \in 1..n : Holds(bs[i], s) BY <1>2, <3>3 DEF HeldBy
        <3>5. i > j
            <4> SUFFICES ASSUME ~(i > j) PROVE FALSE OBVIOUS
            <4>1. PICK a \in Nat, b \in Nat : a = bs[i].first /\ b = bs[i].last /\ a <= b BY <1>5
            <4>2. a <= s /\ s <= b BY <3>4, <4>1 DEF Holds
            <4>3. CASE i = j BY <2>2, <2>7, <3>1, <4>1, <4>2, <4>3
            <4>4. CASE i # j
                <5>1. i < j BY <4>4
                <5>2. bs[i].last < bs[j].first BY <1>2, <5>1 DEF Tells, Precedes
                <5>3. b < f BY <2>2, <4>1, <5>2
                <5> QED BY <2>4, <2>7, <3>1, <4>2, <5>3
            <4> QED BY <4>3, <4>4
        <3>6. PICK p : p = (n - i) + 1 OBVIOUS
        <3>7. p \in 1..(q - 1) /\ p \in 1..n /\ (n - p) + 1 = i BY <2>1, <3>5, <3>6
        <3>8. y[p].first = bs[i].first /\ y[p].last = bs[i].last /\ y[p].width = w BY <1>4, <3>7
        <3>9. Holds(y[p], s) BY <3>4, <3>8 DEF Holds
        <3>10. y[p].width <= y[q].width BY <2>3, <3>8
        <3> QED BY <3>7, <3>9, <3>10 DEF Met
    <2> QED BY <2>3, <2>6, <2>7
<1> QED BY <1>3, <1>4, <1>6 DEF Coarser

\* One such list after another is such a list.
LEMMA CoarserBoth ==
    ASSUME NEW c, NEW e, NEW S, Coarser(c, S), Coarser(e, S)
    PROVE  Coarser(c \o e, S)
<1>1. c \in Seq(WideT) /\ e \in Seq(WideT) BY DEF Coarser
<1>0. PICK b : b = c \o e OBVIOUS
<1>2. PICK n \in Nat, m \in Nat : n = Len(c) /\ m = Len(e) BY <1>1
<1>3. b \in Seq(WideT) /\ Len(b) = n + m /\ (\A p \in 1..n : b[p] = c[p]) /\ \A p \in 1..m : b[n + p] = e[p]
    BY <1>0, <1>1, <1>2, Longer
<1>4. ASSUME NEW q \in 1..(n + m) PROVE Narrow(b[q]) /\ \A s \in S : b[q].last < s => Met(b, q, s)
    <2>1. CASE q <= n
        <3>1. q \in 1..n /\ b[q] = c[q] BY <1>3, <2>1
        <3>2. Narrow(c[q]) /\ \A s \in S : c[q].last < s => Met(c, q, s) BY <1>2, <3>1 DEF Coarser
        <3>3. ASSUME NEW s \in S, Met(c, q, s) PROVE Met(b, q, s)
            <4>1. PICK p \in 1..(q - 1) : Holds(c[p], s) /\ c[p].width <= c[q].width BY <3>3 DEF Met
            <4>2. p \in 1..n BY <3>1
            <4> QED BY <1>3, <3>1, <4>1, <4>2 DEF Met
        <3> QED BY <3>1, <3>2, <3>3
    <2>2. CASE q > n
        <3>1. PICK i : i = q - n OBVIOUS
        <3>2. i \in 1..m /\ n + i = q /\ b[q] = e[i] BY <1>3, <2>2, <3>1
        <3>3. Narrow(e[i]) /\ \A s \in S : e[i].last < s => Met(e, i, s) BY <1>2, <3>2 DEF Coarser
        <3>4. ASSUME NEW s \in S, Met(e, i, s) PROVE Met(b, q, s)
            <4>1. PICK p \in 1..(i - 1) : Holds(e[p], s) /\ e[p].width <= e[i].width BY <3>4 DEF Met
            <4>2. PICK j : j = n + p OBVIOUS
            <4>3. p \in 1..m /\ j \in 1..(q - 1) BY <3>2, <4>2
            <4>4. b[j] = e[p] BY <1>3, <4>2, <4>3
            <4> QED BY <3>2, <4>1, <4>3, <4>4 DEF Met
        <3> QED BY <3>2, <3>3, <3>4
    <2> QED BY <2>1, <2>2
<1> QED BY <1>0, <1>2, <1>3, <1>4 DEF Coarser

\* The raw samples read from their end.
LEMMA RawSeamless ==
    ASSUME NEW q, NEW S \in SUBSET Nat, IsRaw(q, S), NEW bs, bs = [i \in DOMAIN q |-> Bucket(q[i])]
    PROVE  Seamless(Yielded(bs, 1), S)
<1>1. q \in Seq(Nat) BY DEF IsRaw
<1>2. PICK n \in Nat : n = Len(q) BY <1>1
<1>3. bs = [i \in 1..n |-> Bucket(q[i])] /\ \A i \in 1..n : q[i] \in Nat BY <1>1, <1>2
<1>4. \A i \in 1..n : bs[i] \in BucketT /\ bs[i].first = q[i] /\ bs[i].last = q[i] BY <1>3 DEF Bucket, BucketT
<1>5. bs \in Seq(BucketT) /\ Len(bs) = n
    <2>1. bs = [i \in 1..n |-> bs[i]] BY <1>3
    <2>2. bs \in Seq(BucketT) BY <1>4, <2>1
    <2>3. DOMAIN bs = 1..n BY <1>3
    <2> QED BY <2>2, <2>3
<1>6. PICK y : y = Yielded(bs, 1) OBVIOUS
<1>7. /\ y \in Seq(WideT) /\ Len(y) = n
      /\ \A i \in 1..n : /\ y[i].first = bs[(n - i) + 1].first /\ y[i].last = bs[(n - i) + 1].last
                         /\ y[i].width = 1
    <2>1. PICK w \in Nat \ {0} : w = 1 OBVIOUS
    <2>2. n = Len(bs) /\ bs \in Seq(BucketT) /\ y = Yielded(bs, w) BY <1>5, <1>6, <2>1
    <2>3. /\ y \in Seq(WideT) /\ Len(y) = n
          /\ \A i \in 1..n : /\ y[i].first = bs[(n - i) + 1].first /\ y[i].last = bs[(n - i) + 1].last
                             /\ y[i].width = w
        BY ONLY <2>2, w \in Nat \ {0}, n \in Nat, YieldedIs
    <2> QED BY <2>1, <2>3
<1>8. ASSUME NEW i \in 1..(n - 1)
      PROVE  /\ y[i + 1].last < y[i].first
             /\ \A s \in S : (y[i + 1].last < s /\ s < y[i].first) => y[i].first - s < y[i + 1].width
    <2>0. n - i \in Nat OBVIOUS
    <2>1. PICK j \in Nat : j = n - i BY <2>0
    <2>2. j \in 1..n /\ j + 1 \in 1..n /\ j < j + 1 /\ i \in 1..n /\ i + 1 \in 1..n
          /\ (n - i) + 1 = j + 1 /\ (n - (i + 1)) + 1 = j
        BY <2>1
    <2>3. PICK a \in Nat, b \in Nat : a = q[j] /\ b = q[j + 1] BY <1>3, <2>2
    <2>4. y[i + 1].last = a /\ y[i].first = b
        <3>1. y[i + 1].last = bs[j].last BY <1>7, <2>2
        <3>2. y[i].first = bs[j + 1].first BY <1>7, <2>2
        <3> QED BY <1>4, <2>2, <2>3, <3>1, <3>2
    <2>5. a < b BY <1>2, <2>2, <2>3 DEF IsRaw
    <2>6. ASSUME NEW s \in S, a < s, s < b PROVE FALSE
        <3>1. 1 \in 1..n /\ n > 0 /\ s \in Nat BY <2>2
        <3>2. q[1] <= s
            <4>1. CASE j = 1 BY <2>3, <2>6, <3>1, <4>1
            <4>2. CASE j # 1
                <5>1. 1 < j BY <2>2, <4>2
                <5>2. q[1] < q[j] BY <1>2, <2>2, <3>1, <5>1 DEF IsRaw
                <5>3. PICK x \in Nat : x = q[1] BY <1>3, <3>1
                <5> QED BY <2>3, <2>6, <3>1, <5>2, <5>3
            <4> QED BY <4>1, <4>2
        <3>3. PICK k \in 1..n : q[k] = s BY <1>2, <3>1, <3>2 DEF IsRaw
        <3>4. ~(k <= j)
            <4> SUFFICES ASSUME k <= j PROVE FALSE OBVIOUS
            <4>1. CASE k = j BY <2>3, <2>6, <3>1, <3>3, <4>1
            <4>2. CASE k # j
                <5>1. k < j BY <4>2
                <5>2. q[k] < q[j] BY <1>2, <2>2, <5>1 DEF IsRaw
                <5> QED BY <2>3, <2>6, <3>1, <3>3, <5>2
            <4> QED BY <4>1, <4>2
        <3>5. ~(k >= j + 1)
            <4> SUFFICES ASSUME k >= j + 1 PROVE FALSE OBVIOUS
            <4>1. CASE k = j + 1 BY <2>3, <2>6, <3>1, <3>3, <4>1
            <4>2. CASE k # j + 1
                <5>1. j + 1 < k BY <4>2
                <5>2. q[j + 1] < q[k] BY <1>2, <2>2, <5>1 DEF IsRaw
                <5> QED BY <2>3, <2>6, <3>1, <3>3, <5>2
            <4> QED BY <4>1, <4>2
        <3> QED BY <3>4, <3>5
    <2> QED BY <2>4, <2>5, <2>6
<1>9. Seamless(y, S) BY <1>7, <1>8 DEF Seamless
<1> QED BY <1>6, <1>9

\* Joining one list,
LEMMA FlattenedOne == ASSUME NEW x PROVE FlattenSeq(<<x>>) = x
<1>1. PICK q : q = <<x>> OBVIOUS
<1>2. Len(q) = 1 /\ q[1] = x /\ 1..1 = {1} BY <1>1
<1> DEFINE Flat(f) == f = [i \in 1..1 |-> IF i = 1 THEN q[i] ELSE f[i - 1] \o q[i]]
<1>3. PICK g : g = [i \in 1..1 |-> x] OBVIOUS
<1>4. Flat(g) BY <1>2, <1>3
<1>5. PICK f : f = CHOOSE h : Flat(h) OBVIOUS
<1>6. Flat(f) BY <1>4, <1>5
<1>7. f[1] = x BY <1>2, <1>6
<1>8. FlattenSeq(q) = f[1] BY <1>2, <1>5 DEF FlattenSeq
<1> QED BY <1>1, <1>7, <1>8

\* and two.
LEMMA FlattenedTwo == ASSUME NEW x, NEW y PROVE FlattenSeq(<<x, y>>) = x \o y
<1>1. PICK q : q = <<x, y>> OBVIOUS
<1>2. Len(q) = 2 /\ q[1] = x /\ q[2] = y /\ 1..2 = {1, 2} BY <1>1
<1> DEFINE Flat(f) == f = [i \in 1..2 |-> IF i = 1 THEN q[i] ELSE f[i - 1] \o q[i]]
<1>3. PICK g : g = [i \in 1..2 |-> IF i = 1 THEN x ELSE x \o y] OBVIOUS
<1>4. Flat(g)
    <2>1. g[1] = x BY <1>2, <1>3
    <2>2. ASSUME NEW i \in 1..2 PROVE g[i] = IF i = 1 THEN q[i] ELSE g[i - 1] \o q[i]
        <3>1. CASE i = 1 BY <1>2, <2>1, <3>1
        <3>2. CASE i = 2
            <4>1. i - 1 = 1 /\ i # 1 BY <3>2
            <4>2. g[i] = x \o y BY <1>3, <4>1
            <4> QED BY <1>2, <2>1, <3>2, <4>1, <4>2
        <3> QED BY <3>1, <3>2
    <2> QED BY <1>3, <2>2
<1>5. PICK f : f = CHOOSE h : Flat(h) OBVIOUS
<1>6. Flat(f) BY <1>4, <1>5
<1>7. f[2] = x \o y
    <2>1. 1 \in 1..2 /\ 2 \in 1..2 /\ 2 - 1 = 1 OBVIOUS
    <2>2. f[1] = x BY <1>2, <1>6, <2>1
    <2>3. f[2] = IF 2 = 1 THEN q[2] ELSE f[2 - 1] \o q[2] BY <1>6, <2>1
    <2>4. 2 # 1 /\ f[2 - 1] = x BY <2>1, <2>2
    <2>5. f[2] = f[2 - 1] \o q[2] BY <2>3, <2>4
    <2>6. q[2] = y BY <1>2
    <2> QED BY <2>4, <2>5, <2>6
<1>8. FlattenSeq(q) = f[2] BY <1>2, <1>5 DEF FlattenSeq
<1> QED BY <1>1, <1>7, <1>8

RawRead == Yielded([i \in DOMAIN raw |-> Bucket(raw[i])], 1)
TierRead(i) == Yielded(Everything(tiers[i]), tiers[i].width)
TiersRead == FlattenSeq([i \in DOMAIN tiers |-> TierRead(i)])

\* What the tiers yield ends with what the coarsest does.
LEMMA TiersReadAre ==
    ASSUME Clock, SeriesInv
    PROVE  /\ Coarser(TiersRead, samples)
           /\ Len(tiers) \in DOMAIN tiers
           /\ \E k \in Nat : \A j \in 1..Len(TierRead(Len(tiers))) :
                k + j \in 1..Len(TiersRead) /\ TiersRead[k + j] = TierRead(Len(tiers))[j]
<1>1. PICK S \in SUBSET Nat : S = samples BY DEF SeriesInv
<1>2. PICK r \in Nat : r = reach BY ReachesAre DEF Clock
<1>3. PICK m \in Nat : m = Count(r) /\ (m = 1 \/ m = 2) BY SpansAre
<1>4. tiers \in Seq(TierT) /\ Len(tiers) = m /\ DOMAIN tiers = 1..m BY <1>2, <1>3 DEF SeriesInv, AreTiers
<1>5. m \in 1..m BY <1>3
<1>6. PICK c : c = TiersRead OBVIOUS
<1>7. PICK all : all = [i \in 1..m |-> TierRead(i)] OBVIOUS
<1>8. c = FlattenSeq(all) BY <1>4, <1>6, <1>7 DEF TiersRead
<1>9. ASSUME NEW i \in 1..m PROVE Coarser(TierRead(i), S) /\ TierRead(i) \in Seq(WideT)
    <2>1. PICK w \in Nat \ {0} : w = tiers[i].width BY <1>4, TierNow
    <2>2. PICK bs : bs = Everything(tiers[i]) OBVIOUS
    <2>3. Tells(bs, w, S) BY <1>1, <1>4, <2>1, <2>2, TierNow
    <2>4. Coarser(Yielded(bs, w), S) BY <2>3, CoarserOfTier
    <2>5. Coarser(TierRead(i), S) BY <2>1, <2>2, <2>4 DEF TierRead
    <2> QED BY <2>5 DEF Coarser
<1>10. PICK y : y = TierRead(m) OBVIOUS
<1>11. Coarser(y, S) /\ y \in Seq(WideT) BY <1>5, <1>9, <1>10
<1>12. PICK l \in Nat : l = Len(y) BY <1>11
<1>13. Coarser(c, S) /\ \E k \in Nat : \A j \in 1..l : k + j \in 1..Len(c) /\ c[k + j] = y[j]
    <2>1. CASE m = 1
        <3>1. all = <<y>> BY <1>7, <1>10, <2>1
        <3>2. c = y BY <1>8, <3>1, FlattenedOne
        <3>3. \A j \in 1..l : 0 + j = j OBVIOUS
        <3>4. 0 \in Nat OBVIOUS
        <3> QED BY <1>11, <1>12, <3>2, <3>3, <3>4
    <2>2. CASE m = 2
        <3>1. PICK x : x = TierRead(1) OBVIOUS
        <3>2. all = <<x, y>>
            <4>1. 1..2 = {1, 2} OBVIOUS
            <4>2. all = [i \in 1..2 |-> IF i = 1 THEN x ELSE y]
                <5>1. \A i \in 1..2 : TierRead(i) = IF i = 1 THEN x ELSE y BY <1>10, <2>2, <3>1, <4>1
                <5> QED BY <1>7, <2>2, <5>1
            <4> QED BY <4>2
        <3>3. c = x \o y BY <1>8, <3>2, FlattenedTwo
        <3>4. Coarser(x, S) /\ x \in Seq(WideT)
            <4>1. 1 \in 1..m BY <1>3
            <4> QED BY <1>9, <3>1, <4>1
        <3>5. PICK k \in Nat : k = Len(x) BY <3>4
        <3>6. Len(c) = k + l /\ \A j \in 1..l : c[k + j] = y[j]
            <4>1. Len(x \o y) = Len(x) + Len(y) /\ \A j \in 1..Len(y) : (x \o y)[Len(x) + j] = y[j]
                BY ONLY <1>11, <3>4, Longer
            <4> QED BY <1>12, <3>3, <3>5, <4>1
        <3>7. \A j \in 1..l : k + j \in 1..Len(c) BY <3>6
        <3>8. Coarser(c, S) BY <1>11, <3>3, <3>4, CoarserBoth
        <3> QED BY <3>6, <3>7, <3>8
    <2> QED BY <1>3, <2>1, <2>2
<1>14. Len(tiers) = m /\ Len(tiers) \in DOMAIN tiers BY <1>4, <1>5
<1> QED BY <1>1, <1>6, <1>10, <1>12, <1>13, <1>14

\* A sample the reach asks for is in the coarsest tier.
LEMMA CoarsestHolds ==
    ASSUME Clock, SeriesInv, NEW s \in samples, s >= since
    PROVE  HeldBy(Everything(tiers[Len(tiers)]), s)
<1>1. PICK r \in Nat, top \in Nat : r = reach /\ top = now BY ReachesAre DEF Clock
<1>2. PICK m \in Nat : m = Count(r) /\ (m = 1 \/ m = 2) BY SpansAre
<1>3. tiers \in Seq(TierT) /\ Len(tiers) = m /\ m \in 1..m BY <1>1, <1>2 DEF SeriesInv, AreTiers
<1>4. IsTier(tiers[m], m, samples, r, since, top) BY <1>1, <1>2, <1>3 DEF SeriesInv, AreTiers
<1>5. SpanOf(m, r) = r BY <1>2, SpansAre
<1>6. s >= top - r
    <2>1. since \in Nat /\ since >= top - r /\ s \in Nat BY <1>1 DEF SeriesInv
    <2> QED BY <2>1
<1> QED BY <1>3, <1>4, <1>5, <1>6 DEF IsTier

\* The history is the walk from the raw samples over the tiers, so it is seamless.
LEMMA HistoryIs ==
    ASSUME Clock, SeriesInv
    PROVE  HistoryIsSeamless
<1>1. PICK S \in SUBSET Nat : S = samples BY DEF SeriesInv
<1>2. PICK c, base, h : c = TiersRead /\ base = RawRead /\ h = Walk(base, c) OBVIOUS
<1>3. History = h BY <1>2 DEF History, Walk, TiersRead, TierRead, RawRead
<1>4. Coarser(c, S) BY <1>1, <1>2, TiersReadAre
<1>5. Seamless(base, S)
    <2>1. IsRaw(raw, S) BY <1>1 DEF SeriesInv
    <2> QED BY <1>2, <2>1, RawSeamless DEF RawRead
<1>6. Seamless(h, S) /\ Walked(h, c, Len(c)) BY <1>2, <1>4, <1>5, WalkIs
<1>7. h \in Seq(WideT) /\ c \in Seq(WideT) BY <1>4, <1>6 DEF Seamless, Coarser
<1>8. PICK n \in Nat, d \in Nat : n = Len(h) /\ d = Len(c) BY <1>7
<1>9. PICK last : last = Len(tiers) OBVIOUS
<1>10. last \in DOMAIN tiers BY <1>9, TiersReadAre
<1>11. PICK w \in Nat \ {0} : w = tiers[last].width BY <1>10, TierNow
<1>12. Last(tiers).width = w BY <1>9, <1>11 DEF Last
<1>13. ASSUME NEW s \in S, s >= since, n > 0, s < h[n].first PROVE h[n].first - s < w
    <2>1. PICK bs : bs = Everything(tiers[last]) OBVIOUS
    <2>2. HeldBy(bs, s) BY <1>1, <1>9, <1>13, <2>1, CoarsestHolds
    <2>3. Tells(bs, w, S) BY <1>1, <1>10, <1>11, <2>1, TierNow
    <2>4. bs \in Seq(BucketT) BY <2>3 DEF Tells
    <2>5. PICK l \in Nat : l = Len(bs) BY <2>4
    <2>6. PICK j \in 1..l : Holds(bs[j], s) BY <2>2, <2>5 DEF HeldBy
    <2>7. PICK y : y = TierRead(last) OBVIOUS
    <2>8. y = Yielded(bs, w) BY <1>11, <2>1, <2>7 DEF TierRead
    <2>9. /\ Len(y) = l
          /\ \A i \in 1..l : y[i].first = bs[(l - i) + 1].first /\ y[i].last = bs[(l - i) + 1].last
        BY <2>4, <2>5, <2>8, YieldedIs
    <2>10. l - j \in Nat OBVIOUS
    <2>11. PICK i \in 1..l : i = (l - j) + 1 BY <2>10
    <2>12. (l - i) + 1 = j BY <2>11
    <2>13. y[i].first = bs[j].first /\ y[i].last = bs[j].last BY <2>9, <2>12
    <2>14. PICK k \in Nat : \A x \in 1..Len(y) : k + x \in 1..d /\ c[k + x] = y[x]
        BY <1>2, <1>8, <1>9, <2>7, TiersReadAre
    <2>15. PICK p \in 1..d : c[p] = y[i] BY <2>9, <2>14
    <2>16. h[n].first <= c[p].last BY <1>6, <1>8 DEF Walked
    <2>17. n \in 1..n /\ h[n] \in WideT BY <1>7, <1>8, <1>13
    <2>18. PICK x \in Nat, f \in Nat, e \in Nat : x = h[n].first /\ f = bs[j].first /\ e = bs[j].last
        <3>1. h[n].first \in Nat BY <2>17 DEF WideT
        <3>2. bs[j].first \in Nat /\ bs[j].last \in Nat BY <2>3, <2>5, Climbs
        <3> QED BY <3>1, <3>2
    <2>19. f <= e /\ f \div w = e \div w
        <3>1. \A z \in 1..l : bs[z].first \in Nat /\ bs[z].last \in Nat /\ bs[z].first <= bs[z].last
                              /\ bs[z].first \in S /\ bs[z].last \in S
                              /\ bs[z].first \div w = bs[z].last \div w /\ bs[z].last \div w \in Nat
            BY ONLY <2>3, <2>5, S \in SUBSET Nat, w \in Nat \ {0}, l \in Nat, Climbs, SMTT(30)
        <3> QED BY ONLY <2>18, <3>1, j \in 1..l
    <2>20. e - f < w BY <2>19, Windows
    <2>21. f <= s /\ x <= e BY <2>6, <2>13, <2>15, <2>16, <2>18 DEF Holds
    <2>22. s \in Nat OBVIOUS
    <2>23. x - s < w BY ONLY <2>18, <2>20, <2>21, <2>22, w \in Nat \ {0}
    <2> QED BY <2>18, <2>23
<1>14. h # << >> => n > 0 /\ Last(h) = h[n] BY <1>7, <1>8, EmptySeq DEF Last
<1>15. \A i \in 1..(Len(h) - 1) :
        /\ h[i + 1].last < h[i].first
        /\ \A s \in S : (h[i + 1].last < s /\ s < h[i].first) => h[i].first - s < h[i + 1].width
    BY <1>6 DEF Seamless
<1>16. h # << >> => \A s \in S : (s >= since /\ s < Last(h).first) => Last(h).first - s < w
    BY <1>13, <1>14
<1> QED BY <1>1, <1>3, <1>12, <1>15, <1>16 DEF HistoryIsSeamless

\* What the reach asks for is in the coarsest tier.
LEMMA HeldIs == ASSUME Clock, SeriesInv PROVE ReachIsHeld
<1>1. SUFFICES ASSUME NEW s \in samples, s >= since
               PROVE  \E i \in DOMAIN tiers : \E j \in DOMAIN Everything(tiers[i]) :
                        LET b == Everything(tiers[i])[j] IN b.first <= s /\ s <= b.last
    BY DEF ReachIsHeld
<1>2. PICK last : last = Len(tiers) OBVIOUS
<1>3. last \in DOMAIN tiers BY <1>2, TiersReadAre
<1>4. PICK bs : bs = Everything(tiers[last]) OBVIOUS
<1>5. HeldBy(bs, s) BY <1>1, <1>2, <1>4, CoarsestHolds
<1>6. bs \in Seq(BucketT) BY <1>3, <1>4, TierNow DEF Tells
<1>7. PICK j \in 1..Len(bs) : Holds(bs[j], s) BY <1>5 DEF HeldBy
<1>8. j \in DOMAIN bs BY <1>6
<1> QED BY <1>3, <1>4, <1>7, <1>8 DEF Holds

\* A chart of the whole reach: newest first, no instant twice, no seam wider than a bucket,
\* and every sample within the reach in some bucket.
THEOREM HistoryIsAlwaysWhole == Spec => []HistoryIsWhole
<1>1. Clock /\ SeriesInv => HistoryIsWhole BY HistoryIs, HeldIs DEF HistoryIsWhole
<1>2. Spec => []Clock BY ClockAlways
<1>3. Spec => []SeriesInv BY SeriesAlways
<1> QED BY <1>1, <1>2, <1>3, PTL
=============================================================================
