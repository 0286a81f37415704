------------------------- MODULE ProcessTable_proofs -------------------------
(***************************************************************************)
(* The process table, for any processes, snapshots, searches, dead band    *)
(* and bounds.                                                             *)
(*                                                                         *)
(* First what the operators compute, by induction over the lists and sets  *)
(* they fold: chains of parents are followed to their end and circles cut  *)
(* in one place (ResolveDepthRepairs), figures come to the sums over what  *)
(* is below (RollupsAre), and the tree is walked whoever it lists once     *)
(* (WalkingWalks).  Then the table: Displayed, Settings, KeysFit,          *)
(* OrderIsCurrent, Kept and Filtered hold together in every state          *)
(* (TableInv), and what is listed, sorted and selected follows.            *)
(***************************************************************************)
EXTENDS ProcessTable, FiniteSetTheorems, SequenceTheorems, WellFoundedInduction, TLAPS

-----------------------------------------------------------------------------
(* Natural numbers                                                          *)

\* Natural numbers are well founded.
LEMMA LeastNatural ==
    ASSUME NEW S, S \subseteq Nat, S # {}
    PROVE  \E n \in S : \A m \in S : n <= m
<1> DEFINE Less == OpToRel(<, Nat)
<1>1. IsWellFoundedOn(Less, Nat) BY NatLessThanWellFounded
<1>2. \A x, y \in Nat : x < y => <<x, y>> \in Less BY DEF OpToRel
<1> HIDE DEF Less
<1>3. PICK n \in S : \A m \in S : <<m, n>> \notin Less BY <1>1, WFMin
<1>4. ASSUME NEW m \in S PROVE n <= m
    <2>1. m \in Nat /\ n \in Nat OBVIOUS
    <2>2. ~(m < n) BY <1>2, <1>3, <2>1
    <2> QED BY <2>1, <2>2
<1> QED BY <1>4

\* Induction over the natural numbers, with a set for the property.
LEMMA NatSetInduction ==
    ASSUME NEW S, 0 \in S, \A n \in Nat : n \in S => n + 1 \in S
    PROVE  \A n \in Nat : n \in S
<1> DEFINE T == {n \in Nat : n \notin S}
<1> SUFFICES ASSUME T # {} PROVE FALSE OBVIOUS
<1>1. PICK n \in T : \A m \in T : n <= m BY LeastNatural
<1>2. n # 0 /\ n - 1 \in Nat OBVIOUS
<1>3. n - 1 \in S BY <1>1, <1>2
<1> QED BY <1>2, <1>3

\* A bounded set of integers that is not empty has a greatest and a least element, which
\* Max and Min choose.
LEMMA MaxIsGreatest ==
    ASSUME NEW S, S # {}, NEW low \in Int, NEW high \in Int, S \subseteq low..high
    PROVE  Max(S) \in S /\ \A x \in S : x <= Max(S)
<1> DEFINE Gaps == {n \in Nat : \E x \in S : n = high - x}
<1>1. PICK x \in S : TRUE OBVIOUS
<1>2. high - x \in Gaps BY <1>1
<1>3. PICK n \in Gaps : \A m \in Gaps : n <= m BY <1>2, LeastNatural
<1>4. PICK y \in S : n = high - y BY <1>3
<1>5. \A z \in S : z <= y
    <2> SUFFICES ASSUME NEW z \in S PROVE z <= y OBVIOUS
    <2>1. high - z \in Gaps OBVIOUS
    <2>2. n <= high - z BY <1>3, <2>1
    <2> QED BY <1>4, <2>2
<1>6. \E z \in S : \A w \in S : z >= w BY <1>5
<1>7. Max(S) = CHOOSE z \in S : \A w \in S : z >= w BY DEF Max
<1>8. Max(S) \in S /\ \A w \in S : Max(S) >= w BY <1>6, <1>7
<1> QED BY <1>8

\* The same of the least.
LEMMA MinIsLeast ==
    ASSUME NEW S, S # {}, NEW low \in Int, NEW high \in Int, S \subseteq low..high
    PROVE  Min(S) \in S /\ \A x \in S : Min(S) <= x
<1> DEFINE Gaps == {n \in Nat : \E x \in S : n = x - low}
<1>1. PICK x \in S : TRUE OBVIOUS
<1>2. x - low \in Gaps BY <1>1
<1>3. PICK n \in Gaps : \A m \in Gaps : n <= m BY <1>2, LeastNatural
<1>4. PICK y \in S : n = y - low BY <1>3
<1>5. \A z \in S : y <= z
    <2> SUFFICES ASSUME NEW z \in S PROVE y <= z OBVIOUS
    <2>1. z - low \in Gaps OBVIOUS
    <2>2. n <= z - low BY <1>3, <2>1
    <2> QED BY <1>4, <2>2
<1>6. \E z \in S : \A w \in S : z <= w BY <1>5
<1>7. Min(S) = CHOOSE z \in S : \A w \in S : z <= w BY DEF Min
<1>8. Min(S) \in S /\ \A w \in S : Min(S) <= w BY <1>6, <1>7
<1> QED BY <1>8


-----------------------------------------------------------------------------
(* Chains of parents                                                        *)

\* What is known of a list and its parents; there may be circles.
Parents(S) == [S -> S \cup {NONE}]

\* The recursion of Chain is well founded.
IsChain(up, P, r, n) ==
    up = [k \in 0..n |-> IF k = 0 THEN r ELSE IF up[k - 1] = NONE THEN NONE ELSE P[up[k - 1]]]

\* The chain of parents above a process exists, however far it is followed.
LEMMA ChainUpTo ==
    ASSUME NEW P, NEW r, NEW m \in Nat
    PROVE  \E up : IsChain(up, P, r, m)
<1> DEFINE Long == {j \in Nat : \E up : IsChain(up, P, r, j)}
<1>1. 0 \in Long
    <2>1. 0..0 = {0} OBVIOUS
    <2>2. IsChain([k \in {0} |-> r], P, r, 0) BY <2>1 DEF IsChain
    <2> QED BY <2>2
<1>2. ASSUME NEW j \in Nat, j \in Long PROVE j + 1 \in Long
    <2>1. PICK up : IsChain(up, P, r, j) BY <1>2
    <2> DEFINE more == [k \in 0..(j + 1) |->
                            IF k = j + 1 THEN IF up[j] = NONE THEN NONE ELSE P[up[j]] ELSE up[k]]
    <2>3. ASSUME NEW k \in 0..(j + 1)
          PROVE  more[k] = IF k = 0 THEN r ELSE IF more[k - 1] = NONE THEN NONE ELSE P[more[k - 1]]
        <3>1. CASE k = j + 1
            <4>1. k - 1 = j /\ k - 1 \in 0..(j + 1) /\ k - 1 # j + 1 /\ k # 0 BY <3>1
            <4>2. more[k - 1] = up[j] BY <4>1
            <4> QED BY <3>1, <4>1, <4>2
        <3>2. CASE k # j + 1
            <4>1. k \in 0..j BY <3>2
            <4>2. more[k] = up[k] BY <3>2
            <4>3. up[k] = IF k = 0 THEN r ELSE IF up[k - 1] = NONE THEN NONE ELSE P[up[k - 1]]
                BY <2>1, <4>1 DEF IsChain
            <4>4. k # 0 => k - 1 \in 0..(j + 1) /\ k - 1 # j + 1 BY <4>1
            <4>5. k # 0 => more[k - 1] = up[k - 1] BY <4>4
            <4> QED BY <4>2, <4>3, <4>5
        <3> QED BY <3>1, <3>2
    <2>4. more = [k \in 0..(j + 1) |-> more[k]] OBVIOUS
    <2> HIDE DEF more
    <2>5. IsChain(more, P, r, j + 1) BY <2>3, <2>4 DEF IsChain
    <2> QED BY <2>5
<1> HIDE DEF Long
<1>3. m \in Long BY <1>1, <1>2, NatSetInduction
<1> QED BY <1>3 DEF Long

GoesUp(up, P, S, r, n) ==
    /\ n \in Nat \ {0} /\ n = Cardinality(S)
    /\ up \in [0..n -> S \cup {NONE}] /\ up[0] = r
    /\ \A k \in 0..(n - 1) : up[k + 1] = IF up[k] = NONE THEN NONE ELSE P[up[k]]

\* Chain(P, r) is that chain, as far as there are processes.
LEMMA ChainIs ==
    ASSUME NEW S, IsFiniteSet(S), S \subseteq Nat, NEW P \in Parents(S), NEW r \in S
    PROVE  GoesUp(Chain(P, r), P, S, r, Cardinality(S))
<1>1. PICK n : n = Cardinality(S) OBVIOUS
<1>2. n \in Nat \ {0} BY <1>1, FS_CardinalityType, FS_EmptySet
<1>3. DOMAIN P = S BY DEF Parents
<1>4. PICK up : up = CHOOSE g : IsChain(g, P, r, n) OBVIOUS
<1>5. IsChain(up, P, r, n) BY <1>2, <1>4, ChainUpTo
<1>6. Chain(P, r) = up BY <1>1, <1>3, <1>4 DEF Chain, IsChain
<1>7. /\ up[0] = r
      /\ \A k \in 0..(n - 1) : up[k + 1] = IF up[k] = NONE THEN NONE ELSE P[up[k]]
    <2>1. \A k \in 0..n : up[k] = IF k = 0 THEN r ELSE IF up[k - 1] = NONE THEN NONE ELSE P[up[k - 1]]
        BY <1>5 DEF IsChain
    <2>2. up[0] = r BY <1>2, <2>1
    <2>3. \A k \in 0..(n - 1) : k + 1 \in 0..n /\ k + 1 # 0 /\ (k + 1) - 1 = k BY <1>2
    <2> QED BY <2>1, <2>2, <2>3
<1> DEFINE In == {k \in Nat : k <= n => up[k] \in S \cup {NONE}}
<1>8. \A k \in Nat : k \in In
    <2>1. 0 \in In BY <1>7
    <2>2. ASSUME NEW k \in Nat, k \in In PROVE k + 1 \in In
        <3> SUFFICES ASSUME k + 1 <= n PROVE up[k + 1] \in S \cup {NONE} OBVIOUS
        <3>1. k \in 0..(n - 1) /\ up[k] \in S \cup {NONE} BY <1>2, <2>2
        <3>2. up[k] # NONE => P[up[k]] \in S \cup {NONE} BY <3>1 DEF Parents
        <3> QED BY <1>7, <3>1, <3>2
    <2> HIDE DEF In
    <2> QED BY <2>1, <2>2, NatSetInduction
<1>9. up \in [0..n -> S \cup {NONE}]
    <2>1. \A k \in 0..n : up[k] \in S \cup {NONE} BY <1>2, <1>8
    <2>2. up = [k \in 0..n |-> IF k = 0 THEN r ELSE IF up[k - 1] = NONE THEN NONE ELSE P[up[k - 1]]]
        BY <1>5 DEF IsChain
    <2>3. up = [k \in 0..n |-> up[k]] BY <2>2
    <2> QED BY <2>1, <2>3
<1> QED BY <1>1, <1>2, <1>6, <1>7, <1>9 DEF GoesUp

\* A chain that has not ended after as many levels as there are processes has come back
\* to one of its own: it goes round from there.
LEMMA ChainComesBack ==
    ASSUME NEW S, IsFiniteSet(S), NEW n \in Nat, n = Cardinality(S), NONE \notin S,
           NEW P \in Parents(S), NEW up \in [0..n -> S],
           \A k \in 0..(n - 1) : up[k + 1] = P[up[k]]
    PROVE  \E k \in 1..n : P[up[n]] = up[k]
<1>1. IsFiniteSet(0..n) /\ Cardinality(0..n) = n + 1 BY FS_Interval
<1>2. \E x, y \in 0..n : x # y /\ up[x] = up[y]
    <2>1. Cardinality(S) < Cardinality(0..n) BY <1>1
    <2> QED BY <1>1, <2>1, FS_PigeonHole
<1>3. PICK a \in 0..n, b \in 0..n : a < b /\ up[a] = up[b]
    <2>1. PICK x \in 0..n, y \in 0..n : x # y /\ up[x] = up[y] BY <1>2
    <2>2. x < y \/ y < x BY <2>1
    <2> QED BY <2>1, <2>2
<1> DEFINE Same == {j \in Nat : b + j <= n => up[a + j] = up[b + j]}
<1>4. \A j \in Nat : j \in Same
    <2>1. 0 \in Same BY <1>3
    <2>2. ASSUME NEW j \in Nat, j \in Same PROVE j + 1 \in Same
        <3> SUFFICES ASSUME b + (j + 1) <= n PROVE up[a + (j + 1)] = up[b + (j + 1)] OBVIOUS
        <3>1. up[a + j] = up[b + j] BY <2>2
        <3>2. a + j \in 0..(n - 1) /\ b + j \in 0..(n - 1)
              /\ a + (j + 1) = (a + j) + 1 /\ b + (j + 1) = (b + j) + 1 BY <1>3
        <3>3. up[(a + j) + 1] = P[up[a + j]] /\ up[(b + j) + 1] = P[up[b + j]] BY <3>2
        <3> QED BY <3>1, <3>2, <3>3
    <2> HIDE DEF Same
    <2> QED BY <2>1, <2>2, NatSetInduction
<1>5. PICK j : j = n - b OBVIOUS
<1>6. j \in Nat /\ b + j = n /\ a + j \in 0..(n - 1) /\ (a + j) + 1 \in 1..n
    <2>1. a < b /\ a \in 0..n /\ b \in 0..n BY <1>3
    <2> QED BY ONLY <2>1, <1>5, n \in Nat
<1>7. up[a + j] = up[n] BY <1>4, <1>6
<1>8. up[(a + j) + 1] = P[up[n]] BY <1>6, <1>7
<1> QED BY <1>6, <1>8

\* A set of processes whose parents are in it too.
Closed(P, T) == \A k \in T : k \in DOMAIN P => P[k] \in T \cup {NONE}

\* What is above a process is the least set that its parent is in, if it has one, and
\* that has the parents of its members.
LEMMA AboveIs ==
    ASSUME NEW S, IsFiniteSet(S), S \subseteq Nat, NEW P \in Parents(S), NEW r \in S
    PROVE  /\ Above(P, r) \subseteq S
           /\ P[r] \in Above(P, r) \cup {NONE}
           /\ Closed(P, Above(P, r))
           /\ \A T : Closed(P, T) /\ P[r] \in T \cup {NONE} => Above(P, r) \subseteq T
<1>0. NONE \notin S BY DEF NONE
<1>1. PICK n \in Nat \ {0}, up \in {Chain(P, r)} : n = Cardinality(S) /\ up = Chain(P, r) /\ GoesUp(up, P, S, r, n)
    <2>1. GoesUp(Chain(P, r), P, S, r, Cardinality(S)) BY ChainIs
    <2> QED BY <2>1 DEF GoesUp
<1>3. /\ up \in [0..n -> S \cup {NONE}] /\ up[0] = r
      /\ \A k \in 0..(n - 1) : up[k + 1] = IF up[k] = NONE THEN NONE ELSE P[up[k]]
    BY <1>1 DEF GoesUp
<1>4. DOMAIN P = S BY DEF Parents
<1>5. Above(P, r) = {up[k] : k \in 1..n} \ {NONE} BY <1>1, <1>4 DEF Above
<1>6. Above(P, r) \subseteq S BY <1>3, <1>5
<1>7. P[r] \in Above(P, r) \cup {NONE}
    <2>1. 0 \in 0..(n - 1) /\ 1 \in 1..n /\ 0 + 1 = 1 OBVIOUS
    <2>2. up[1] = P[r] BY <1>0, <1>3, <2>1
    <2> QED BY <1>5, <2>1, <2>2
<1>8. Closed(P, Above(P, r))
    <2> SUFFICES ASSUME NEW x \in Above(P, r), P[x] # NONE PROVE P[x] \in Above(P, r)
        BY DEF Closed
    <2>1. PICK k \in 1..n : x = up[k] /\ x # NONE BY <1>5
    <2>2. CASE k < n
        <3>1. k \in 0..(n - 1) /\ k + 1 \in 1..n BY <2>2
        <3>2. up[k + 1] = P[x] BY <1>3, <2>1, <3>1
        <3> QED BY <1>5, <3>1, <3>2
    <2>3. CASE ~(k < n)
        <3>1. k = n BY <2>3
        <3> DEFINE Some == {j \in Nat : j <= n => up[n - j] # NONE}
        <3>2. \A j \in Nat : j \in Some
            <4>1. 0 \in Some BY <2>1, <3>1
            <4>2. ASSUME NEW j \in Nat, j \in Some PROVE j + 1 \in Some
                <5> SUFFICES ASSUME j + 1 <= n, up[n - (j + 1)] = NONE PROVE FALSE OBVIOUS
                <5>1. n - (j + 1) \in 0..(n - 1) /\ (n - (j + 1)) + 1 = n - j OBVIOUS
                <5>2. up[n - j] = NONE BY <1>3, <5>1
                <5> QED BY <4>2, <5>2
            <4> HIDE DEF Some
            <4> QED BY <4>1, <4>2, NatSetInduction
        <3>3. \A i \in 0..n : up[i] # NONE
            <4> SUFFICES ASSUME NEW i \in 0..n PROVE up[i] # NONE OBVIOUS
            <4>1. n - i \in Nat /\ n - i <= n /\ n - (n - i) = i OBVIOUS
            <4>2. n - i \in Some BY <3>2, <4>1
            <4> QED BY <4>1, <4>2
        <3>4. up \in [0..n -> S] BY <1>3, <3>3
        <3>5. \A i \in 0..(n - 1) : up[i + 1] = P[up[i]] BY <1>3, <3>3
        <3>6. PICK i \in 1..n : P[up[n]] = up[i]
            <4>1. n \in Nat /\ n = Cardinality(S) BY <1>1
            <4> QED BY ONLY <1>0, <3>4, <3>5, <4>1, IsFiniteSet(S), P \in Parents(S), ChainComesBack
        <3> QED BY <1>5, <2>1, <3>1, <3>3, <3>6
    <2> QED BY <2>2, <2>3
<1>9. ASSUME NEW T, Closed(P, T), P[r] \in T \cup {NONE} PROVE Above(P, r) \subseteq T
    <2> DEFINE In == {j \in Nat : j + 1 <= n => up[j + 1] \in T \cup {NONE}}
    <2>1. \A j \in Nat : j \in In
        <3>1. 0 \in In
            <4>1. 0 \in 0..(n - 1) OBVIOUS
            <4>2. up[0 + 1] = P[r] BY <1>0, <1>3, <4>1
            <4> QED BY <1>9, <4>2
        <3>2. ASSUME NEW j \in Nat, j \in In PROVE j + 1 \in In
            <4> SUFFICES ASSUME (j + 1) + 1 <= n PROVE up[(j + 1) + 1] \in T \cup {NONE} OBVIOUS
            <4>1. j + 1 \in 0..(n - 1) /\ j + 1 \in 0..n OBVIOUS
            <4>2. up[j + 1] \in T \cup {NONE} BY <3>2
            <4>3. up[j + 1] \in S \cup {NONE} BY <1>3, <4>1
            <4>4. up[j + 1] # NONE => P[up[j + 1]] \in T \cup {NONE}
                BY <1>4, <1>9, <4>2, <4>3 DEF Closed
            <4> QED BY <1>3, <4>1, <4>4
        <3> HIDE DEF In
        <3> QED BY <3>1, <3>2, NatSetInduction
    <2>2. ASSUME NEW k \in 1..n PROVE up[k] \in T \cup {NONE}
        <3>1. k - 1 \in Nat /\ (k - 1) + 1 = k OBVIOUS
        <3>2. k - 1 \in In BY <2>1, <3>1
        <3> QED BY <3>1, <3>2
    <2> QED BY <1>5, <2>2
<1> QED BY <1>6, <1>7, <1>8, <1>9

\* Above a process are its parent and whoever is above that.
LEMMA AboveStep ==
    ASSUME NEW S, IsFiniteSet(S), S \subseteq Nat, NEW P \in Parents(S), NEW r \in S
    PROVE  /\ P[r] = NONE => Above(P, r) = {}
           /\ P[r] # NONE => Above(P, r) = {P[r]} \cup Above(P, P[r])
<1>0. NONE \notin S /\ DOMAIN P = S /\ \A x \in S : P[x] \in S \cup {NONE} BY DEF NONE, Parents
<1>1. Closed(P, Above(P, r)) /\ P[r] \in Above(P, r) \cup {NONE} BY AboveIs
<1>2. CASE P[r] = NONE
    <2>1. Closed(P, {}) BY DEF Closed
    <2>2. Above(P, r) \subseteq {} BY <1>2, <2>1, AboveIs
    <2> QED BY <1>2, <2>2
<1>3. CASE P[r] # NONE
    <2>1. P[r] \in S BY <1>0, <1>3
    <2>2. /\ Closed(P, Above(P, P[r])) /\ P[P[r]] \in Above(P, P[r]) \cup {NONE}
          /\ \A T : Closed(P, T) /\ P[P[r]] \in T \cup {NONE} => Above(P, P[r]) \subseteq T
        BY <2>1, AboveIs
    <2>3. P[P[r]] \in Above(P, r) \cup {NONE} BY <1>0, <1>1, <1>3, <2>1 DEF Closed
    <2>4. Above(P, P[r]) \subseteq Above(P, r) BY <1>1, <2>2, <2>3
    <2>5. Closed(P, {P[r]} \cup Above(P, P[r])) BY <2>2 DEF Closed
    <2>6. PICK T : T = {P[r]} \cup Above(P, P[r]) OBVIOUS
    <2>7. Closed(P, T) /\ P[r] \in T \cup {NONE} BY <2>5, <2>6
    <2>8. Above(P, r) \subseteq T BY <2>7, AboveIs
    <2> QED BY <1>1, <1>3, <2>4, <2>6, <2>8
<1> QED BY <1>2, <1>3

\* Whoever is above someone above a process is above the process.
LEMMA AboveAll ==
    ASSUME NEW S, IsFiniteSet(S), S \subseteq Nat, NEW P \in Parents(S), NEW r \in S,
           NEW x \in Above(P, r)
    PROVE  x \in S /\ Above(P, x) \subseteq Above(P, r)
<1>1. Above(P, r) \subseteq S /\ Closed(P, Above(P, r)) BY AboveIs
<1>2. x \in S /\ x \in DOMAIN P BY <1>1 DEF Parents
<1>3. P[x] \in Above(P, r) \cup {NONE} BY <1>1, <1>2 DEF Closed
<1> QED BY <1>1, <1>2, <1>3, AboveIs

\* Whoever is above has a child on the way up.
LEMMA AboveHasChild ==
    ASSUME NEW S, IsFiniteSet(S), S \subseteq Nat, NEW P \in Parents(S), NEW r \in S,
           NEW x \in Above(P, r)
    PROVE  \E c \in S : P[c] = x /\ (c = r \/ c \in Above(P, r))
<1>0. NONE \notin S /\ DOMAIN P = S /\ \A y \in S : P[y] \in S \cup {NONE} BY DEF NONE, Parents
<1>1. Above(P, r) \subseteq S /\ Closed(P, Above(P, r)) /\ P[r] \in Above(P, r) \cup {NONE}
    BY AboveIs
<1> DEFINE T == {y \in Above(P, r) : \E c \in {r} \cup Above(P, r) : P[c] = y}
<1>2. Closed(P, T) BY <1>0, <1>1 DEF Closed
<1>3. P[r] \in T \cup {NONE} BY <1>1
<1>4. Above(P, r) \subseteq T
    <2> HIDE DEF T
    <2> QED BY <1>2, <1>3, AboveIs
<1>5. PICK c \in {r} \cup Above(P, r) : P[c] = x BY <1>4
<1> QED BY <1>1, <1>5

\* Of two on one way up, one is above the other.
LEMMA AboveIsALine ==
    ASSUME NEW S, IsFiniteSet(S), S \subseteq Nat, NEW P \in Parents(S), NEW r \in S,
           NEW x \in {r} \cup Above(P, r), NEW y \in {r} \cup Above(P, r)
    PROVE  x = y \/ x \in Above(P, y) \/ y \in Above(P, x)
<1>0. NONE \notin S /\ DOMAIN P = S /\ \A z \in S : P[z] \in S \cup {NONE} BY DEF NONE, Parents
<1>1. Above(P, r) \subseteq S /\ Closed(P, Above(P, r)) /\ P[r] \in Above(P, r) \cup {NONE}
    BY AboveIs
<1>2. x \in S /\ y \in S BY <1>1
<1> DEFINE T == {z \in {r} \cup Above(P, r) : x = z \/ x \in Above(P, z) \/ z \in Above(P, x)}
<1>3. ASSUME NEW z \in T, P[z] # NONE PROVE P[z] \in T
    <2>1. z \in S /\ P[z] \in S BY <1>0, <1>1, <1>3
    <2>2. P[z] \in Above(P, r) BY <1>0, <1>1, <1>3, <2>1 DEF Closed
    <2>3. CASE x = z
        <3>1. P[z] \in Above(P, x) BY <1>2, <1>3, <2>3, AboveIs
        <3> QED BY <2>2, <3>1
    <2>4. CASE x \in Above(P, z)
        <3>1. Above(P, z) = {P[z]} \cup Above(P, P[z]) BY <1>3, <2>1, AboveStep
        <3> QED BY <2>2, <2>4, <3>1
    <2>5. CASE z \in Above(P, x)
        <3>1. Closed(P, Above(P, x)) BY <1>2, AboveIs
        <3>2. P[z] \in Above(P, x) BY <1>0, <1>3, <2>1, <2>5, <3>1 DEF Closed
        <3> QED BY <2>2, <3>2
    <2> QED BY <1>3, <2>3, <2>4, <2>5
<1>4. r \in T OBVIOUS
<1>5. {r} \cup Above(P, r) \subseteq T
    <2> HIDE DEF T
    <2>1. Closed(P, T) BY <1>3 DEF Closed
    <2>2. P[r] \in T \cup {NONE} BY <1>3, <1>4
    <2> QED BY <1>4, <2>1, <2>2, AboveIs
<1> QED BY <1>5

\* With fewer parents there is less above.
LEMMA LessAbove ==
    ASSUME NEW S, IsFiniteSet(S), S \subseteq Nat, NEW P \in Parents(S), NEW Q \in Parents(S),
           \A x \in S : Q[x] \in {P[x], NONE}, NEW r \in S
    PROVE  Above(Q, r) \subseteq Above(P, r)
<1>0. DOMAIN P = S /\ DOMAIN Q = S BY DEF Parents
<1>1. Above(P, r) \subseteq S /\ Closed(P, Above(P, r)) /\ P[r] \in Above(P, r) \cup {NONE}
    BY AboveIs
<1>2. Closed(Q, Above(P, r)) /\ Q[r] \in Above(P, r) \cup {NONE} BY <1>0, <1>1 DEF Closed
<1> QED BY <1>2, AboveIs

\* Nobody is above itself.
Forest(P) == \A r \in DOMAIN P : r \notin Above(P, r)

\* Where nobody is above itself, a process is one deeper than its parent.
LEMMA DepthFalls ==
    ASSUME NEW S, IsFiniteSet(S), S \subseteq Nat, NEW P \in Parents(S), Forest(P), NEW r \in S
    PROVE  /\ Depth(P, r) \in Nat /\ Depth(P, r) <= Cardinality(S)
           /\ P[r] # NONE => P[r] \in S /\ Depth(P, r) = Depth(P, P[r]) + 1
<1>0. NONE \notin S /\ DOMAIN P = S /\ \A x \in S : P[x] \in S \cup {NONE} BY DEF NONE, Parents
<1>1. ASSUME NEW x \in S
      PROVE  IsFiniteSet(Above(P, x)) /\ Cardinality(Above(P, x)) \in 0..Cardinality(S)
    <2>1. Above(P, x) \subseteq S BY AboveIs
    <2>2. IsFiniteSet(Above(P, x)) /\ Cardinality(Above(P, x)) <= Cardinality(S) BY <2>1, FS_Subset
    <2>3. Cardinality(Above(P, x)) \in Nat /\ Cardinality(S) \in Nat BY <2>2, FS_CardinalityType
    <2> QED BY <2>2, <2>3
<1>2. ASSUME P[r] # NONE PROVE P[r] \in S /\ Depth(P, r) = Depth(P, P[r]) + 1
    <2>1. P[r] \in S BY <1>0, <1>2
    <2>2. Above(P, r) = {P[r]} \cup Above(P, P[r]) BY <1>2, AboveStep
    <2>3. P[r] \notin Above(P, P[r]) BY <1>0, <2>1 DEF Forest
    <2>4. Cardinality(Above(P, P[r]) \cup {P[r]}) = Cardinality(Above(P, P[r])) + 1
        BY <1>1, <2>1, <2>3, FS_AddElement
    <2>5. Above(P, P[r]) \cup {P[r]} = {P[r]} \cup Above(P, P[r]) OBVIOUS
    <2> QED BY <2>1, <2>2, <2>4, <2>5 DEF Depth
<1>3. Cardinality(Above(P, r)) \in Nat /\ Cardinality(Above(P, r)) <= Cardinality(S)
    <2>1. Cardinality(S) \in Nat /\ Cardinality(Above(P, r)) \in 0..Cardinality(S)
        BY <1>1, FS_CardinalityType
    <2> QED BY <2>1
<1> QED BY <1>2, <1>3 DEF Depth

-----------------------------------------------------------------------------
(* Folds over a list                                                        *)

\* The greatest of some of the positions of a list is one of them.
LEMMA MaxOf ==
    ASSUME NEW n \in Nat, NEW s \in SUBSET (1..n), s # {}
    PROVE  Max(s) \in s /\ Max(s) \in 1..n /\ \A x \in s : x <= Max(s)
<1>1. 1 \in Int /\ n \in Int /\ s \subseteq 1..n OBVIOUS
<1>2. Max(s) \in s /\ \A x \in s : x <= Max(s) BY ONLY <1>1, s # {}, MaxIsGreatest
<1> QED BY <1>2

\* Of the first positions of a list the greatest is the last.
LEMMA MaxOfRun == \A k \in Nat : Max(1..(k + 1)) = k + 1 /\ (1..(k + 1)) \ {k + 1} = 1..k
<1> SUFFICES ASSUME NEW k \in Nat PROVE Max(1..(k + 1)) = k + 1 /\ (1..(k + 1)) \ {k + 1} = 1..k
    OBVIOUS
<1>1. k + 1 \in 1..(k + 1) OBVIOUS
<1>2. Max(1..(k + 1)) \in 1..(k + 1) /\ \A x \in 1..(k + 1) : x <= Max(1..(k + 1))
    <2>1. k + 1 \in Nat /\ 1..(k + 1) \in SUBSET (1..(k + 1)) /\ 1..(k + 1) # {} BY <1>1
    <2> QED BY ONLY <2>1, MaxOf
<1>3. PICK m \in 1..(k + 1) : m = Max(1..(k + 1)) /\ \A x \in 1..(k + 1) : x <= m BY <1>2
<1>4. m = k + 1 BY <1>1, <1>3
<1> QED BY <1>3, <1>4

\* The recursion of FoldLeft is well founded; F is the step with each position's element.
IsFold(iter, n, base, F) ==
    \A s \in SUBSET (1..n) : iter[s] = IF s = {} THEN base ELSE F[<<iter[s \ {Max(s)}], Max(s)>>]

\* A fold over some positions folds the greatest into the fold over the others.
LEMMA FoldStep ==
    ASSUME NEW n, NEW base, NEW F, NEW iter, IsFold(iter, n, base, F),
           NEW s \in SUBSET (1..n), s # {}
    PROVE  iter[s] = F[<<iter[s \ {Max(s)}], Max(s)>>]
<1>1. iter[s] = IF s = {} THEN base ELSE F[<<iter[s \ {Max(s)}], Max(s)>>] BY DEF IsFold
<1> QED BY <1>1

Foldable(A, n, base, F) == \E iter \in [SUBSET (1..n) -> A] : IsFold(iter, n, base, F)

\* Over any number of positions the function that folds exists.
LEMMA FoldUpTo ==
    ASSUME NEW A, NEW base \in A, NEW n \in Nat, NEW F \in [A \X (1..n) -> A]
    PROVE  Foldable(A, n, base, F)
<1> DEFINE Has == {k \in Nat : k <= n => Foldable(A, k, base, F)}
<1>1. 0 \in Has
    <2>1. 1..0 = {} OBVIOUS
    <2>2. [s \in SUBSET (1..0) |-> base] \in [SUBSET (1..0) -> A]
          /\ IsFold([s \in SUBSET (1..0) |-> base], 0, base, F)
        BY <2>1 DEF IsFold
    <2> QED BY <2>2 DEF Foldable
<1>2. ASSUME NEW k \in Nat, k \in Has PROVE k + 1 \in Has
    <2> SUFFICES ASSUME k + 1 <= n PROVE Foldable(A, k + 1, base, F) OBVIOUS
    <2>1. PICK iter \in [SUBSET (1..k) -> A] : IsFold(iter, k, base, F)
        <3>1. Foldable(A, k, base, F) BY <1>2
        <3> QED BY <3>1 DEF Foldable
    <2>2. PICK j : j = k + 1 OBVIOUS
    <2>3. j \in 1..n /\ j \in 1..j /\ j \notin 1..k /\ (1..j) \ {j} = 1..k BY <2>2
    <2> DEFINE more == [s \in SUBSET (1..j) |->
                            IF j \in s THEN F[<<iter[s \ {j}], j>>] ELSE iter[s]]
    <2>4. more \in [SUBSET (1..j) -> A]
        <3>1. ASSUME NEW s \in SUBSET (1..j)
              PROVE  (IF j \in s THEN F[<<iter[s \ {j}], j>>] ELSE iter[s]) \in A
            <4>1. s \ {j} \in SUBSET (1..k) BY <2>3
            <4>2. iter[s \ {j}] \in A BY <4>1
            <4>3. F[<<iter[s \ {j}], j>>] \in A BY <2>3, <4>2
            <4>4. j \notin s => iter[s] \in A BY <2>3
            <4> QED BY <4>3, <4>4
        <3> QED BY <3>1
    <2>5. ASSUME NEW s \in SUBSET (1..j)
          PROVE  more[s] = IF s = {} THEN base ELSE F[<<more[s \ {Max(s)}], Max(s)>>]
        <3>1. CASE j \in s
            <4>1. Max(s) \in s /\ \A x \in s : x <= Max(s)
                <5>1. j \in Nat /\ s # {} BY <2>2, <3>1
                <5> QED BY <5>1, MaxOf
            <4>2. Max(s) \in 1..j /\ j <= Max(s) BY <3>1, <4>1
            <4>3. Max(s) = j BY <2>2, <4>2
            <4>4. s \ {j} \in SUBSET (1..j) /\ j \notin s \ {j} BY <2>3
            <4>5. more[s \ {j}] = iter[s \ {j}] BY <4>4
            <4>6. more[s] = F[<<iter[s \ {j}], j>>] BY <3>1
            <4> QED BY <3>1, <4>3, <4>5, <4>6
        <3>2. CASE j \notin s
            <4>1. s \in SUBSET (1..k) /\ s \ {Max(s)} \in SUBSET (1..j) /\ j \notin s \ {Max(s)}
                BY <2>3, <3>2
            <4>2. more[s] = iter[s] /\ more[s \ {Max(s)}] = iter[s \ {Max(s)}] BY <3>2, <4>1
            <4>3. iter[s] = IF s = {} THEN base ELSE F[<<iter[s \ {Max(s)}], Max(s)>>]
                BY <2>1, <4>1 DEF IsFold
            <4> QED BY <4>2, <4>3
        <3> QED BY <3>1, <3>2
    <2> HIDE DEF more
    <2>6. IsFold(more, j, base, F) BY <2>5 DEF IsFold
    <2> QED BY <2>2, <2>4, <2>6 DEF Foldable
<1>3. \A k \in Nat : k \in Has
    <2> HIDE DEF Has
    <2> QED BY <1>1, <1>2, NatSetInduction
<1>4. n \in Has BY <1>3
<1> QED BY <1>4

\* The parents after each process of the list.
Trees(S) == [parent : Parents(S), resolved : SUBSET S]

Rebuilt(base, list) == FoldLeft(ResolveDepth, base, list)

IsRebuild(run, S, base, list, n) ==
    /\ run \in [0..n -> Trees(S)] /\ run[0] = base
    /\ \A k \in 0..(n - 1) : run[k + 1] = ResolveDepth(run[k], list[k + 1])
    /\ Rebuilt(base, list) = run[n]

\* Resolving a list of processes is a run of one resolve_depth after the other.
LEMMA RebuildIs ==
    ASSUME NEW S, NEW list \in Seq(S), NEW base \in Trees(S),
           \A t \in Trees(S), r \in S : ResolveDepth(t, r) \in Trees(S)
    PROVE  \E run : IsRebuild(run, S, base, list, Len(list))
<1>1. PICK n \in Nat : n = Len(list) OBVIOUS
<1>2. DOMAIN list = 1..n /\ \A i \in 1..n : list[i] \in S BY <1>1
<1>3. PICK F : F = [w \in Trees(S) \X (1..n) |-> ResolveDepth(w[1], list[w[2]])] OBVIOUS
<1>4. F \in [Trees(S) \X (1..n) -> Trees(S)] BY <1>2, <1>3
<1>5. PICK it \in [SUBSET (1..n) -> Trees(S)] : IsFold(it, n, base, F) BY <1>4, FoldUpTo DEF Foldable
<1> DEFINE Fold(iter) == iter = [s \in SUBSET (DOMAIN list) |->
                            IF s = {} THEN base
                            ELSE ResolveDepth(iter[s \ {Max(s)}], list[Max(s)])]
<1>6. Fold(it)
    <2>1. ASSUME NEW s \in SUBSET (1..n)
          PROVE  it[s] = IF s = {} THEN base ELSE ResolveDepth(it[s \ {Max(s)}], list[Max(s)])
        <3>1. CASE s = {} BY <1>5, <3>1 DEF IsFold
        <3>2. CASE s # {}
            <4>1. Max(s) \in 1..n BY <3>2, MaxOf
            <4>2. it[s \ {Max(s)}] \in Trees(S) BY <1>5
            <4>3. it[s] = F[<<it[s \ {Max(s)}], Max(s)>>] BY <1>5, <3>2 DEF IsFold
            <4> QED BY <1>3, <3>2, <4>1, <4>2, <4>3
        <3> QED BY <3>1, <3>2
    <2> QED BY <1>2, <1>5, <2>1
<1>7. PICK iter : iter = CHOOSE g : Fold(g) OBVIOUS
<1>8. Fold(iter) BY <1>6, <1>7
<1>9. Rebuilt(base, list) = iter[DOMAIN list] BY <1>7 DEF Rebuilt, FoldLeft, MapThenFoldSet
<1>10. PICK run : run = [k \in 0..n |-> iter[1..k]] OBVIOUS
<1>11. run[0] = base
    <2>1. 1..0 = {} /\ 0 \in 0..n OBVIOUS
    <2> QED BY <1>8, <1>10, <2>1
<1>12. ASSUME NEW k \in 0..(n - 1) PROVE run[k + 1] = ResolveDepth(run[k], list[k + 1])
    <2>1. k \in Nat /\ k \in 0..n /\ k + 1 \in 0..n OBVIOUS
    <2>2. 1..(k + 1) # {} /\ 1..(k + 1) \in SUBSET (1..n) /\ Max(1..(k + 1)) = k + 1
          /\ (1..(k + 1)) \ {k + 1} = 1..k
        <3>1. Max(1..(k + 1)) = k + 1 /\ (1..(k + 1)) \ {k + 1} = 1..k BY <2>1, MaxOfRun
        <3>2. 1 \in 1..(k + 1) /\ 1..(k + 1) \subseteq 1..n OBVIOUS
        <3> QED BY <3>1, <3>2
    <2>3. iter[1..(k + 1)] = ResolveDepth(iter[1..k], list[k + 1]) BY <1>2, <1>8, <2>2
    <2> QED BY <1>10, <2>1, <2>3
<1> HIDE DEF Fold
<1>13. run \in [0..n -> Trees(S)]
    <2> DEFINE In == {k \in Nat : k <= n => run[k] \in Trees(S)}
    <2>1. 0 \in In BY <1>11
    <2>2. ASSUME NEW k \in Nat, k \in In PROVE k + 1 \in In
        <3> SUFFICES ASSUME k + 1 <= n PROVE run[k + 1] \in Trees(S) OBVIOUS
        <3>1. k \in 0..(n - 1) /\ k + 1 \in 1..n OBVIOUS
        <3>2. run[k] \in Trees(S) BY <2>2
        <3> QED BY <1>2, <1>12, <3>1, <3>2
    <2>3. \A k \in Nat : k \in In
        <3> HIDE DEF In
        <3> QED BY <2>1, <2>2, NatSetInduction
    <2> QED BY <1>10, <2>3
<1>14. Rebuilt(base, list) = run[n] BY <1>2, <1>9, <1>10
<1>15. IsRebuild(run, S, base, list, n) BY <1>11, <1>12, <1>13, <1>14 DEF IsRebuild
<1> QED BY <1>1, <1>15

-----------------------------------------------------------------------------
(* Circles are cut                                                          *)

Resolves(t, u, n, up, walked, back) ==
    /\ walked = {k \in 0..n : \A m \in 0..k : up[m] \notin t.resolved \cup {NONE}}
    /\ back = {k \in walked : \E m \in 0..(k - 1) : up[m] = up[k]}
    /\ back # {} => Min(back) \in back /\ \A k \in back : Min(back) <= k
    /\ u.parent = IF back = {} THEN t.parent ELSE [t.parent EXCEPT ![up[Min(back)]] = NONE]
    /\ u.resolved = t.resolved \cup {up[k] : k \in walked}

\* resolve_depth walks up to the first process already resolved, to the top, or round.
LEMMA ResolveDepthIs ==
    ASSUME NEW S, IsFiniteSet(S), S \subseteq Nat, NEW t \in Trees(S), NEW r \in S
    PROVE  /\ ResolveDepth(t, r) \in Trees(S)
           /\ \E n \in Nat \ {0} : \E up, walked, back :
                /\ GoesUp(up, t.parent, S, r, n)
                /\ Resolves(t, ResolveDepth(t, r), n, up, walked, back)
<1>1. t.parent \in Parents(S) /\ t.resolved \subseteq S BY DEF Trees
<1>2. PICK n \in Nat \ {0}, up \in {Chain(t.parent, r)} : up = Chain(t.parent, r) /\ GoesUp(up, t.parent, S, r, n)
    <2>1. GoesUp(Chain(t.parent, r), t.parent, S, r, Cardinality(S)) BY <1>1, ChainIs
    <2> QED BY <2>1 DEF GoesUp
<1>3. up \in [0..n -> S \cup {NONE}] BY <1>2 DEF GoesUp
<1>4. DOMAIN up = 0..n BY <1>3
<1>5. PICK walked :
        walked = {k \in DOMAIN up : \A m \in 0..k : up[m] \notin t.resolved \cup {NONE}}
    OBVIOUS
<1>6. PICK back : back = {k \in walked : \E m \in 0..(k - 1) : up[m] = up[k]} OBVIOUS
<1>7. back # {} => Min(back) \in back /\ \A k \in back : Min(back) <= k
    <2>1. back \subseteq 0..n /\ 0 \in Int /\ n \in Int BY <1>4, <1>5, <1>6
    <2> QED BY ONLY <2>1, MinIsLeast
<1>8. PICK p : p = IF back = {} THEN t.parent ELSE [t.parent EXCEPT ![up[Min(back)]] = NONE]
    OBVIOUS
<1>9. ResolveDepth(t, r) = [parent |-> p, resolved |-> t.resolved \cup {up[k] : k \in walked}]
    BY <1>2, <1>5, <1>6, <1>8 DEF ResolveDepth
<1>10. p \in Parents(S) BY <1>1, <1>8 DEF Parents
<1>11. {up[k] : k \in walked} \subseteq S
    <2> SUFFICES ASSUME NEW k \in walked PROVE up[k] \in S OBVIOUS
    <2>1. k \in 0..n /\ k \in 0..k /\ \A m \in 0..k : up[m] \notin t.resolved \cup {NONE}
        BY <1>4, <1>5
    <2> QED BY <1>3, <2>1
<1>12. ResolveDepth(t, r) \in Trees(S) BY <1>1, <1>9, <1>10, <1>11 DEF Trees
<1>13. Resolves(t, ResolveDepth(t, r), n, up, walked, back)
    <2>1. ResolveDepth(t, r).parent = p
          /\ ResolveDepth(t, r).resolved = t.resolved \cup {up[k] : k \in walked} BY <1>9
    <2> QED BY <1>4, <1>5, <1>6, <1>7, <1>8, <2>1 DEF Resolves
<1> QED BY <1>2, <1>12, <1>13

\* Of the processes resolved so far nobody is above itself, and of the circles among
\* them each has lost one parent; nothing else has.
Repaired(known, t, S) ==
    /\ t \in Trees(S)
    /\ \A x \in S : t.parent[x] \in {known[x], NONE}
    /\ \A x \in S : t.parent[x] # known[x] => x \in t.resolved /\ x \in Above(known, x)
    /\ Closed(known, t.resolved)
    /\ \A x \in t.resolved : x \notin Above(t.parent, x)
    /\ \A x \in t.resolved : x \in Above(known, x) =>
        \E c \in S : {y \in Above(known, x) : t.parent[y] # known[y]} = {c}

\* The way up ends or meets what is resolved.
LEMMA StraightUp ==
    ASSUME NEW S, IsFiniteSet(S), S \subseteq Nat, NEW known \in Parents(S), NEW t,
           Repaired(known, t, S), NEW u \in Trees(S), NEW n \in Nat \ {0}, NEW up, NEW r \in S,
           GoesUp(up, t.parent, S, r, n),
           NEW walked,
           walked = {k \in 0..n : \A m \in 0..k : up[m] \notin t.resolved \cup {NONE}},
           \A k \in walked : \A m \in 0..(k - 1) : up[m] # up[k],
           u.parent = t.parent, u.resolved = t.resolved \cup {up[k] : k \in walked}
    PROVE  Repaired(known, u, S)
<1> DEFINE P == t.parent
           R == t.resolved
<1>0. NONE \notin S BY DEF NONE
<1>1. /\ P \in Parents(S) /\ R \subseteq S /\ DOMAIN P = S /\ DOMAIN known = S
      /\ \A x \in S : known[x] \in S \cup {NONE}
    BY DEF Repaired, Trees, Parents
<1>2. /\ n = Cardinality(S) /\ up \in [0..n -> S \cup {NONE}] /\ up[0] = r
      /\ \A k \in 0..(n - 1) : up[k + 1] = IF up[k] = NONE THEN NONE ELSE P[up[k]]
    BY DEF GoesUp
<1>3. ASSUME NEW k \in walked
      PROVE  k \in 0..n /\ up[k] \in S /\ up[k] \notin R /\ \A m \in 0..k : m \in walked
    <2>1. k \in 0..n /\ k \in 0..k /\ \A m \in 0..k : up[m] \notin R \cup {NONE} OBVIOUS
    <2>2. \A m \in 0..k : m \in 0..n /\ \A l \in 0..m : l \in 0..k OBVIOUS
    <2>3. \A m \in 0..k : m \in walked BY <2>1, <2>2
    <2> QED BY <1>2, <2>1, <2>3
<1>4. \E k \in 0..n : k \notin walked
    <2> SUFFICES ASSUME \A k \in 0..n : k \in walked PROVE FALSE OBVIOUS
    <2>1. up \in [0..n -> S] BY <1>2, <1>3
    <2>2. IsFiniteSet(0..n) /\ Cardinality(0..n) = n + 1 BY FS_Interval
    <2>3. Cardinality(S) < Cardinality(0..n) BY <1>2, <2>2
    <2>4. \E x, y \in 0..n : x # y /\ up[x] = up[y] BY <2>1, <2>2, <2>3, FS_PigeonHole
    <2>5. PICK x \in 0..n, y \in 0..n : x # y /\ up[x] = up[y] BY <2>4
    <2>6. x \in 0..(y - 1) \/ y \in 0..(x - 1) BY <2>5
    <2> QED BY <2>5, <2>6
<1> DEFINE Past(k) == {up[j] : j \in {i \in walked : i > k}}
<1>5. ASSUME NEW k \in walked
      PROVE  P[up[k]] \in Past(k) \cup R \cup {NONE}
    <2>1. k # n
        <3> SUFFICES ASSUME k = n PROVE FALSE OBVIOUS
        <3> QED BY <1>3, <1>4
    <2>2. k \in 0..(n - 1) /\ k + 1 \in 0..n /\ k + 1 > k BY <1>3, <2>1
    <2>3. up[k + 1] = P[up[k]] BY <1>0, <1>2, <1>3, <2>2
    <2>4. CASE k + 1 \in walked BY <2>2, <2>3, <2>4
    <2>5. CASE k + 1 \notin walked
        <3>1. PICK m \in 0..(k + 1) : up[m] \in R \cup {NONE} BY <2>2, <2>5
        <3>2. m \notin 0..k BY <1>0, <1>1, <1>3, <3>1
        <3>3. m = k + 1 BY <2>2, <3>1, <3>2
        <3> QED BY <2>3, <3>1, <3>3
    <2> QED BY <2>4, <2>5
<1>6. \A x \in S : x \notin R => P[x] = known[x] BY DEF Repaired
<1>7. Closed(known, R) /\ Closed(P, R) BY <1>1 DEF Closed, Repaired
<1>8. ASSUME NEW k \in walked, NEW Q \in {P, known} PROVE up[k] \notin Above(Q, up[k])
    <2>1. up[k] \in S /\ up[k] \notin R BY <1>3
    <2> DEFINE T == Past(k) \cup R
    <2>2. \A j \in walked : Q[up[j]] = P[up[j]] BY <1>3, <1>6
    <2>3. ASSUME NEW x \in T PROVE Q[x] \in T \cup {NONE}
        <3>1. CASE x \in R BY <1>1, <1>7, <3>1 DEF Closed
        <3>2. CASE x \notin R
            <4>1. PICK j \in walked : j > k /\ x = up[j] BY <2>3, <3>2
            <4>2. P[up[j]] \in Past(j) \cup R \cup {NONE} BY <1>5
            <4>3. Past(j) \subseteq Past(k)
                <5>1. j \in Int /\ k \in Int /\ \A i \in walked : i \in Int BY <1>3
                <5> QED BY <4>1, <5>1
            <4> QED BY <2>2, <4>1, <4>2, <4>3
        <3> QED BY <3>1, <3>2
    <2>4. Q[up[k]] \in T \cup {NONE} BY <1>5, <2>2
    <2>5. up[k] \notin T
        <3> SUFFICES ASSUME NEW j \in walked, j > k, up[j] = up[k] PROVE FALSE BY <2>1
        <3>1. j \in 0..n /\ k \in 0..n BY <1>3
        <3>2. k \in 0..(j - 1) BY <3>1
        <3> QED BY <3>2
    <2>6. Above(Q, up[k]) \subseteq T
        <3>1. PICK U, x : U = T /\ x = up[k] OBVIOUS
        <3>2. Closed(Q, U) /\ Q[x] \in U \cup {NONE} /\ x \in S BY <2>1, <2>3, <2>4, <3>1 DEF Closed
        <3>3. Q \in Parents(S) BY <1>1
        <3>4. Above(Q, x) \subseteq U
            BY ONLY <3>2, <3>3, IsFiniteSet(S), S \subseteq Nat, AboveIs
        <3> QED BY <3>1, <3>4
    <2> QED BY <2>5, <2>6
<1>9. Closed(known, u.resolved)
    <2> SUFFICES ASSUME NEW x \in u.resolved PROVE known[x] \in u.resolved \cup {NONE}
        BY DEF Closed
    <2>1. CASE x \in R BY <1>1, <1>7, <2>1 DEF Closed
    <2>2. CASE x \notin R
        <3>1. PICK k \in walked : x = up[k] BY <2>2
        <3>2. known[x] = P[up[k]] BY <1>3, <1>6, <3>1
        <3> QED BY <1>5, <3>2
    <2> QED BY <2>1, <2>2
<1>10. \A x \in S : u.parent[x] \in {known[x], NONE} BY DEF Repaired
<1>11. \A x \in S : u.parent[x] # known[x] => x \in u.resolved /\ x \in Above(known, x)
    BY DEF Repaired
<1>12. ASSUME NEW x \in u.resolved
       PROVE  /\ x \notin Above(u.parent, x)
              /\ x \in Above(known, x) =>
                    \E c \in S : {y \in Above(known, x) : u.parent[y] # known[y]} = {c}
    <2>1. CASE x \in R BY <2>1 DEF Repaired
    <2>2. CASE x \notin R
        <3>1. PICK k \in walked : x = up[k] BY <2>2
        <3> QED BY <1>8, <3>1
    <2> QED BY <2>1, <2>2
<1> QED BY <1>9, <1>10, <1>11, <1>12 DEF Repaired

\* The way up comes back: that to which it comes back first loses its parent.
ComesBack(t, u, S, up, b, m) ==
    /\ b \in Nat /\ m \in 0..(b - 1) /\ up[b] = up[m]
    /\ \A j \in 0..b : up[j] \in S /\ up[j] \notin t.resolved
    /\ \A j \in 0..(b - 1) : up[j + 1] = t.parent[up[j]]
    /\ \A i, j \in 0..(b - 1) : i # j => up[i] # up[j]
    /\ u.parent = [t.parent EXCEPT ![up[b]] = NONE]
    /\ u.resolved = t.resolved \cup {up[j] : j \in 0..(b - 1)}

\* When it comes round, cutting the link it came back to leaves the forest repaired.
LEMMA CircleIsCut ==
    ASSUME NEW S, IsFiniteSet(S), S \subseteq Nat, NEW known \in Parents(S), NEW t,
           Repaired(known, t, S), NEW u \in Trees(S),
           NEW b \in Nat, NEW m \in 0..(b - 1), NEW up, ComesBack(t, u, S, up, b, m)
    PROVE  Repaired(known, u, S)
<1> USE DEF ComesBack
<1> PICK c : c = up[b] OBVIOUS
<1> DEFINE P == t.parent
           Q == u.parent
           R == t.resolved
           W == {up[j] : j \in 0..(b - 1)}
<1>0. NONE \notin S BY DEF NONE
<1>1. /\ P \in Parents(S) /\ Q \in Parents(S) /\ R \subseteq S
      /\ DOMAIN P = S /\ DOMAIN Q = S /\ DOMAIN known = S
      /\ \A x \in S : known[x] \in S \cup {NONE} /\ P[x] \in {known[x], NONE}
    BY DEF Repaired, Trees, Parents
<1>2. \A x \in S : Q[x] = IF x = c THEN NONE ELSE P[x] BY <1>1
<1>3. c \in S /\ c \notin R /\ m \in Nat /\ m < b /\ c \in W
    <2>1. b \in 0..b OBVIOUS
    <2> QED BY <2>1
<1>4. \A x \in S : x \notin R => P[x] = known[x] BY DEF Repaired
<1>5. \A j \in 0..(b - 1) :
        j \in 0..b /\ j + 1 \in 0..b /\ up[j] \in S /\ known[up[j]] = up[j + 1] /\ P[up[j]] = up[j + 1]
    <2> SUFFICES ASSUME NEW j \in 0..(b - 1)
                 PROVE  j \in 0..b /\ j + 1 \in 0..b /\ up[j] \in S /\ known[up[j]] = up[j + 1]
                        /\ P[up[j]] = up[j + 1]
        OBVIOUS
    <2>1. j \in 0..b /\ j + 1 \in 0..b OBVIOUS
    <2> QED BY <1>4, <2>1
<1>6. \A j \in 0..b : up[j] \in W
    <2> SUFFICES ASSUME NEW j \in 0..b PROVE up[j] \in W OBVIOUS
    <2>1. j = b \/ j \in 0..(b - 1) OBVIOUS
    <2> QED BY <1>3, <2>1
<1>7. W \subseteq S /\ \A x \in W : x \notin R /\ known[x] \in W /\ P[x] = known[x]
    BY <1>5, <1>6
<1>8. known[c] \in S /\ P[c] = known[c] BY <1>3, <1>7
<1>9. Closed(known, R) /\ Closed(P, R) BY <1>1 DEF Closed, Repaired
<1>10. Closed(known, u.resolved)
    <2>1. Closed(known, W) BY <1>7 DEF Closed
    <2> QED BY <1>9, <2>1 DEF Closed

\* From everywhere in the circle or on the way to it, c is above.
<1>11. ASSUME NEW x \in W PROVE c \in Above(known, x)
    <2>1. PICK k \in 0..(b - 1) : x = up[k] BY <1>11
    <2>2. x \in S BY <1>7
    <2>3. Closed(known, Above(known, x)) /\ known[x] \in Above(known, x) \cup {NONE}
          /\ Above(known, x) \subseteq S
        BY <2>2, AboveIs
    <2> DEFINE In == {j \in Nat : k + 1 + j <= b => up[k + 1 + j] \in Above(known, x)}
    <2>4. 0 \in In
        <3>1. known[x] \in Above(known, x) BY <1>0, <1>7, <2>3
        <3>2. k + 1 + 0 = k + 1 OBVIOUS
        <3> QED BY <1>5, <2>1, <3>1, <3>2
    <2>5. ASSUME NEW j \in Nat, j \in In PROVE j + 1 \in In
        <3> SUFFICES ASSUME k + 1 + (j + 1) <= b PROVE up[k + 1 + (j + 1)] \in Above(known, x)
            OBVIOUS
        <3>1. k + 1 + j \in 0..(b - 1) /\ k + 1 + (j + 1) = (k + 1 + j) + 1 OBVIOUS
        <3>2. up[k + 1 + j] \in Above(known, x) BY <2>5
        <3>3. known[up[k + 1 + j]] = up[(k + 1 + j) + 1] /\ up[(k + 1 + j) + 1] \in S BY <1>5, <3>1
        <3> QED BY <1>0, <1>1, <2>3, <3>1, <3>2, <3>3 DEF Closed
    <2>6. \A j \in Nat : j \in In
        <3> HIDE DEF In
        <3> QED BY <2>4, <2>5, NatSetInduction
    <2>7. b - (k + 1) \in Nat /\ k + 1 + (b - (k + 1)) = b OBVIOUS
    <2>8. b - (k + 1) \in In BY <2>6, <2>7
    <2> QED BY <2>7, <2>8
<1>12. \A x \in S : Q[x] \in {known[x], NONE} BY <1>1, <1>2
<1>13. ASSUME NEW x \in S, Q[x] # known[x] PROVE x \in u.resolved /\ x \in Above(known, x)
    <2>1. CASE x = c BY <1>3, <1>11, <2>1
    <2>2. CASE x # c
        <3>1. P[x] # known[x] BY <1>2, <1>13, <2>2
        <3> QED BY <3>1 DEF Repaired
    <2> QED BY <2>1, <2>2
<1>14. ASSUME NEW x \in u.resolved PROVE x \notin Above(Q, x)
    <2>1. CASE x \in R
        <3>1. x \notin Above(P, x) BY <2>1 DEF Repaired
        <3>2. Above(Q, x) \subseteq Above(P, x)
            <4>1. \A y \in S : Q[y] \in {P[y], NONE} BY <1>2
            <4>2. x \in S BY <1>1, <2>1
            <4> HIDE DEF P, Q
            <4> QED BY <1>1, <4>1, <4>2, LessAbove
        <3> QED BY <3>1, <3>2
    <2>2. CASE x = c
        <3>1. Q[x] = NONE BY <1>2, <1>3, <2>2
        <3>2. Above(Q, x) = {}
            <4>1. x \in S BY <1>3, <2>2
            <4> HIDE DEF Q
            <4> QED BY <1>1, <3>1, <4>1, AboveStep
        <3> QED BY <3>2
    <2>3. CASE x \notin R /\ x # c
        <3>1. PICK k \in 0..(b - 1) : x = up[k] BY <2>3
        <3> DEFINE T == {up[j] : j \in (k + 1)..b}
        <3>2. ASSUME NEW y \in T PROVE Q[y] \in T \cup {NONE}
            <4>1. PICK j \in (k + 1)..b : y = up[j] BY <3>2
            <4>2. CASE y = c BY <1>2, <1>3, <4>2
            <4>3. CASE y # c
                <5>1. j # b BY <4>1, <4>3
                <5>2. j \in 0..(b - 1) /\ j + 1 \in (k + 1)..b BY <5>1
                <5>3. y \in S /\ P[y] = up[j + 1] BY <1>5, <4>1, <5>2
                <5> QED BY <1>2, <4>3, <5>2, <5>3
            <4> QED BY <4>2, <4>3
        <3>3. x \notin T
            <4> SUFFICES ASSUME NEW j \in (k + 1)..b, x = up[j] PROVE FALSE OBVIOUS
            <4>1. j # b BY <2>3
            <4>2. j \in 0..(b - 1) /\ j # k BY <4>1
            <4> QED BY <3>1, <4>2
        <3>4. x \in S /\ Q[x] \in T \cup {NONE}
            <4>1. k + 1 \in (k + 1)..b OBVIOUS
            <4>2. x \in S /\ P[x] = up[k + 1] BY <1>5, <3>1
            <4> QED BY <1>2, <4>1, <4>2
        <3>5. Above(Q, x) \subseteq T
            <4>1. PICK U, p : U = T /\ p = Q OBVIOUS
            <4>2. Closed(p, U) /\ p[x] \in U \cup {NONE} /\ p \in Parents(S)
                BY <1>1, <3>2, <3>4, <4>1 DEF Closed
            <4>3. x \in S BY <3>4
            <4>4. Above(p, x) \subseteq U
                BY ONLY <4>2, <4>3, IsFiniteSet(S), S \subseteq Nat, AboveIs
            <4> QED BY <4>1, <4>4
        <3> QED BY <3>3, <3>5
    <2> QED BY <2>1, <2>2, <2>3
<1>15. ASSUME NEW x \in u.resolved, x \in Above(known, x)
       PROVE  \E d \in S : {y \in Above(known, x) : Q[y] # known[y]} = {d}
    <2>1. x \in S BY <1>1, <1>7
    <2>2. Above(known, x) \subseteq S
          /\ \A T : Closed(known, T) /\ known[x] \in T \cup {NONE} => Above(known, x) \subseteq T
        BY <2>1, AboveIs
    <2>3. CASE x \in R
        <3>1. known[x] \in R \cup {NONE} BY <1>1, <1>9, <2>3 DEF Closed
        <3>2. Above(known, x) \subseteq R BY <1>9, <2>2, <3>1
        <3>3. {y \in Above(known, x) : Q[y] # known[y]} = {y \in Above(known, x) : P[y] # known[y]}
            BY <1>1, <1>2, <1>3, <3>2
        <3>4. \E d \in S : {y \in Above(known, x) : P[y] # known[y]} = {d}
            BY <1>15, <2>3 DEF Repaired
        <3> QED BY <3>3, <3>4
    <2>4. CASE x \in W
        <3>1. Closed(known, W) /\ known[x] \in W BY <1>7, <2>4 DEF Closed
        <3>2. Above(known, x) \subseteq W BY <2>2, <3>1
        <3>3. \A y \in W : Q[y] # known[y] <=> y = c BY <1>0, <1>2, <1>7, <1>8
        <3>4. c \in Above(known, x) BY <1>11, <2>4
        <3> QED BY <1>3, <3>2, <3>3, <3>4
    <2> QED BY <1>15, <2>3, <2>4
<1>16. \A x \in S : Q[x] # known[x] => x \in u.resolved /\ x \in Above(known, x) BY <1>13
<1>17. \A x \in u.resolved : x \in Above(known, x) =>
        \E d \in S : {y \in Above(known, x) : Q[y] # known[y]} = {d}
    BY <1>15
<1> QED BY <1>10, <1>12, <1>14, <1>16, <1>17 DEF Repaired

\* resolve_depth resolves its process and keeps what was repaired before.
LEMMA ResolveDepthRepairs ==
    ASSUME NEW S, IsFiniteSet(S), S \subseteq Nat, NEW known \in Parents(S), NEW t,
           Repaired(known, t, S), NEW r \in S
    PROVE  /\ Repaired(known, ResolveDepth(t, r), S)
           /\ t.resolved \cup {r} \subseteq ResolveDepth(t, r).resolved
<1>0. NONE \notin S BY DEF NONE
<1>1. t \in Trees(S) BY DEF Repaired
<1>2. PICK u : u = ResolveDepth(t, r) OBVIOUS
<1>3. u \in Trees(S) BY <1>1, <1>2, ResolveDepthIs
<1>d. PICK n \in Nat \ {0} : \E up, walked, back :
        GoesUp(up, t.parent, S, r, n) /\ Resolves(t, u, n, up, walked, back)
    BY <1>1, <1>2, ResolveDepthIs
<1>4. PICK up, walked, back :
        GoesUp(up, t.parent, S, r, n) /\ Resolves(t, u, n, up, walked, back)
    BY <1>d
<1>5. walked = {k \in 0..n : \A m \in 0..k : up[m] \notin t.resolved \cup {NONE}}
      /\ back = {k \in walked : \E m \in 0..(k - 1) : up[m] = up[k]}
    BY <1>4 DEF Resolves
<1>6. u.resolved = t.resolved \cup {up[k] : k \in walked} BY <1>4 DEF Resolves
<1>7. up \in [0..n -> S \cup {NONE}] /\ up[0] = r
      /\ \A k \in 0..(n - 1) : up[k + 1] = IF up[k] = NONE THEN NONE ELSE t.parent[up[k]]
    BY <1>4 DEF GoesUp
<1>8. t.resolved \cup {r} \subseteq u.resolved
    <2>1. CASE r \in t.resolved BY <1>6, <2>1
    <2>2. CASE r \notin t.resolved
        <3>1. 0 \in 0..n /\ \A m \in 0..0 : m = 0 OBVIOUS
        <3>2. 0 \in walked BY <1>0, <1>5, <1>7, <2>2, <3>1
        <3> QED BY <1>6, <1>7, <3>2
    <2> QED BY <2>1, <2>2
<1>9. Repaired(known, u, S)
    <2>1. CASE back = {}
        <3>1. u.parent = t.parent BY <1>4, <2>1 DEF Resolves
        <3>2. \A k \in walked : \A m \in 0..(k - 1) : up[m] # up[k] BY <1>5, <2>1
        <3> QED BY <1>3, <1>4, <1>5, <1>6, <3>1, <3>2, StraightUp
    <2>2. CASE back # {}
        <3>1. PICK b : b = Min(back) OBVIOUS
        <3>2. b \in back /\ (\A k \in back : b <= k)
              /\ u.parent = [t.parent EXCEPT ![up[b]] = NONE]
            BY <1>4, <2>2, <3>1 DEF Resolves
        <3>3. b \in 0..n /\ \A m \in 0..b : up[m] \notin t.resolved \cup {NONE} BY <1>5, <3>2
        <3>4. PICK m \in 0..(b - 1) : up[m] = up[b] BY <1>5, <3>2
        <3>5. b \in Nat /\ \A j \in 0..b : j \in 0..n /\ up[j] \in S /\ up[j] \notin t.resolved
            BY <1>7, <3>3
        <3>6. \A j \in 0..(b - 1) : j \in 0..(n - 1) /\ j \in 0..b BY <3>3
        <3>7. \A j \in 0..(b - 1) : up[j + 1] = t.parent[up[j]] BY <1>0, <1>7, <3>5, <3>6
        <3>8. \A j \in 0..b : j \in walked
            <4> SUFFICES ASSUME NEW j \in 0..b PROVE j \in walked OBVIOUS
            <4>1. \A i \in 0..j : i \in 0..b BY <3>5
            <4> QED BY <1>5, <3>3, <3>5, <4>1
        <3>9. ASSUME NEW i \in 0..(b - 1), NEW j \in 0..(b - 1), i # j PROVE up[i] # up[j]
            <4>1. ASSUME NEW k \in 0..(b - 1), NEW l \in 0..(k - 1) PROVE up[l] # up[k]
                <5> SUFFICES ASSUME up[l] = up[k] PROVE FALSE OBVIOUS
                <5>1. k \in walked BY <3>6, <3>8
                <5>2. k \in back BY <1>5, <5>1
                <5>3. b <= k BY <3>2, <5>2
                <5> QED BY <3>5, <5>3
            <4>2. i \in 0..(j - 1) \/ j \in 0..(i - 1) BY <3>9
            <4> QED BY <4>1, <4>2
        <3>10. {up[k] : k \in walked} = {up[j] : j \in 0..(b - 1)}
            <4> DEFINE W == {up[j] : j \in 0..(b - 1)}
                       In == {k \in Nat : k \in walked => up[k] \in W}
            <4>1. W \subseteq {up[k] : k \in walked} BY <3>6, <3>8
            <4>2. 0 \in In
                <5>1. 0 \in 0..(b - 1) BY <3>4, <3>5
                <5> QED BY <5>1
            <4>3. ASSUME NEW k \in Nat, k \in In PROVE k + 1 \in In
                <5> SUFFICES ASSUME k + 1 \in walked PROVE up[k + 1] \in W OBVIOUS
                <5>1. k + 1 \in 0..n /\ \A l \in 0..(k + 1) : up[l] \notin t.resolved \cup {NONE}
                    BY <1>5
                <5>2. k \in 0..(n - 1) /\ k \in 0..n /\ \A l \in 0..k : l \in 0..(k + 1) BY <5>1
                <5>3. k \in walked BY <1>5, <5>1, <5>2
                <5>4. PICK j \in 0..(b - 1) : up[k] = up[j] BY <4>3, <5>3
                <5>5. up[k + 1] = t.parent[up[k]]
                    <6>1. k \in 0..(k + 1) OBVIOUS
                    <6> QED BY <1>7, <5>1, <5>2, <6>1
                <5>6. up[k + 1] = up[j + 1] BY <3>7, <5>4, <5>5
                <5>7. j + 1 \in 0..(b - 1) \/ j + 1 = b BY <3>5
                <5> QED BY <3>4, <5>6, <5>7
            <4>4. \A k \in Nat : k \in In
                <5> HIDE DEF In
                <5> QED BY <4>2, <4>3, NatSetInduction
            <4>5. \A k \in walked : k \in Nat BY <1>5
            <4> QED BY <4>1, <4>4, <4>5
        <3>11. u.resolved = t.resolved \cup {up[j] : j \in 0..(b - 1)} BY <1>6, <3>10
        <3>12. \A j \in 0..b : up[j] \in S /\ up[j] \notin t.resolved BY <3>5
        <3>13. \A i, j \in 0..(b - 1) : i # j => up[i] # up[j] BY <3>9
        <3>14. u.parent = [t.parent EXCEPT ![up[b]] = NONE] BY <3>2
        <3>15. up[b] = up[m] /\ b \in Nat /\ m \in 0..(b - 1) BY <3>4, <3>5
        <3>16. ComesBack(t, u, S, up, b, m)
            BY ONLY <3>7, <3>11, <3>12, <3>13, <3>14, <3>15 DEF ComesBack
        <3> QED BY <1>3, <3>15, <3>16, CircleIsCut
    <2> QED BY <2>1, <2>2
<1> QED BY <1>2, <1>8, <1>9

\* The members of a list of numbers are finitely many.
LEMMA ListIsFinite ==
    ASSUME NEW list \in Seq(Nat)
    PROVE  /\ IsFiniteSet(ToSet(list)) /\ ToSet(list) \subseteq Nat /\ list \in Seq(ToSet(list))
           /\ Cardinality(ToSet(list)) <= Len(list)
<1>1. PICK n \in Nat : n = Len(list) OBVIOUS
<1>2. DOMAIN list = 1..n /\ \A i \in 1..n : list[i] \in Nat BY <1>1
<1>3. PICK S : S = ToSet(list) OBVIOUS
<1>4. S = {list[i] : i \in 1..n} BY <1>2, <1>3 DEF ToSet
<1>5. list \in [1..n -> S]
    <2>1. list = [i \in 1..n |-> list[i]] BY <1>1
    <2> QED BY <1>4, <2>1
<1>6. list \in Surjection(1..n, S) BY <1>4, <1>5 DEF Surjection
<1>7. IsFiniteSet(1..n) /\ Cardinality(1..n) = n BY FS_Interval
<1>8. IsFiniteSet(S) /\ Cardinality(S) <= n BY <1>6, <1>7, FS_Surjection
<1>9. list \in Seq(S) BY <1>5
<1> QED BY <1>1, <1>2, <1>3, <1>4, <1>8, <1>9

\* process_rows.rs, rebuild: whatever parents a list comes with, what is left is a forest
\* in which each circle has lost one parent, and nothing else has.
LEMMA RebuildRepairs ==
    ASSUME NEW list \in Seq(Nat), NEW parent_of
    PROVE  /\ Known(list, parent_of) \in Parents(ToSet(list))
           /\ Repaired(Known(list, parent_of),
                       [parent |-> Rebuild(list, parent_of), resolved |-> ToSet(list)], ToSet(list))
<1>1. PICK S, known : S = ToSet(list) /\ known = Known(list, parent_of) OBVIOUS
<1>2. IsFiniteSet(S) /\ S \subseteq Nat /\ list \in Seq(S) BY <1>1, ListIsFinite
<1>3. known \in Parents(S) BY <1>1 DEF Known, Parents
<1>4. PICK base : base = [parent |-> known, resolved |-> {}] OBVIOUS
<1>5. base \in Trees(S) BY <1>3, <1>4 DEF Trees
<1>6. Repaired(known, base, S) BY <1>4, <1>5 DEF Repaired, Closed
<1>7. \A t \in Trees(S), r \in S : ResolveDepth(t, r) \in Trees(S) BY <1>2, ResolveDepthIs
<1>8. PICK n \in Nat : n = Len(list) OBVIOUS
<1>9. PICK run \in [0..n -> Trees(S)] : IsRebuild(run, S, base, list, n)
    <2>1. \E run : IsRebuild(run, S, base, list, n) BY <1>2, <1>5, <1>7, <1>8, RebuildIs
    <2> QED BY <2>1 DEF IsRebuild
<1>91. /\ run[0] = base
       /\ \A k \in 0..(n - 1) : run[k + 1] = ResolveDepth(run[k], list[k + 1])
       /\ Rebuilt(base, list) = run[n]
    BY <1>9 DEF IsRebuild
<1>10. \A i \in 1..n : list[i] \in S BY <1>2, <1>8
<1> DEFINE In == {k \in Nat : k <= n => /\ Repaired(known, run[k], S)
                                        /\ \A i \in 1..k : list[i] \in run[k].resolved}
<1>11. 0 \in In BY <1>6, <1>91
<1>12. ASSUME NEW k \in Nat, k \in In PROVE k + 1 \in In
    <2> SUFFICES ASSUME k + 1 <= n
                 PROVE  /\ Repaired(known, run[k + 1], S)
                        /\ \A i \in 1..(k + 1) : list[i] \in run[k + 1].resolved
        OBVIOUS
    <2>1. k \in 0..(n - 1) /\ k + 1 \in 1..n OBVIOUS
    <2>2. PICK t, r : t = run[k] /\ r = list[k + 1] OBVIOUS
    <2>3. Repaired(known, t, S) /\ (\A i \in 1..k : list[i] \in t.resolved) /\ r \in S
        BY <1>10, <1>12, <2>1, <2>2
    <2>4. run[k + 1] = ResolveDepth(t, r) BY <1>91, <2>1, <2>2
    <2>5. Repaired(known, ResolveDepth(t, r), S)
          /\ t.resolved \cup {r} \subseteq ResolveDepth(t, r).resolved
        BY <1>2, <1>3, <2>3, ResolveDepthRepairs
    <2>6. \A i \in 1..(k + 1) : i \in 1..k \/ i = k + 1 OBVIOUS
    <2> QED BY <2>2, <2>3, <2>4, <2>5, <2>6
<1>13. \A k \in Nat : k \in In
    <2> HIDE DEF In
    <2> QED BY <1>11, <1>12, NatSetInduction
<1>14. Repaired(known, run[n], S) /\ \A i \in 1..n : list[i] \in run[n].resolved
    <2>1. n \in In BY <1>13
    <2> QED BY <2>1
<1>15. PICK p, R : p = run[n].parent /\ R = run[n].resolved OBVIOUS
<1>16. run[n] = [parent |-> p, resolved |-> R] /\ R \subseteq S
    <2>1. n \in 0..n OBVIOUS
    <2>2. run[n] \in Trees(S) BY <2>1
    <2> QED BY <1>15, <2>2 DEF Trees
<1>17. R = S
    <2>1. DOMAIN list = 1..n BY <1>8
    <2>2. S = {list[i] : i \in 1..n} BY <1>1, <2>1 DEF ToSet
    <2> QED BY <1>14, <1>15, <1>16, <2>2
<1>18. Rebuild(list, parent_of) = p
    <2>1. Rebuild(list, parent_of) = Rebuilt(base, list).parent
        BY <1>1, <1>4 DEF Rebuild, Rebuilt, FoldLeft, MapThenFoldSet
    <2> QED BY <1>91, <1>15, <2>1
<1> QED BY <1>1, <1>3, <1>14, <1>16, <1>17, <1>18

-----------------------------------------------------------------------------
(* Arrangements                                                             *)

StrictOrder(S, before) ==
    /\ \A a \in S : <<a, a>> \notin before
    /\ \A a, b \in S : a = b \/ <<a, b>> \in before \/ <<b, a>> \in before
    /\ \A a, b, c \in S : <<a, b>> \in before /\ <<b, c>> \in before => <<a, c>> \in before

\* Every member of a set once, in order.
Arranges(list, S, before, n) ==
    /\ n \in Nat /\ n = Cardinality(S) /\ list \in [1..n -> S]
    /\ \A i, j \in 1..n : i < j => <<list[i], list[j]>> \in before
    /\ \A r \in S : \E i \in 1..n : list[i] = r

Nth(S, before, i) == CHOOSE r \in S : Cardinality({k \in S : <<k, r>> \in before}) = i - 1

\* Arranged(S, before) goes through S in the order it is given.
LEMMA ArrangedIs ==
    ASSUME NEW S, IsFiniteSet(S), NEW before, StrictOrder(S, before)
    PROVE  Arranges(Arranged(S, before), S, before, Cardinality(S))
<1> DEFINE Earlier(r) == {k \in S : <<k, r>> \in before}
<1>1. PICK n \in Nat : n = Cardinality(S) BY FS_CardinalityType
<1>2. ASSUME NEW r \in S PROVE IsFiniteSet(Earlier(r)) /\ Cardinality(Earlier(r)) \in 0..(n - 1)
    <2>1. Earlier(r) \subseteq S /\ r \notin Earlier(r) BY DEF StrictOrder
    <2>2. IsFiniteSet(Earlier(r)) /\ Cardinality(Earlier(r)) <= n
          /\ (Cardinality(S) = Cardinality(Earlier(r)) => S = Earlier(r))
        BY <1>1, <2>1, FS_Subset
    <2>3. Cardinality(Earlier(r)) \in Nat BY <2>2, FS_CardinalityType
    <2>4. Cardinality(Earlier(r)) # n BY <1>1, <2>1, <2>2
    <2> QED BY <2>2, <2>3, <2>4
<1>3. PICK rank : rank = [r \in S |-> Cardinality(Earlier(r))] OBVIOUS
<1>4. \A r \in S : rank[r] = Cardinality(Earlier(r)) /\ rank[r] \in 0..(n - 1) BY <1>2, <1>3
<1>5. ASSUME NEW a \in S, NEW b \in S, <<a, b>> \in before PROVE rank[a] < rank[b]
    <2>1. Earlier(a) \subseteq Earlier(b) /\ a \in Earlier(b) /\ a \notin Earlier(a)
        BY <1>5 DEF StrictOrder
    <2>2. IsFiniteSet(Earlier(b)) BY <1>2
    <2>3. Cardinality(Earlier(a)) <= Cardinality(Earlier(b))
          /\ (Cardinality(Earlier(b)) = Cardinality(Earlier(a)) => Earlier(b) = Earlier(a))
        BY <2>1, <2>2, FS_Subset
    <2>4. rank[a] <= rank[b] /\ rank[a] # rank[b] BY <1>4, <2>1, <2>3
    <2>5. rank[a] \in 0..(n - 1) /\ rank[b] \in 0..(n - 1) BY <1>4
    <2> QED BY <2>4, <2>5
<1>6. \A a, b \in S : rank[a] = rank[b] => a = b
    <2> SUFFICES ASSUME NEW a \in S, NEW b \in S, rank[a] = rank[b], a # b PROVE FALSE OBVIOUS
    <2>1. <<a, b>> \in before \/ <<b, a>> \in before BY DEF StrictOrder
    <2>2. rank[a] < rank[b] \/ rank[b] < rank[a] BY <1>5, <2>1
    <2>3. rank[a] \in 0..(n - 1) /\ rank[b] \in 0..(n - 1) BY <1>4
    <2> QED BY <2>2, <2>3
<1>7. \A i \in 0..(n - 1) : \E r \in S : rank[r] = i
    <2>1. IsFiniteSet(0..(n - 1)) /\ Cardinality(0..(n - 1)) = n
        <3>1. 0..(n - 1) = {} \/ n # 0 OBVIOUS
        <3> QED BY <3>1, FS_Interval, FS_EmptySet
    <2>2. rank \in [S -> 0..(n - 1)] BY <1>3, <1>4
    <2>3. rank \in Injection(S, 0..(n - 1)) BY <1>6, <2>2 DEF Injection, IsInjective
    <2>4. rank \in Surjection(S, 0..(n - 1)) BY <1>1, <2>1, <2>3, FS_Injection
    <2> QED BY <2>4 DEF Surjection
<1>8. PICK list : list = Arranged(S, before) OBVIOUS
<1>9. list = [i \in 1..n |-> Nth(S, before, i)] BY <1>1, <1>8 DEF Arranged, Nth
<1>10. ASSUME NEW i \in 1..n PROVE list[i] \in S /\ rank[list[i]] = i - 1
    <2>1. i - 1 \in 0..(n - 1) OBVIOUS
    <2>2. \E r \in S : Cardinality(Earlier(r)) = i - 1 BY <1>4, <1>7, <2>1
    <2>3. list[i] = CHOOSE r \in S : Cardinality(Earlier(r)) = i - 1 BY <1>9 DEF Nth
    <2>4. list[i] \in S /\ Cardinality(Earlier(list[i])) = i - 1 BY <2>2, <2>3
    <2> QED BY <1>4, <2>4
<1>11. list \in [1..n -> S]
    <2>1. list = [i \in 1..n |-> list[i]] BY <1>9
    <2> QED BY <1>10, <2>1
<1>12. ASSUME NEW i \in 1..n, NEW j \in 1..n, i < j PROVE <<list[i], list[j]>> \in before
    <2>1. list[i] \in S /\ list[j] \in S /\ rank[list[i]] = i - 1 /\ rank[list[j]] = j - 1 BY <1>10
    <2>2. ~(j - 1 < i - 1) /\ i - 1 # j - 1 BY <1>12
    <2>3. <<list[j], list[i]>> \notin before BY <1>5, <2>1, <2>2
    <2>4. list[i] # list[j] BY <2>1, <2>2
    <2> QED BY <2>1, <2>3, <2>4 DEF StrictOrder
<1>13. ASSUME NEW r \in S PROVE \E i \in 1..n : list[i] = r
    <2>1. rank[r] + 1 \in 1..n /\ (rank[r] + 1) - 1 = rank[r]
        <3>1. PICK k \in 0..(n - 1) : k = rank[r] BY <1>4
        <3>2. k + 1 \in 1..n /\ (k + 1) - 1 = k BY ONLY n \in Nat, k \in 0..(n - 1)
        <3> QED BY <3>1, <3>2
    <2>2. rank[list[rank[r] + 1]] = rank[r] /\ list[rank[r] + 1] \in S BY <1>10, <2>1
    <2>3. list[rank[r] + 1] = r BY <1>6, <2>2
    <2> QED BY <2>1, <2>3
<1> QED BY <1>1, <1>8, <1>11, <1>12, <1>13 DEF Arranges

\* and holds every member once.
LEMMA ArrangesOnce ==
    ASSUME NEW S, NEW before, StrictOrder(S, before), NEW list, NEW n,
           Arranges(list, S, before, n)
    PROVE  /\ \A i, j \in 1..n : list[i] = list[j] => i = j
           /\ list \in Seq(S) /\ Len(list) = n /\ DOMAIN list = 1..n
<1>1. n \in Nat /\ list \in [1..n -> S]
      /\ \A i, j \in 1..n : i < j => <<list[i], list[j]>> \in before
    BY DEF Arranges
<1>2. ASSUME NEW i \in 1..n, NEW j \in 1..n, list[i] = list[j], i # j PROVE FALSE
    <2>1. i < j \/ j < i BY <1>1, <1>2
    <2>2. <<list[i], list[j]>> \in before \/ <<list[j], list[i]>> \in before BY <1>1, <2>1
    <2>3. list[i] \in S BY <1>1
    <2> QED BY <1>2, <2>2, <2>3 DEF StrictOrder
<1>3. list \in Seq(S) /\ Len(list) = n /\ DOMAIN list = 1..n BY <1>1
<1> QED BY <1>2, <1>3

\* The deepest first: whoever has a parent comes before it.
ChildrenFirst(list, P, S, n) ==
    /\ n \in Nat /\ list \in Seq(S) /\ list \in [1..n -> S] /\ Len(list) = n /\ DOMAIN list = 1..n
    /\ \A i, j \in 1..n : list[i] = list[j] => i = j
    /\ \A r \in S : \E i \in 1..n : list[i] = r
    /\ \A i, j \in 1..n : P[list[i]] = list[j] => i < j

\* rollups' order: no process comes before one of its children.
LEMMA ByDepthIs ==
    ASSUME NEW S, IsFiniteSet(S), S \subseteq Nat, NEW P \in Parents(S), Forest(P)
    PROVE  ChildrenFirst(ByDepth(P), P, S, Cardinality(S))
<1>0. DOMAIN P = S /\ NONE \notin S BY DEF Parents, NONE
<1> DEFINE Sooner(a, b) == a[2] > b[2] \/ (a[2] = b[2] /\ a[1] < b[1])
           pairs == {e \in Depths(P) \X Depths(P) : Sooner(e[1], e[2])}
<1>1. PICK before : before = {<<e[1][1], e[2][1]>> : e \in pairs} OBVIOUS
<1>2. PICK deep : deep = [r \in S |-> Depth(P, r)] OBVIOUS
<1>3. \A r \in S : deep[r] \in Nat /\ deep[r] = Depth(P, r) BY <1>2, DepthFalls
<1>4. \A a, b \in S : <<a, b>> \in before <=> deep[a] > deep[b] \/ (deep[a] = deep[b] /\ a < b)
    <2> SUFFICES ASSUME NEW a \in S, NEW b \in S
                 PROVE  <<a, b>> \in before <=> deep[a] > deep[b] \/ (deep[a] = deep[b] /\ a < b)
        OBVIOUS
    <2>1. PICK da, db : da = <<a, deep[a]>> /\ db = <<b, deep[b]>> OBVIOUS
    <2>2. da[1] = a /\ da[2] = deep[a] /\ db[1] = b /\ db[2] = deep[b] BY <2>1
    <2>3. da \in Depths(P) /\ db \in Depths(P) BY <1>0, <1>3, <2>1 DEF Depths
    <2>4. ASSUME Sooner(da, db) PROVE <<a, b>> \in before
        <3>1. PICK e : e = <<da, db>> OBVIOUS
        <3>2. e \in Depths(P) \X Depths(P) /\ e[1] = da /\ e[2] = db BY <2>3, <3>1
        <3>3. e \in pairs BY <2>4, <3>2
        <3> QED BY <1>1, <2>2, <3>2, <3>3
    <2>5. ASSUME <<a, b>> \in before PROVE Sooner(da, db)
        <3>1. PICK e \in pairs : <<a, b>> = <<e[1][1], e[2][1]>> BY <1>1, <2>5
        <3>2. e \in Depths(P) \X Depths(P) /\ Sooner(e[1], e[2]) OBVIOUS
        <3>3. e[1] \in Depths(P) /\ e[2] \in Depths(P) /\ e[1][1] = a /\ e[2][1] = b BY <3>1, <3>2
        <3>4. \A d \in Depths(P) : d[1] \in S /\ d[2] = deep[d[1]] BY <1>0, <1>3 DEF Depths
        <3>5. e[1][2] = deep[a] /\ e[2][2] = deep[b] BY <3>3, <3>4
        <3> QED BY <2>2, <3>2, <3>3, <3>5
    <2> QED BY <2>2, <2>4, <2>5
<1>5. StrictOrder(S, before)
    <2>1. \A a \in S : <<a, a>> \notin before BY <1>3, <1>4
    <2>2. ASSUME NEW a \in S, NEW b \in S PROVE a = b \/ <<a, b>> \in before \/ <<b, a>> \in before
        <3>1. PICK x \in Nat, y \in Nat : x = deep[a] /\ y = deep[b] BY <1>3
        <3>2. a \in Nat /\ b \in Nat OBVIOUS
        <3>3. a = b \/ x > y \/ (x = y /\ a < b) \/ y > x \/ (y = x /\ b < a)
            BY ONLY <3>2, x \in Nat, y \in Nat
        <3> QED BY <1>4, <3>1, <3>3
    <2>3. ASSUME NEW a \in S, NEW b \in S, NEW c \in S, <<a, b>> \in before, <<b, c>> \in before
          PROVE  <<a, c>> \in before
        <3>1. PICK x \in Nat, y \in Nat, z \in Nat : x = deep[a] /\ y = deep[b] /\ z = deep[c]
            BY <1>3
        <3>2. x > y \/ (x = y /\ a < b) BY <1>4, <2>3, <3>1
        <3>3. y > z \/ (y = z /\ b < c) BY <1>4, <2>3, <3>1
        <3>4. a \in Nat /\ b \in Nat /\ c \in Nat OBVIOUS
        <3>5. x > z \/ (x = z /\ a < c) BY ONLY <3>2, <3>3, <3>4, x \in Nat, y \in Nat, z \in Nat
        <3> QED BY <1>4, <3>1, <3>5
    <2> QED BY <2>1, <2>2, <2>3 DEF StrictOrder
<1>6. PICK list : list = ByDepth(P) OBVIOUS
<1>7. list = Arranged(S, before) BY <1>0, <1>1, <1>6 DEF ByDepth
<1>8. PICK n : n = Cardinality(S) /\ Arranges(list, S, before, n) BY <1>5, <1>7, ArrangedIs
<1>9. /\ n \in Nat /\ list \in [1..n -> S]
      /\ \A i, j \in 1..n : i < j => <<list[i], list[j]>> \in before
      /\ \A r \in S : \E i \in 1..n : list[i] = r
    BY <1>8 DEF Arranges
<1>10. /\ \A i, j \in 1..n : list[i] = list[j] => i = j
       /\ list \in Seq(S) /\ Len(list) = n /\ DOMAIN list = 1..n
    BY <1>5, <1>8, ArrangesOnce
<1>11. ASSUME NEW i \in 1..n, NEW j \in 1..n, P[list[i]] = list[j] PROVE i < j
    <2>1. PICK a \in S, b \in S : a = list[i] /\ b = list[j] BY <1>9
    <2>2. P[a] = b /\ P[a] # NONE BY <1>0, <1>11, <2>1
    <2>3. deep[a] = deep[b] + 1
        <3>1. Depth(P, a) = Depth(P, P[a]) + 1 BY <2>2, DepthFalls
        <3> QED BY <1>3, <2>2, <3>1
    <2>4. deep[a] \in Nat /\ deep[b] \in Nat BY <1>3
    <2>5. <<b, a>> \notin before BY <1>4, <2>3, <2>4
    <2>6. ~(j < i) BY <1>9, <2>1, <2>5
    <2>7. i # j BY <2>1, <2>3, <2>4
    <2> QED BY <2>6, <2>7
<1> QED BY <1>6, <1>8, <1>9, <1>10, <1>11 DEF ChildrenFirst

-----------------------------------------------------------------------------
(* Sums                                                                     *)

First(s) == CHOOSE x \in s : TRUE

\* The recursion of SumFunctionOnSet, up to a number of summands.
IsSum(G, S, f, k) ==
    \A s \in SUBSET S : Cardinality(s) <= k =>
        G[s] = IF s = {} THEN 0 ELSE f[First(s)] + G[s \ {First(s)}]

\* What is left of a finite set without the element a sum takes first.
LEMMA WithoutFirst ==
    ASSUME NEW S, IsFiniteSet(S), NEW s \in SUBSET S
    PROVE  /\ IsFiniteSet(s) /\ Cardinality(s) \in Nat /\ Cardinality(s) <= Cardinality(S)
           /\ s = {} <=> Cardinality(s) = 0
           /\ \A x \in s : IsFiniteSet(s \ {x}) /\ Cardinality(s \ {x}) = Cardinality(s) - 1
                           /\ s \ {x} \in SUBSET S
           /\ s # {} => First(s) \in s
<1>1. IsFiniteSet(s) /\ Cardinality(s) <= Cardinality(S) BY FS_Subset
<1>2. Cardinality(s) \in Nat BY <1>1, FS_CardinalityType
<1>3. s = {} <=> Cardinality(s) = 0 BY <1>1, FS_EmptySet
<1>4. \A x \in s : IsFiniteSet(s \ {x}) /\ Cardinality(s \ {x}) = Cardinality(s) - 1
                   /\ s \ {x} \in SUBSET S
    BY <1>1, FS_RemoveElement
<1>5. s # {} => First(s) \in s BY DEF First
<1> QED BY <1>1, <1>2, <1>3, <1>4, <1>5

Summable(S, f, k) == \E G \in [SUBSET S -> Nat] : IsSum(G, S, f, k)

\* Over sets up to any size the function that adds up exists.
LEMMA SumUpTo ==
    ASSUME NEW S, IsFiniteSet(S), NEW f \in [S -> Nat], NEW n \in Nat
    PROVE  Summable(S, f, n)
<1> DEFINE In == {k \in Nat : Summable(S, f, k)}
<1>1. 0 \in In
    <2>1. PICK G : G = [s \in SUBSET S |-> 0] OBVIOUS
    <2>2. G \in [SUBSET S -> Nat] BY <2>1
    <2>3. ASSUME NEW s \in SUBSET S, Cardinality(s) <= 0 PROVE s = {}
        <3>1. Cardinality(s) \in Nat /\ (s = {} <=> Cardinality(s) = 0) BY WithoutFirst
        <3> QED BY <2>3, <3>1
    <2>4. IsSum(G, S, f, 0) BY <2>1, <2>3 DEF IsSum
    <2> QED BY <2>2, <2>4 DEF Summable
<1>2. ASSUME NEW k \in Nat, k \in In PROVE k + 1 \in In
    <2>1. PICK G \in [SUBSET S -> Nat] : IsSum(G, S, f, k) BY <1>2 DEF Summable
    <2> DEFINE more == [s \in SUBSET S |-> IF Cardinality(s) = k + 1
                                           THEN f[First(s)] + G[s \ {First(s)}] ELSE G[s]]
    <2>2. more \in [SUBSET S -> Nat]
        <3> SUFFICES ASSUME NEW s \in SUBSET S, Cardinality(s) = k + 1
                     PROVE  f[First(s)] + G[s \ {First(s)}] \in Nat
            OBVIOUS
        <3>1. s # {} /\ First(s) \in s /\ s \ {First(s)} \in SUBSET S BY WithoutFirst
        <3>2. f[First(s)] \in Nat /\ G[s \ {First(s)}] \in Nat BY <3>1
        <3> QED BY <3>2
    <2>3. ASSUME NEW s \in SUBSET S, Cardinality(s) <= k + 1
          PROVE  more[s] = IF s = {} THEN 0 ELSE f[First(s)] + more[s \ {First(s)}]
        <3>1. /\ Cardinality(s) \in Nat /\ (s = {} <=> Cardinality(s) = 0)
              /\ s # {} => First(s) \in s
              /\ \A x \in s : Cardinality(s \ {x}) = Cardinality(s) - 1 /\ s \ {x} \in SUBSET S
            BY WithoutFirst
        <3>2. CASE s = {}
            <4>1. Cardinality(s) # k + 1 /\ Cardinality(s) <= k BY <3>1, <3>2
            <4>2. more[s] = G[s] BY <4>1
            <4> QED BY <2>1, <3>2, <4>1, <4>2 DEF IsSum
        <3>3. CASE s # {}
            <4>1. PICK rest : rest = s \ {First(s)} OBVIOUS
            <4>2. rest \in SUBSET S /\ Cardinality(rest) = Cardinality(s) - 1 BY <3>1, <3>3, <4>1
            <4>3. Cardinality(rest) # k + 1 BY <2>3, <3>1, <4>2
            <4>4. more[rest] = G[rest] BY <4>2, <4>3
            <4>5. CASE Cardinality(s) = k + 1
                <5>1. more[s] = f[First(s)] + G[rest] BY <4>1, <4>5
                <5> QED BY <3>3, <4>1, <4>4, <5>1
            <4>6. CASE Cardinality(s) # k + 1
                <5>1. more[s] = G[s] /\ Cardinality(s) <= k BY <2>3, <3>1, <4>6
                <5>2. G[s] = f[First(s)] + G[rest] BY <2>1, <3>3, <4>1, <5>1 DEF IsSum
                <5> QED BY <3>3, <4>1, <4>4, <5>1, <5>2
            <4> QED BY <4>5, <4>6
        <3> QED BY <3>2, <3>3
    <2> HIDE DEF more
    <2>4. IsSum(more, S, f, k + 1) BY <2>3 DEF IsSum
    <2> QED BY <2>2, <2>4 DEF Summable
<1>3. \A k \in Nat : k \in In
    <2> HIDE DEF In
    <2> QED BY <1>1, <1>2, NatSetInduction
<1> QED BY <1>3

\* In whatever order they are added.
LEMMA AnyFirst ==
    ASSUME NEW S, IsFiniteSet(S), NEW f \in [S -> Nat], NEW G \in [SUBSET S -> Nat],
           IsSum(G, S, f, Cardinality(S)), NEW s \in SUBSET S, NEW x \in s
    PROVE  G[s] = f[x] + G[s \ {x}]
<1> DEFINE In == {k \in Nat : \A t \in SUBSET S : Cardinality(t) <= k =>
                                \A y \in t : G[t] = f[y] + G[t \ {y}]}
<1>1. 0 \in In
    <2> SUFFICES ASSUME NEW t \in SUBSET S, Cardinality(t) <= 0, NEW y \in t PROVE FALSE OBVIOUS
    <2>1. Cardinality(t) \in Nat /\ (t = {} <=> Cardinality(t) = 0) BY WithoutFirst
    <2> QED BY <2>1
<1>2. ASSUME NEW k \in Nat, k \in In PROVE k + 1 \in In
    <2> SUFFICES ASSUME NEW t \in SUBSET S, Cardinality(t) <= k + 1, NEW y \in t
                 PROVE  G[t] = f[y] + G[t \ {y}]
        OBVIOUS
    <2>1. PICK z : z = First(t) OBVIOUS
    <2>2. Cardinality(t) \in Nat /\ Cardinality(t) <= Cardinality(S) /\ z \in t /\ t # {}
          /\ \A v \in t : Cardinality(t \ {v}) = Cardinality(t) - 1 /\ t \ {v} \in SUBSET S
        BY <2>1, WithoutFirst
    <2>3. G[t] = f[z] + G[t \ {z}] BY <2>1, <2>2 DEF IsSum
    <2>4. CASE y = z BY <2>3, <2>4
    <2>5. CASE y # z
        <3>1. PICK a, b, c : a = t \ {z} /\ b = t \ {y} /\ c = (t \ {z}) \ {y} OBVIOUS
        <3>2. y \in a /\ z \in b /\ c = a \ {y} /\ c = b \ {z} BY <2>2, <2>5, <3>1
        <3>3. a \in SUBSET S /\ b \in SUBSET S /\ c \in SUBSET S
              /\ Cardinality(a) = Cardinality(t) - 1 /\ Cardinality(b) = Cardinality(t) - 1
            BY <2>2, <3>1
        <3>4. Cardinality(a) <= k /\ Cardinality(b) <= k
            <4>1. PICK w \in Nat : w = Cardinality(t) BY <2>2
            <4>2. w - 1 <= k BY <4>1
            <4> QED BY <3>3, <4>1, <4>2
        <3>5. G[a] = f[y] + G[c] /\ G[b] = f[z] + G[c] BY <1>2, <3>2, <3>3, <3>4
        <3>6. G[t] = f[z] + G[a] BY <2>3, <3>1
        <3>7. PICK p \in Nat, q \in Nat, g \in Nat, h \in Nat, l \in Nat, m \in Nat :
                p = f[y] /\ q = f[z] /\ g = G[c] /\ h = G[a] /\ l = G[b] /\ m = G[t]
            BY <2>2, <3>3
        <3>8. h = p + g /\ l = q + g /\ m = q + h BY <3>5, <3>6, <3>7
        <3>9. m = p + l BY ONLY <3>8, p \in Nat, q \in Nat, g \in Nat, h \in Nat, l \in Nat, m \in Nat
        <3> QED BY <3>1, <3>7, <3>9
    <2> QED BY <2>4, <2>5
<1>3. \A k \in Nat : k \in In
    <2> HIDE DEF In
    <2> QED BY <1>1, <1>2, NatSetInduction
<1>4. Cardinality(s) \in Nat BY WithoutFirst
<1>5. Cardinality(s) \in In BY <1>3, <1>4
<1> QED BY <1>4, <1>5

\* What a sum over a finite set is: nothing for none, and a member's part more with it.
Sums(G, S, f) ==
    /\ G \in [SUBSET S -> Nat] /\ G[{}] = 0
    /\ \A s \in SUBSET S, x \in S : x \notin s => G[s \cup {x}] = f[x] + G[s]
    /\ \A s \in SUBSET S : SumFunctionOnSet(f, s) = G[s]

\* SumFunctionOnSet is it.
LEMMA SumIs ==
    ASSUME NEW S, IsFiniteSet(S), NEW f \in [S -> Nat]
    PROVE  \E G : Sums(G, S, f)
<1>1. Cardinality(S) \in Nat BY FS_CardinalityType
<1>2. PICK G \in [SUBSET S -> Nat] : IsSum(G, S, f, Cardinality(S))
    <2>1. Summable(S, f, Cardinality(S)) BY <1>1, SumUpTo
    <2> QED BY <2>1 DEF Summable
<1>3. ASSUME NEW s \in SUBSET S
      PROVE  G[s] = IF s = {} THEN 0 ELSE f[First(s)] + G[s \ {First(s)}]
    <2>1. Cardinality(s) <= Cardinality(S) BY WithoutFirst
    <2> QED BY <1>2, <2>1 DEF IsSum
<1>4. G[{}] = 0 BY <1>3
<1>5. ASSUME NEW s \in SUBSET S, NEW x \in S, x \notin s PROVE G[s \cup {x}] = f[x] + G[s]
    <2>1. PICK t : t = s \cup {x} OBVIOUS
    <2>2. t \in SUBSET S /\ x \in t /\ t \ {x} = s BY <1>5, <2>1
    <2>3. t \in SUBSET S /\ x \in t BY <2>2
    <2>4. G[t] = f[x] + G[t \ {x}]
        BY ONLY <1>2, <2>3, IsFiniteSet(S), f \in [S -> Nat], G \in [SUBSET S -> Nat], AnyFirst
    <2> QED BY <2>1, <2>2, <2>4
<1>6. ASSUME NEW T \in SUBSET S PROVE SumFunctionOnSet(f, T) = G[T]
    <2> DEFINE Iter(g) == g = [s \in SUBSET T |->
                            IF s = {} THEN 0 ELSE f[First(s)] + g[s \ {First(s)}]]
    <2>1. Iter([s \in SUBSET T |-> G[s]])
        <3>1. PICK g : g = [s \in SUBSET T |-> G[s]] OBVIOUS
        <3>2. ASSUME NEW s \in SUBSET T
              PROVE  g[s] = IF s = {} THEN 0 ELSE f[First(s)] + g[s \ {First(s)}]
            <4>1. s \in SUBSET S /\ s \ {First(s)} \in SUBSET T OBVIOUS
            <4>2. g[s] = G[s] /\ g[s \ {First(s)}] = G[s \ {First(s)}] BY <3>1, <4>1
            <4> QED BY <1>3, <4>1, <4>2
        <3>3. Iter(g) BY <3>1, <3>2
        <3> QED BY <3>1, <3>3
    <2>2. PICK g : g = CHOOSE h : Iter(h) OBVIOUS
    <2>3. Iter(g)
        <3>1. \E h : Iter(h) BY <2>1
        <3> HIDE DEF Iter
        <3> QED BY <2>2, <3>1
    <2>4. SumFunctionOnSet(f, T) = g[T]
        BY <2>2 DEF SumFunctionOnSet, FoldFunctionOnSet, MapThenFoldSet, First
    <2> DEFINE In == {k \in Nat : \A s \in SUBSET T : Cardinality(s) <= k => g[s] = G[s]}
    <2>5. 0 \in In
        <3> SUFFICES ASSUME NEW s \in SUBSET T, Cardinality(s) <= 0 PROVE g[s] = G[s] OBVIOUS
        <3>1. s \in SUBSET S OBVIOUS
        <3>2. Cardinality(s) \in Nat /\ (s = {} <=> Cardinality(s) = 0) BY <3>1, WithoutFirst
        <3>3. s = {} BY <3>2
        <3> QED BY <1>4, <2>3, <3>3
    <2>6. ASSUME NEW k \in Nat, k \in In PROVE k + 1 \in In
        <3> SUFFICES ASSUME NEW s \in SUBSET T, Cardinality(s) <= k + 1 PROVE g[s] = G[s] OBVIOUS
        <3>1. s \in SUBSET S OBVIOUS
        <3>2. CASE s = {} BY <1>4, <2>3, <3>2
        <3>3. CASE s # {}
            <4>1. PICK rest : rest = s \ {First(s)} OBVIOUS
            <4>2. Cardinality(s) \in Nat /\ Cardinality(rest) = Cardinality(s) - 1
                BY <3>1, <3>3, <4>1, WithoutFirst
            <4>3. Cardinality(rest) <= k BY <4>2
            <4>4. rest \in SUBSET T BY <4>1
            <4>5. g[rest] = G[rest] BY <2>6, <4>3, <4>4
            <4>6. g[s] = f[First(s)] + g[rest] BY <2>3, <3>3, <4>1
            <4>7. G[s] = f[First(s)] + G[rest] BY <1>3, <3>1, <3>3, <4>1
            <4> QED BY <4>5, <4>6, <4>7
        <3> QED BY <3>2, <3>3
    <2>7. \A k \in Nat : k \in In
        <3> HIDE DEF In
        <3> QED BY <2>5, <2>6, NatSetInduction
    <2>8. Cardinality(T) \in Nat BY WithoutFirst
    <2>9. Cardinality(T) \in In BY <2>7, <2>8
    <2>10. g[T] = G[T] BY <2>8, <2>9
    <2> QED BY <2>4, <2>10
<1> QED BY <1>4, <1>5, <1>6 DEF Sums

\* The sum over two sets apart is the two sums together.
LEMMA SumOfUnion ==
    ASSUME NEW S, IsFiniteSet(S), NEW f \in [S -> Nat], NEW G, Sums(G, S, f),
           NEW A \in SUBSET S, NEW B \in SUBSET S, A \cap B = {}
    PROVE  G[A \cup B] = G[A] + G[B]
<1>1. /\ G \in [SUBSET S -> Nat] /\ G[{}] = 0
      /\ \A s \in SUBSET S, x \in S : x \notin s => G[s \cup {x}] = f[x] + G[s]
    BY DEF Sums
<1> DEFINE In == {k \in Nat : \A s \in SUBSET B : Cardinality(s) <= k => G[A \cup s] = G[A] + G[s]}
<1>2. 0 \in In
    <2> SUFFICES ASSUME NEW s \in SUBSET B, Cardinality(s) <= 0 PROVE G[A \cup s] = G[A] + G[s]
        OBVIOUS
    <2>1. s \in SUBSET S OBVIOUS
    <2>2. Cardinality(s) \in Nat /\ (s = {} <=> Cardinality(s) = 0) BY <2>1, WithoutFirst
    <2>3. s = {} BY <2>2
    <2>4. A \cup s = A /\ G[A] \in Nat BY <1>1, <2>3
    <2> QED BY <1>1, <2>3, <2>4
<1>3. ASSUME NEW k \in Nat, k \in In PROVE k + 1 \in In
    <2> SUFFICES ASSUME NEW s \in SUBSET B, Cardinality(s) <= k + 1
                 PROVE  G[A \cup s] = G[A] + G[s]
        OBVIOUS
    <2>1. s \in SUBSET S OBVIOUS
    <2>2. CASE s = {}
        <3>1. A \cup s = A /\ G[A] \in Nat BY <1>1, <2>2
        <3> QED BY <1>1, <2>2, <3>1
    <2>3. CASE s # {}
        <3>1. PICK x, rest : x = First(s) /\ rest = s \ {First(s)} OBVIOUS
        <3>2. Cardinality(s) \in Nat /\ Cardinality(rest) = Cardinality(s) - 1 /\ x \in s
            BY <2>1, <2>3, <3>1, WithoutFirst
        <3>3. Cardinality(rest) <= k BY <3>2
        <3>4. rest \in SUBSET B /\ rest \in SUBSET S /\ A \cup rest \in SUBSET S /\ x \in S
              /\ x \notin rest /\ x \notin A \cup rest
              /\ rest \cup {x} = s /\ (A \cup rest) \cup {x} = A \cup s
            BY <3>1, <3>2
        <3>5. G[A \cup rest] = G[A] + G[rest] BY <1>3, <3>3, <3>4
        <3>6. G[rest \cup {x}] = f[x] + G[rest] /\ G[(A \cup rest) \cup {x}] = f[x] + G[A \cup rest]
            BY <1>1, <3>4
        <3>7. PICK a \in Nat, b \in Nat, c \in Nat : a = G[A] /\ b = G[rest] /\ c = f[x]
            BY <1>1, <3>4
        <3>8. c + (a + b) = a + (c + b) BY ONLY a \in Nat, b \in Nat, c \in Nat
        <3> QED BY <3>4, <3>5, <3>6, <3>7, <3>8
    <2> QED BY <2>2, <2>3
<1>4. \A k \in Nat : k \in In
    <2> HIDE DEF In
    <2> QED BY <1>2, <1>3, NatSetInduction
<1>5. Cardinality(B) \in Nat BY WithoutFirst
<1>6. Cardinality(B) \in In BY <1>4, <1>5
<1> QED BY <1>5, <1>6

-----------------------------------------------------------------------------
(* Figures are folded into their ancestors                                  *)

Figures(S) == [S -> [figure : Nat, descendants : Nat]]

\* One process folded into its parent.
AddUp(P, figures, r) ==
    IF P[r] = NONE THEN figures
    ELSE [figures EXCEPT ![P[r]] =
            [figure |-> @.figure + figures[r].figure,
             descendants |-> @.descendants + figures[r].descendants + 1]]

\* One step of rollups: the parent's figures grow by the process's, nothing else does.
LEMMA AddUpIs ==
    ASSUME NEW S, S \subseteq Nat, NEW P \in Parents(S), NEW R \in Figures(S), NEW r \in S
    PROVE  /\ AddUp(P, R, r) \in Figures(S)
           /\ \A x \in S : x # P[r] => AddUp(P, R, r)[x] = R[x]
           /\ P[r] # NONE => P[r] \in S
                /\ AddUp(P, R, r)[P[r]].figure = R[P[r]].figure + R[r].figure
                /\ AddUp(P, R, r)[P[r]].descendants = R[P[r]].descendants + R[r].descendants + 1
<1>0. NONE \notin S /\ P[r] \in S \cup {NONE} BY DEF NONE, Parents
<1>1. CASE P[r] = NONE BY <1>0, <1>1 DEF AddUp
<1>2. CASE P[r] # NONE
    <2>1. PICK q \in S : q = P[r] BY <1>0, <1>2
    <2>2. R[q] \in [figure : Nat, descendants : Nat] /\ R[r] \in [figure : Nat, descendants : Nat]
        BY DEF Figures
    <2>3. PICK w : w = [figure |-> R[q].figure + R[r].figure,
                        descendants |-> R[q].descendants + R[r].descendants + 1]
        OBVIOUS
    <2>4. w \in [figure : Nat, descendants : Nat] /\ w.figure = R[q].figure + R[r].figure
          /\ w.descendants = R[q].descendants + R[r].descendants + 1
        <3>1. R[q].figure \in Nat /\ R[r].figure \in Nat /\ R[q].descendants \in Nat
              /\ R[r].descendants \in Nat BY <2>2
        <3>2. R[q].figure + R[r].figure \in Nat /\ R[q].descendants + R[r].descendants + 1 \in Nat
            BY <3>1
        <3> QED BY <2>3, <3>2
    <2>5. AddUp(P, R, r) = [R EXCEPT ![q] = w] BY <1>2, <2>1, <2>3 DEF AddUp
    <2>6. [R EXCEPT ![q] = w] \in Figures(S) /\ [R EXCEPT ![q] = w][q] = w
          /\ \A x \in S : x # q => [R EXCEPT ![q] = w][x] = R[x]
        BY <2>4 DEF Figures
    <2> QED BY <1>2, <2>1, <2>4, <2>5, <2>6
<1> QED BY <1>1, <1>2

Elsewhere(S, P, R, more, r) == \A y \in S : y # P[r] => more[y] = R[y]

\* The same as one fact.
LEMMA AddUpElsewhere ==
    ASSUME NEW S, S \subseteq Nat, NEW P \in Parents(S), NEW R \in Figures(S), NEW r \in S
    PROVE  Elsewhere(S, P, R, AddUp(P, R, r), r)
<1>1. CASE P[r] = NONE BY <1>1 DEF Elsewhere, AddUp
<1>2. CASE P[r] # NONE
    <2>1. PICK q, w : q = P[r] /\ w = [figure |-> R[q].figure + R[r].figure,
                                      descendants |-> R[q].descendants + R[r].descendants + 1]
        OBVIOUS
    <2>2. AddUp(P, R, r) = [R EXCEPT ![q] = w] BY <1>2, <2>1 DEF AddUp
    <2>3. ASSUME NEW y \in S, y # q PROVE [R EXCEPT ![q] = w][y] = R[y]
        BY <2>3 DEF Figures
    <2> QED BY <2>1, <2>2, <2>3 DEF Elsewhere
<1> QED BY <1>1, <1>2

\* The figures after each process, the deepest first.
IsRollup(run, S, P, base, list, n, result) ==
    /\ run \in [0..n -> Figures(S)] /\ run[0] = base
    /\ \A k \in 0..(n - 1) : run[k + 1] = AddUp(P, run[k], list[k + 1])
    /\ result = run[n]

\* Rollups is a run of such steps through the list.
LEMMA RollupsRun ==
    ASSUME NEW S, S \subseteq Nat, NEW P \in Parents(S), NEW own \in [S -> Nat],
           NEW n \in Nat, ChildrenFirst(ByDepth(P), P, S, n)
    PROVE  \E run : IsRollup(run, S, P, [r \in S |-> [figure |-> own[r], descendants |-> 0]],
                             ByDepth(P), n, Rollups(P, own))
<1>0. DOMAIN P = S BY DEF Parents
<1>1. PICK list : list = ByDepth(P) OBVIOUS
<1>2. DOMAIN list = 1..n /\ \A i \in 1..n : list[i] \in S BY <1>1 DEF ChildrenFirst
<1>3. PICK base : base = [r \in S |-> [figure |-> own[r], descendants |-> 0]] OBVIOUS
<1>4. base \in Figures(S) BY <1>3 DEF Figures
<1>5. PICK F : F = [w \in Figures(S) \X (1..n) |-> AddUp(P, w[1], list[w[2]])] OBVIOUS
<1>6. F \in [Figures(S) \X (1..n) -> Figures(S)]
    <2>1. \A w \in Figures(S) \X (1..n) : AddUp(P, w[1], list[w[2]]) \in Figures(S)
        BY <1>2, AddUpIs
    <2> QED BY <1>5, <2>1
<1>7. PICK it \in [SUBSET (1..n) -> Figures(S)] : IsFold(it, n, base, F)
    BY <1>4, <1>6, FoldUpTo DEF Foldable
<1> DEFINE Fold(iter) == iter = [s \in SUBSET (DOMAIN list) |->
                            IF s = {} THEN base
                            ELSE AddUp(P, iter[s \ {Max(s)}], list[Max(s)])]
<1>8. Fold(it)
    <2>1. ASSUME NEW s \in SUBSET (1..n)
          PROVE  it[s] = IF s = {} THEN base ELSE AddUp(P, it[s \ {Max(s)}], list[Max(s)])
        <3>1. CASE s = {} BY <1>7, <3>1 DEF IsFold
        <3>2. CASE s # {}
            <4>1. Max(s) \in 1..n BY <3>2, MaxOf
            <4>2. it[s \ {Max(s)}] \in Figures(S) BY <1>7
            <4>3. it[s] = F[<<it[s \ {Max(s)}], Max(s)>>] BY <1>7, <3>2 DEF IsFold
            <4> QED BY <1>5, <3>2, <4>1, <4>2, <4>3
        <3> QED BY <3>1, <3>2
    <2> QED BY <1>2, <1>7, <2>1
<1>9. PICK iter : iter = CHOOSE g : Fold(g) OBVIOUS
<1>10. Fold(iter) BY <1>8, <1>9
<1>11. Rollups(P, own) = iter[DOMAIN list]
    BY <1>0, <1>1, <1>3, <1>9 DEF Rollups, AddUp, FoldLeft, MapThenFoldSet
<1>12. PICK run : run = [k \in 0..n |-> iter[1..k]] OBVIOUS
<1>13. run[0] = base
    <2>1. 1..0 = {} /\ 0 \in 0..n OBVIOUS
    <2> QED BY <1>10, <1>12, <2>1
<1>14. ASSUME NEW k \in 0..(n - 1) PROVE run[k + 1] = AddUp(P, run[k], list[k + 1])
    <2>1. k \in Nat /\ k \in 0..n /\ k + 1 \in 0..n OBVIOUS
    <2>2. 1..(k + 1) # {} /\ 1..(k + 1) \in SUBSET (1..n) /\ Max(1..(k + 1)) = k + 1
          /\ (1..(k + 1)) \ {k + 1} = 1..k
        <3>1. Max(1..(k + 1)) = k + 1 /\ (1..(k + 1)) \ {k + 1} = 1..k BY <2>1, MaxOfRun
        <3>2. 1 \in 1..(k + 1) /\ 1..(k + 1) \subseteq 1..n OBVIOUS
        <3> QED BY <3>1, <3>2
    <2>3. iter[1..(k + 1)] = AddUp(P, iter[1..k], list[k + 1]) BY <1>2, <1>10, <2>2
    <2> QED BY <1>12, <2>1, <2>3
<1> HIDE DEF Fold
<1>15. run \in [0..n -> Figures(S)]
    <2> DEFINE In == {k \in Nat : k <= n => run[k] \in Figures(S)}
    <2>1. 0 \in In BY <1>4, <1>13
    <2>2. ASSUME NEW k \in Nat, k \in In PROVE k + 1 \in In
        <3> SUFFICES ASSUME k + 1 <= n PROVE run[k + 1] \in Figures(S) OBVIOUS
        <3>1. k \in 0..(n - 1) /\ k + 1 \in 1..n OBVIOUS
        <3>2. run[k] \in Figures(S) BY <2>2
        <3>3. list[k + 1] \in S BY <1>2, <3>1
        <3>4. AddUp(P, run[k], list[k + 1]) \in Figures(S)
            BY ONLY S \subseteq Nat, P \in Parents(S), <3>2, <3>3, AddUpIs
        <3> QED BY <1>14, <3>1, <3>4
    <2>3. \A k \in Nat : k \in In
        <3> HIDE DEF In
        <3> QED BY <2>1, <2>2, NatSetInduction
    <2> QED BY <1>12, <2>3
<1>16. Rollups(P, own) = run[n] BY <1>2, <1>11, <1>12
<1>17. IsRollup(run, S, P, base, list, n, Rollups(P, own))
    BY <1>13, <1>14, <1>15, <1>16 DEF IsRollup
<1> QED BY <1>1, <1>3, <1>17

\* Who has been folded into r when those of D have been, into their parents.
Folded(P, D, r) == {k \in DOMAIN P : \E c \in D : P[c] = r /\ (k = c \/ c \in Above(P, k))}

UpTo(list, k) == {list[i] : i \in 1..k}

FoldedSoFar(P, D, R, G) ==
    \A r \in DOMAIN P :
        /\ R[r].descendants = Cardinality(Folded(P, D, r))
        /\ R[r].figure = G[Folded(P, D, r) \cup {r}]

\* process_rows.rs, rebuild: a process's figure is that of everybody below it, each once.
LEMMA RollupsAre ==
    ASSUME NEW S, IsFiniteSet(S), S \subseteq Nat, NEW P \in Parents(S), Forest(P),
           NEW own \in [S -> Nat]
    PROVE  /\ Rollups(P, own) \in Figures(S)
           /\ \A r \in S :
                /\ Rollups(P, own)[r].descendants = Cardinality(Below(P, r))
                /\ Rollups(P, own)[r].figure = SumFunctionOnSet(own, Below(P, r) \cup {r})
<1>0. DOMAIN P = S /\ NONE \notin S /\ \A x \in S : P[x] \in S \cup {NONE} BY DEF Parents, NONE
<1>1. PICK n \in Nat : n = Cardinality(S) BY FS_CardinalityType
<1>2. PICK list : list = ByDepth(P) OBVIOUS
<1>3. ChildrenFirst(list, P, S, n) BY <1>1, <1>2, ByDepthIs
<1>4. /\ \A i \in 1..n : list[i] \in S
      /\ \A i, j \in 1..n : list[i] = list[j] => i = j
      /\ \A r \in S : \E i \in 1..n : list[i] = r
      /\ \A i, j \in 1..n : P[list[i]] = list[j] => i < j
    BY <1>3 DEF ChildrenFirst
<1>5. PICK base, result : base = [r \in S |-> [figure |-> own[r], descendants |-> 0]]
                          /\ result = Rollups(P, own)
    OBVIOUS
<1>6. PICK run : IsRollup(run, S, P, base, list, n, result) BY <1>2, <1>3, <1>5, RollupsRun
<1>7. /\ run \in [0..n -> Figures(S)] /\ run[0] = base
      /\ \A k \in 0..(n - 1) : run[k + 1] = AddUp(P, run[k], list[k + 1])
      /\ result = run[n]
    BY <1>6 DEF IsRollup
<1>8. PICK G : Sums(G, S, own) BY SumIs
<1>9. G \in [SUBSET S -> Nat] /\ G[{}] = 0
      /\ (\A s \in SUBSET S, x \in S : x \notin s => G[s \cup {x}] = own[x] + G[s])
      /\ \A s \in SUBSET S : SumFunctionOnSet(own, s) = G[s]
    BY <1>8 DEF Sums
<1> DEFINE In == {k \in Nat : k <= n => FoldedSoFar(P, UpTo(list, k), run[k], G)}
<1>10. 0 \in In
    <2> SUFFICES ASSUME NEW r \in S
                 PROVE  /\ run[0][r].descendants = Cardinality(Folded(P, UpTo(list, 0), r))
                        /\ run[0][r].figure = G[Folded(P, UpTo(list, 0), r) \cup {r}]
        BY <1>0 DEF FoldedSoFar
    <2>1. 1..0 = {} OBVIOUS
    <2>2. Folded(P, UpTo(list, 0), r) = {} BY <2>1 DEF Folded, UpTo
    <2>3. Cardinality({}) = 0 BY FS_EmptySet
    <2>4. G[{r}] = own[r]
        <3>1. {} \in SUBSET S /\ r \notin {} /\ {} \cup {r} = {r} OBVIOUS
        <3>2. G[{} \cup {r}] = own[r] + G[{}] BY <1>9, <3>1
        <3>3. own[r] \in Nat OBVIOUS
        <3> QED BY <1>9, <3>1, <3>2, <3>3
    <2>5. run[0][r].figure = own[r] /\ run[0][r].descendants = 0 BY <1>5, <1>7
    <2>6. {} \cup {r} = {r} OBVIOUS
    <2> QED BY <2>2, <2>3, <2>4, <2>5, <2>6
<1>11. ASSUME NEW k \in Nat, k \in In PROVE k + 1 \in In
    <2> SUFFICES ASSUME k + 1 <= n PROVE FoldedSoFar(P, UpTo(list, k + 1), run[k + 1], G) OBVIOUS
    <2>1. k \in 0..(n - 1) /\ k + 1 \in 1..n /\ k \in 0..n OBVIOUS
    <2>2. PICK x \in S, R \in {run[k]}, D \in {UpTo(list, k)} : x = list[k + 1] /\ R = run[k] /\ D = UpTo(list, k) BY <1>4, <2>1
    <2>3. FoldedSoFar(P, D, R, G) BY <1>11, <2>2
    <2>4. UpTo(list, k + 1) = D \cup {x}
        <3>1. \A i : i \in 1..(k + 1) <=> i \in 1..k \/ i = k + 1 OBVIOUS
        <3> QED BY <2>2, <3>1 DEF UpTo
    <2>5. x \notin D
        <3> SUFFICES ASSUME NEW i \in 1..k, list[i] = x PROVE FALSE BY <2>2 DEF UpTo
        <3>1. i \in 1..n /\ i # k + 1 BY <2>1
        <3> QED BY <1>4, <2>1, <2>2, <3>1
    <2>6. D \subseteq S /\ \A c \in S : P[c] = x => c \in D
        <3>1. D \subseteq S
            <4>1. \A i \in 1..k : i \in 1..n BY <2>1
            <4> QED BY <1>4, <2>2, <4>1 DEF UpTo
        <3>2. ASSUME NEW c \in S, P[c] = x PROVE c \in D
            <4>1. PICK i \in 1..n : list[i] = c BY <1>4
            <4>2. i < k + 1 BY <1>4, <2>1, <2>2, <3>2, <4>1
            <4>3. i \in 1..k BY <4>2
            <4> QED BY <2>2, <4>1, <4>3 DEF UpTo
        <3> QED BY <3>1, <3>2
    <2>7. R \in Figures(S) BY <1>7, <2>1, <2>2
    <2>8. run[k + 1] = AddUp(P, R, x) BY <1>7, <2>1, <2>2
    <2>9. \A r \in S : /\ R[r].descendants = Cardinality(Folded(P, D, r))
                       /\ R[r].figure = G[Folded(P, D, r) \cup {r}]
        BY <1>0, <2>3 DEF FoldedSoFar
    <2>91. \A y \in S : y # P[x] => AddUp(P, R, x)[y] = R[y]
        <3>1. Elsewhere(S, P, R, AddUp(P, R, x), x)
            BY ONLY <2>7, S \subseteq Nat, P \in Parents(S), x \in S, AddUpElsewhere
        <3> QED BY <3>1 DEF Elsewhere
    <2>10. \A r \in S : /\ AddUp(P, R, x)[r].descendants = Cardinality(Folded(P, D \cup {x}, r))
                        /\ AddUp(P, R, x)[r].figure = G[Folded(P, D \cup {x}, r) \cup {r}]
        <3> SUFFICES ASSUME NEW r \in S
                     PROVE  /\ AddUp(P, R, x)[r].descendants = Cardinality(Folded(P, D \cup {x}, r))
                            /\ AddUp(P, R, x)[r].figure = G[Folded(P, D \cup {x}, r) \cup {r}]
            OBVIOUS
        <3>1. CASE r # P[x]
            <4>1. Folded(P, D \cup {x}, r) = Folded(P, D, r) BY <3>1 DEF Folded
            <4>2. AddUp(P, R, x)[r] = R[r] BY <2>91, <3>1
            <4> QED BY <2>9, <4>1, <4>2
        <3>2. CASE r = P[x]
            <4>0. P[x] # NONE BY <1>0, <3>2
            <4>1. PICK A, B : A = Folded(P, D, r) /\ B = Below(P, x) OBVIOUS
            <4>2. A \subseteq S /\ B \subseteq S BY <1>0, <4>1 DEF Folded, Below
            <4>3. Folded(P, D \cup {x}, r) = A \cup (B \cup {x})
                BY <1>0, <3>2, <4>1 DEF Folded, Below
            <4>4. Folded(P, D, x) = B
                <5>1. Folded(P, D, x) \subseteq B
                    <6> SUFFICES ASSUME NEW v \in S, NEW c \in D, P[c] = x, v = c \/ c \in Above(P, v)
                                 PROVE  x \in Above(P, v)
                        BY <1>0, <4>1 DEF Folded, Below
                    <6>1. c \in S /\ P[c] # NONE BY <1>0, <2>6
                    <6>2. P[c] \in Above(P, c) BY <6>1, AboveIs
                    <6>3. v # c => Above(P, c) \subseteq Above(P, v) BY AboveAll
                    <6> QED BY <6>2, <6>3
                <5>2. B \subseteq Folded(P, D, x)
                    <6> SUFFICES ASSUME NEW v \in S, x \in Above(P, v) PROVE v \in Folded(P, D, x)
                        BY <1>0, <4>1 DEF Below
                    <6>1. PICK c \in S : P[c] = x /\ (c = v \/ c \in Above(P, v)) BY AboveHasChild
                    <6> QED BY <1>0, <2>6, <6>1 DEF Folded
                <5> QED BY <5>1, <5>2
            <4>5. x \notin B BY <1>0, <4>1 DEF Forest, Below
            <4>6. Above(P, x) = {r} \cup Above(P, r) /\ r \notin Above(P, r) BY <1>0, <3>2, <4>0, AboveStep DEF Forest
            <4>7. x \notin Above(P, r)
                <5> SUFFICES ASSUME x \in Above(P, r) PROVE FALSE OBVIOUS
                <5>1. Above(P, x) \subseteq Above(P, r) BY AboveAll
                <5> QED BY <4>6, <5>1
            <4>8. r \notin B \cup {x}
                <5>1. r # x BY <1>0, <4>6 DEF Forest
                <5>2. r \notin B BY <4>1, <4>7 DEF Below
                <5> QED BY <5>1, <5>2
            <4>9. A \cap (B \cup {x}) = {}
                <5> SUFFICES ASSUME NEW v \in A, v \in B \cup {x} PROVE FALSE OBVIOUS
                <5>1. v \in S BY <4>2
                <5>2. PICK c \in D : P[c] = r /\ (v = c \/ c \in Above(P, v)) BY <4>1 DEF Folded
                <5>3. c \in S /\ c # x BY <2>5, <2>6
                <5>4. x \in {v} \cup Above(P, v) /\ c \in {v} \cup Above(P, v) BY <4>1, <5>2 DEF Below
                <5>5. x \in Above(P, c) \/ c \in Above(P, x) BY <5>1, <5>3, <5>4, AboveIsALine
                <5>6. Above(P, c) = {r} \cup Above(P, r) BY <1>0, <4>0, <5>2, <5>3, AboveStep
                <5>7. r \notin {x} BY <4>8
                <5>8. x \notin Above(P, c) BY <4>7, <5>6, <5>7
                <5>9. c \notin Above(P, r)
                    <6> SUFFICES ASSUME c \in Above(P, r) PROVE FALSE OBVIOUS
                    <6>1. Above(P, c) \subseteq Above(P, r) BY AboveAll
                    <6> QED BY <4>6, <5>6, <6>1
                <5>10. c # r
                    <6>1. c \notin Above(P, c) BY <1>0, <5>3 DEF Forest
                    <6> QED BY <5>6, <6>1
                <5> QED BY <4>6, <5>5, <5>8, <5>9, <5>10
            <4>10. Cardinality(A \cup (B \cup {x})) = Cardinality(A) + (Cardinality(B) + 1)
                <5>1. IsFiniteSet(A) /\ IsFiniteSet(B) /\ Cardinality(A) \in Nat /\ Cardinality(B) \in Nat
                    BY <4>2, FS_Subset, FS_CardinalityType
                <5>2. IsFiniteSet(B \cup {x}) /\ Cardinality(B \cup {x}) = Cardinality(B) + 1
                    BY <4>5, <5>1, FS_AddElement
                <5>3. Cardinality(A \cup (B \cup {x})) =
                        Cardinality(A) + Cardinality(B \cup {x}) - Cardinality(A \cap (B \cup {x}))
                    BY <5>1, <5>2, FS_Union
                <5>4. Cardinality(A \cap (B \cup {x})) = 0 BY <4>9, FS_EmptySet
                <5> QED BY <5>1, <5>2, <5>3, <5>4
            <4>11. G[(A \cup {r}) \cup (B \cup {x})] = G[A \cup {r}] + G[B \cup {x}]
                <5>1. PICK U, V : U = A \cup {r} /\ V = B \cup {x} OBVIOUS
                <5>2. U \in SUBSET S BY <4>2, <5>1
                <5>3. V \in SUBSET S BY <4>2, <5>1
                <5>4. U \cap V = {} BY <4>8, <4>9, <5>1
                <5>5. G[U \cup V] = G[U] + G[V]
                    BY ONLY <1>8, <5>2, <5>3, <5>4, IsFiniteSet(S), own \in [S -> Nat], SumOfUnion, SMTT(30)
                <5> QED BY <5>1, <5>5
            <4>12. (A \cup (B \cup {x})) \cup {r} = (A \cup {r}) \cup (B \cup {x}) OBVIOUS
            <4>13. /\ R[r].descendants = Cardinality(A) /\ R[r].figure = G[A \cup {r}]
                   /\ R[x].descendants = Cardinality(B) /\ R[x].figure = G[B \cup {x}]
                BY <2>9, <4>1, <4>4
            <4>14. /\ AddUp(P, R, x)[r].figure = R[r].figure + R[x].figure
                   /\ AddUp(P, R, x)[r].descendants = R[r].descendants + R[x].descendants + 1
                <5>1. x \in S /\ P[x] = r /\ P[x] # NONE /\ R \in Figures(S) BY <2>7, <3>2, <4>0
                <5>2. /\ AddUp(P, R, x)[P[x]].figure = R[P[x]].figure + R[x].figure
                      /\ AddUp(P, R, x)[P[x]].descendants = R[P[x]].descendants + R[x].descendants + 1
                    BY ONLY <5>1, S \subseteq Nat, P \in Parents(S), AddUpIs
                <5> QED BY <5>1, <5>2
            <4>15. R[r].descendants \in Nat /\ R[x].descendants \in Nat BY <2>7 DEF Figures
            <4>16. R[r].descendants + R[x].descendants + 1 = R[r].descendants + (R[x].descendants + 1)
                BY <4>15
            <4> QED BY <4>3, <4>10, <4>11, <4>12, <4>13, <4>14, <4>16
        <3> QED BY <3>1, <3>2
    <2> QED BY <1>0, <2>4, <2>8, <2>10 DEF FoldedSoFar
<1>12. FoldedSoFar(P, UpTo(list, n), run[n], G)
    <2>1. \A k \in Nat : k \in In
        <3> HIDE DEF In
        <3> QED BY <1>10, <1>11, NatSetInduction
    <2>2. n \in In BY <2>1
    <2> QED BY <2>2
<1>13. UpTo(list, n) = S
    <2>1. \A i \in 1..n : list[i] \in S BY <1>4
    <2>2. \A r \in S : \E i \in 1..n : list[i] = r BY <1>4
    <2> QED BY ONLY <2>1, <2>2 DEF UpTo
<1>14. ASSUME NEW r \in S PROVE Folded(P, S, r) = Below(P, r)
    <2>1. ASSUME NEW v \in S, NEW c \in S, P[c] = r, v = c \/ c \in Above(P, v)
          PROVE  r \in Above(P, v)
        <3>1. P[c] # NONE BY <1>0, <2>1
        <3>2. P[c] \in Above(P, c) BY <3>1, AboveIs
        <3>3. v # c => Above(P, c) \subseteq Above(P, v) BY <2>1, AboveAll
        <3> QED BY <2>1, <3>2, <3>3
    <2>2. ASSUME NEW v \in S, r \in Above(P, v)
          PROVE  \E c \in S : P[c] = r /\ (v = c \/ c \in Above(P, v))
        <3>1. PICK c \in S : P[c] = r /\ (c = v \/ c \in Above(P, v)) BY <2>2, AboveHasChild
        <3> QED BY <3>1
    <2> QED BY <1>0, <2>1, <2>2 DEF Folded, Below
<1>15. result \in Figures(S)
    <2>1. n \in 0..n OBVIOUS
    <2> QED BY <1>7, <2>1
<1>16. ASSUME NEW r \in S
       PROVE  /\ result[r].descendants = Cardinality(Below(P, r))
              /\ result[r].figure = SumFunctionOnSet(own, Below(P, r) \cup {r})
    <2>1. Below(P, r) \cup {r} \in SUBSET S BY <1>0 DEF Below
    <2>2. result[r].descendants = Cardinality(Folded(P, UpTo(list, n), r))
          /\ result[r].figure = G[Folded(P, UpTo(list, n), r) \cup {r}]
        BY <1>0, <1>7, <1>12 DEF FoldedSoFar
    <2>3. Folded(P, UpTo(list, n), r) = Below(P, r) BY <1>13, <1>14
    <2> QED BY <1>9, <2>1, <2>2, <2>3
<1> QED BY <1>5, <1>15, <1>16

-----------------------------------------------------------------------------
(* What is flagged is flagged all the way up                                *)

FlagUp(P, flags, r) == IF r \in flags /\ P[r] # NONE THEN flags \cup {P[r]} ELSE flags

IsFlagging(run, S, P, base, list, n, result) ==
    /\ run \in [0..n -> SUBSET S] /\ run[0] = base
    /\ \A k \in 0..(n - 1) : run[k + 1] = FlagUp(P, run[k], list[k + 1])
    /\ result = run[n]

\* PropagateUp is a run of its steps through the list.
LEMMA FlaggingRun ==
    ASSUME NEW S, S \subseteq Nat, NEW P \in Parents(S), NEW base \in SUBSET S,
           NEW n \in Nat, ChildrenFirst(ByDepth(P), P, S, n)
    PROVE  \E run : IsFlagging(run, S, P, base, ByDepth(P), n, PropagateUp(P, base))
<1>0. DOMAIN P = S BY DEF Parents
<1>1. PICK list : list = ByDepth(P) OBVIOUS
<1>2. DOMAIN list = 1..n /\ \A i \in 1..n : list[i] \in S BY <1>1 DEF ChildrenFirst
<1>4. \A flags \in SUBSET S, r \in S : FlagUp(P, flags, r) \in SUBSET S BY DEF FlagUp, Parents
<1>5. PICK F : F = [w \in (SUBSET S) \X (1..n) |-> FlagUp(P, w[1], list[w[2]])] OBVIOUS
<1>6. F \in [(SUBSET S) \X (1..n) -> SUBSET S] BY <1>2, <1>4, <1>5
<1>7. PICK it \in [SUBSET (1..n) -> SUBSET S] : IsFold(it, n, base, F)
    BY <1>6, FoldUpTo DEF Foldable
<1> DEFINE Fold(iter) == iter = [s \in SUBSET (DOMAIN list) |->
                            IF s = {} THEN base
                            ELSE FlagUp(P, iter[s \ {Max(s)}], list[Max(s)])]
<1>8. Fold(it)
    <2>1. ASSUME NEW s \in SUBSET (1..n)
          PROVE  it[s] = IF s = {} THEN base ELSE FlagUp(P, it[s \ {Max(s)}], list[Max(s)])
        <3>1. CASE s = {} BY <1>7, <3>1 DEF IsFold
        <3>2. CASE s # {}
            <4>1. Max(s) \in 1..n BY <3>2, MaxOf
            <4>2. it[s \ {Max(s)}] \in SUBSET S BY <1>7
            <4>3. it[s] = F[<<it[s \ {Max(s)}], Max(s)>>] BY <1>7, <3>2 DEF IsFold
            <4> QED BY <1>5, <3>2, <4>1, <4>2, <4>3
        <3> QED BY <3>1, <3>2
    <2> QED BY <1>2, <1>7, <2>1
<1>9. PICK iter : iter = CHOOSE g : Fold(g) OBVIOUS
<1>10. Fold(iter) BY <1>8, <1>9
<1>11. PropagateUp(P, base) = iter[DOMAIN list]
    BY <1>0, <1>1, <1>9 DEF PropagateUp, FlagUp, FoldLeft, MapThenFoldSet
<1>12. PICK run : run = [k \in 0..n |-> iter[1..k]] OBVIOUS
<1>13. run[0] = base
    <2>1. 1..0 = {} /\ 0 \in 0..n OBVIOUS
    <2> QED BY <1>10, <1>12, <2>1
<1>14. ASSUME NEW k \in 0..(n - 1) PROVE run[k + 1] = FlagUp(P, run[k], list[k + 1])
    <2>1. k \in Nat /\ k \in 0..n /\ k + 1 \in 0..n OBVIOUS
    <2>2. 1..(k + 1) # {} /\ 1..(k + 1) \in SUBSET (1..n) /\ Max(1..(k + 1)) = k + 1
          /\ (1..(k + 1)) \ {k + 1} = 1..k
        <3>1. Max(1..(k + 1)) = k + 1 /\ (1..(k + 1)) \ {k + 1} = 1..k BY <2>1, MaxOfRun
        <3>2. 1 \in 1..(k + 1) /\ 1..(k + 1) \subseteq 1..n OBVIOUS
        <3> QED BY <3>1, <3>2
    <2>3. iter[1..(k + 1)] = FlagUp(P, iter[1..k], list[k + 1]) BY <1>2, <1>10, <2>2
    <2> QED BY <1>12, <2>1, <2>3
<1> HIDE DEF Fold
<1>15. run \in [0..n -> SUBSET S]
    <2> DEFINE In == {k \in Nat : k <= n => run[k] \in SUBSET S}
    <2>1. 0 \in In BY <1>13
    <2>2. ASSUME NEW k \in Nat, k \in In PROVE k + 1 \in In
        <3> SUFFICES ASSUME k + 1 <= n PROVE run[k + 1] \in SUBSET S OBVIOUS
        <3>1. k \in 0..(n - 1) /\ k + 1 \in 1..n OBVIOUS
        <3>2. run[k] \in SUBSET S BY <2>2
        <3>3. list[k + 1] \in S BY <1>2, <3>1
        <3>4. run[k + 1] = FlagUp(P, run[k], list[k + 1]) BY <1>14, <3>1
        <3> QED BY ONLY <1>4, <3>2, <3>3, <3>4
    <2>3. \A k \in Nat : k \in In
        <3> HIDE DEF In
        <3> QED BY <2>1, <2>2, NatSetInduction
    <2> QED BY <1>12, <2>3
<1>16. PropagateUp(P, base) = run[n] BY <1>2, <1>11, <1>12
<1>17. IsFlagging(run, S, P, base, list, n, PropagateUp(P, base))
    BY <1>13, <1>14, <1>15, <1>16 DEF IsFlagging
<1> QED BY <1>1, <1>17

\* process_rows.rs, propagate_up: the children come first, so one pass is enough.
LEMMA PropagateUpCloses ==
    ASSUME NEW S, IsFiniteSet(S), S \subseteq Nat, NEW P \in Parents(S), Forest(P),
           NEW base \in SUBSET S
    PROVE  /\ base \subseteq PropagateUp(P, base) /\ PropagateUp(P, base) \subseteq S
           /\ Closed(P, PropagateUp(P, base))
<1>0. DOMAIN P = S /\ NONE \notin S /\ \A x \in S : P[x] \in S \cup {NONE} BY DEF Parents, NONE
<1>1. PICK n \in Nat : n = Cardinality(S) BY FS_CardinalityType
<1>2. PICK list, result : list = ByDepth(P) /\ result = PropagateUp(P, base) OBVIOUS
<1>3. ChildrenFirst(list, P, S, n) BY <1>1, <1>2, ByDepthIs
<1>4. /\ \A i \in 1..n : list[i] \in S
      /\ \A i, j \in 1..n : list[i] = list[j] => i = j
      /\ \A r \in S : \E i \in 1..n : list[i] = r
      /\ \A i, j \in 1..n : P[list[i]] = list[j] => i < j
    BY <1>3 DEF ChildrenFirst
<1>5. PICK run : IsFlagging(run, S, P, base, list, n, result) BY <1>2, <1>3, FlaggingRun
<1>6. /\ run \in [0..n -> SUBSET S] /\ run[0] = base
      /\ \A k \in 0..(n - 1) : run[k + 1] = FlagUp(P, run[k], list[k + 1])
      /\ result = run[n]
    BY <1>5 DEF IsFlagging
<1> DEFINE Passed(k) == /\ base \subseteq run[k]
                        /\ \A i \in 1..k : list[i] \in run[k] => P[list[i]] \in run[k] \cup {NONE}
           In == {k \in Nat : k <= n => Passed(k)}
<1>7. 0 \in In
    <2>1. \A i \in 1..0 : FALSE OBVIOUS
    <2> QED BY <1>6, <2>1
<1>8. ASSUME NEW k \in Nat, k \in In PROVE k + 1 \in In
    <2> SUFFICES ASSUME k + 1 <= n PROVE Passed(k + 1) OBVIOUS
    <2>1. k \in 0..(n - 1) /\ k + 1 \in 1..n /\ k <= n OBVIOUS
    <2>2. PICK x, now, next : x = list[k + 1] /\ now = run[k] /\ next = run[k + 1] OBVIOUS
    <2>20. x \in S BY <1>4, <2>1, <2>2
    <2>3. base \subseteq now /\ \A i \in 1..k : list[i] \in now => P[list[i]] \in now \cup {NONE}
        BY <1>8, <2>1, <2>2
    <2>4. next = FlagUp(P, now, x) BY <1>6, <2>1, <2>2
    <2>5. now \subseteq next /\ (x \in next => P[x] \in next \cup {NONE}) /\ next \subseteq now \cup {P[x]}
        <3>1. x \in next => x \in now
            <4>1. P[x] # x BY <1>4, <2>1, <2>2
            <4> QED BY <2>4, <4>1 DEF FlagUp
        <3> QED BY <1>0, <2>20, <2>4, <3>1 DEF FlagUp
    <2>6. ASSUME NEW i \in 1..(k + 1), list[i] \in next PROVE P[list[i]] \in next \cup {NONE}
        <3>1. CASE i = k + 1 BY <2>2, <2>5, <2>6, <3>1
        <3>2. CASE i # k + 1
            <4>1. i \in 1..k /\ i \in 1..n /\ ~(k + 1 < i) BY <2>1, <3>2
            <4>2. list[i] # P[x] BY <1>4, <2>1, <2>2, <4>1
            <4>3. list[i] \in now BY <2>5, <2>6, <4>2
            <4> QED BY <2>3, <2>5, <4>1, <4>3
        <3> QED BY <3>1, <3>2
    <2> QED BY <2>2, <2>3, <2>5, <2>6
<1>9. Passed(n)
    <2>1. \A k \in Nat : k \in In
        <3> HIDE DEF In
        <3> QED BY <1>7, <1>8, NatSetInduction
    <2> QED BY <2>1
<1>10. run[n] \in SUBSET S
    <2>1. n \in 0..n OBVIOUS
    <2> QED BY <1>6, <2>1
<1>11. ASSUME NEW k \in run[n] PROVE P[k] \in run[n] \cup {NONE}
    <2>1. PICK i \in 1..n : list[i] = k BY <1>4, <1>10
    <2> QED BY <1>9, <1>11, <2>1
<1>12. base \subseteq run[n] BY <1>9
<1> HIDE DEF Passed, In
<1> QED BY <1>2, <1>6, <1>10, <1>11, <1>12 DEF Closed

-----------------------------------------------------------------------------
(* Walks through a forest                                                   *)

\* One list after another.
LEMMA Longer ==
    ASSUME NEW T, NEW s \in Seq(T), NEW t \in Seq(T)
    PROVE  /\ s \o t \in Seq(T) /\ Len(s \o t) = Len(s) + Len(t)
           /\ \A p \in 1..Len(s) : (s \o t)[p] = s[p]
           /\ \A p \in 1..Len(t) : (s \o t)[Len(s) + p] = t[p]
           /\ \A p \in (Len(s) + 1)..(Len(s) + Len(t)) : (s \o t)[p] = t[p - Len(s)]
<1>1. Len(s) \in Nat /\ Len(t) \in Nat OBVIOUS
<1>2. s \o t \in Seq(T) /\ Len(s \o t) = Len(s) + Len(t)
      /\ \A p \in 1..(Len(s) + Len(t)) : (s \o t)[p] = IF p <= Len(s) THEN s[p] ELSE t[p - Len(s)]
    BY ConcatProperties
<1>3. \A p \in 1..Len(t) : Len(s) + p \in 1..(Len(s) + Len(t)) /\ ~(Len(s) + p <= Len(s))
                            /\ Len(s) + p - Len(s) = p
    BY <1>1
<1>4. \A p \in (Len(s) + 1)..(Len(s) + Len(t)) : p \in 1..(Len(s) + Len(t)) /\ ~(p <= Len(s))
    BY <1>1
<1> QED BY <1>1, <1>2, <1>3, <1>4

\* A list of some is a list of more.
LEMMA SeqOfMore == ASSUME NEW T, NEW S, T \subseteq S, NEW s \in Seq(T) PROVE s \in Seq(S)
<1>1. PICK n \in Nat : s \in [1..n -> T] OBVIOUS
<1>2. s \in [1..n -> S] BY <1>1
<1> QED BY ONLY <1>2

\* After its parent, with nothing between the two that is not below the parent too.
AfterParent(q, A, j) ==
    \E i \in 1..(j - 1) :
        q[i] = A[q[j]] /\ \A k \in (i + 1)..j : q[i] \in Above(A, q[k])

\* All of X, each once and after its parent.
Walks(q, A, X, n) ==
    /\ q \in Seq(X) /\ n \in Nat /\ Len(q) = n /\ DOMAIN q = 1..n
    /\ \A i \in 1..n : q[i] \in X
    /\ \A i, j \in 1..n : q[i] = q[j] => i = j
    /\ \A x \in X : \E i \in 1..n : q[i] = x
    /\ \A j \in 1..n : A[q[j]] \in X => AfterParent(q, A, j)

\* The shortest walks: of nobody,
LEMMA WalkOfNone == ASSUME NEW q, NEW A, q \in [1..0 -> {}] PROVE Walks(q, A, {}, 0)
<1>1. 1..0 = {} OBVIOUS
<1>2. q \in Seq({}) /\ Len(q) = 0 /\ DOMAIN q = {} OBVIOUS
<1> QED BY ONLY <1>1, <1>2 DEF Walks

\* and of one.
LEMMA WalkOfOne == ASSUME NEW r, NEW A, A[r] # r PROVE Walks(<<r>>, A, {r}, 1)
<1>1. PICK q : q = <<r>> OBVIOUS
<1>2. q \in Seq({r}) /\ Len(q) = 1 /\ DOMAIN q = 1..1 /\ q[1] = r BY <1>1
<1>3. \A i : i \in 1..1 <=> i = 1 OBVIOUS
<1> QED BY ONLY <1>1, <1>2, <1>3, A[r] # r DEF Walks

Apart(A, X, Y) == X \cap Y = {} /\ (\A x \in X : A[x] \notin Y) /\ \A y \in Y : A[y] \notin X

\* A walk after another is a walk, when neither reaches into the other.
LEMMA JoinedWalks ==
    ASSUME NEW A, NEW X, NEW Y, NEW q, NEW p, NEW n, NEW m,
           Walks(q, A, X, n), Walks(p, A, Y, m), Apart(A, X, Y)
    PROVE  Walks(q \o p, A, X \cup Y, n + m)
<1>1. /\ q \in Seq(X) /\ n \in Nat /\ Len(q) = n /\ DOMAIN q = 1..n
      /\ \A i \in 1..n : q[i] \in X
      /\ \A i, j \in 1..n : q[i] = q[j] => i = j
      /\ \A x \in X : \E i \in 1..n : q[i] = x
      /\ \A j \in 1..n : A[q[j]] \in X => AfterParent(q, A, j)
    BY DEF Walks
<1>2. /\ p \in Seq(Y) /\ m \in Nat /\ Len(p) = m /\ DOMAIN p = 1..m
      /\ \A i \in 1..m : p[i] \in Y
      /\ \A i, j \in 1..m : p[i] = p[j] => i = j
      /\ \A y \in Y : \E i \in 1..m : p[i] = y
      /\ \A j \in 1..m : A[p[j]] \in Y => AfterParent(p, A, j)
    BY DEF Walks
<1>3. PICK Z : Z = X \cup Y OBVIOUS
<1>4. q \in Seq(Z) /\ p \in Seq(Z)
    <2>1. X \subseteq Z /\ Y \subseteq Z BY <1>3
    <2> QED BY ONLY <1>1, <1>2, <2>1, SeqOfMore
<1>5. PICK w : w = q \o p OBVIOUS
<1>6. /\ w \in Seq(Z) /\ Len(w) = n + m
      /\ \A i \in 1..n : w[i] = q[i]
      /\ \A i \in (n + 1)..(n + m) : w[i] = p[i - n]
    <2>1. /\ w \in Seq(Z) /\ Len(w) = Len(q) + Len(p)
          /\ \A i \in 1..Len(q) : w[i] = q[i]
          /\ \A i \in (Len(q) + 1)..(Len(q) + Len(p)) : w[i] = p[i - Len(q)]
        BY ONLY <1>4, <1>5, Longer
    <2>2. Len(q) = n /\ Len(p) = m BY ONLY <1>1, <1>2
    <2> QED BY ONLY <2>1, <2>2
<1>7. n + m \in Nat /\ DOMAIN w = 1..(n + m) BY ONLY <1>1, <1>2, <1>6
<1>8. \A i \in 1..(n + m) : i \in 1..n \/ i \in (n + 1)..(n + m) BY ONLY <1>1, <1>2
<1>9. \A i \in (n + 1)..(n + m) : i - n \in 1..m BY ONLY <1>1, <1>2
<1>10. \A i \in 1..m : i + n \in (n + 1)..(n + m) /\ (i + n) - n = i /\ i + n \in 1..(n + m)
    BY ONLY <1>1, <1>2
<1>11. \A i \in 1..n : i \in 1..(n + m) BY ONLY <1>1, <1>2
<1>12. \A i \in 1..n : w[i] \in X BY <1>1, <1>6
<1>13. \A i \in (n + 1)..(n + m) : w[i] \in Y BY ONLY <1>2, <1>6, <1>9
<1>14. X \cap Y = {} /\ (\A x \in X : A[x] \notin Y) /\ \A y \in Y : A[y] \notin X BY DEF Apart
<1>15. ASSUME NEW i \in 1..(n + m), NEW j \in 1..(n + m), w[i] = w[j] PROVE i = j
    <2>1. CASE i \in 1..n /\ j \in 1..n BY ONLY <1>1, <1>6, <1>15, <2>1
    <2>2. CASE i \in (n + 1)..(n + m) /\ j \in (n + 1)..(n + m)
        <3>1. p[i - n] = p[j - n] BY ONLY <1>6, <1>15, <2>2
        <3>2. i - n = j - n BY ONLY <1>2, <1>9, <2>2, <3>1
        <3> QED BY ONLY <1>1, <1>2, <2>2, <3>2
    <2> QED BY ONLY <1>8, <1>12, <1>13, <1>14, <1>15, <2>1, <2>2
<1>16. ASSUME NEW z \in Z PROVE \E i \in 1..(n + m) : w[i] = z
    <2>1. CASE z \in X BY ONLY <1>1, <1>6, <1>11, <2>1
    <2>2. CASE z \in Y
        <3>1. PICK i \in 1..m : p[i] = z BY ONLY <1>2, <2>2
        <3>2. w[i + n] = z BY ONLY <1>6, <1>10, <3>1
        <3> QED BY ONLY <1>10, <3>2
    <2> QED BY <1>3, <2>1, <2>2
<1>17. ASSUME NEW j \in 1..(n + m), A[w[j]] \in Z PROVE AfterParent(w, A, j)
    <2>1. CASE j \in 1..n
        <3>1. A[q[j]] \in X BY ONLY <1>3, <1>6, <1>12, <1>14, <1>17, <2>1
        <3>2. PICK i \in 1..(j - 1) : q[i] = A[q[j]] /\ \A k \in (i + 1)..j : q[i] \in Above(A, q[k])
            BY ONLY <1>1, <2>1, <3>1 DEF AfterParent
        <3>3. i \in 1..n /\ \A k \in (i + 1)..j : k \in 1..n BY ONLY <1>1, <2>1
        <3>4. w[i] = A[w[j]] /\ \A k \in (i + 1)..j : w[i] \in Above(A, w[k])
            BY ONLY <1>6, <2>1, <3>2, <3>3
        <3> QED BY ONLY <3>4 DEF AfterParent
    <2>2. CASE j \in (n + 1)..(n + m)
        <3>1. PICK u \in 1..m : u = j - n BY ONLY <1>9, <2>2
        <3>2. w[j] = p[u] BY ONLY <1>6, <2>2, <3>1
        <3>3. A[p[u]] \in Y BY ONLY <1>3, <1>13, <1>14, <1>17, <2>2, <3>2
        <3>4. PICK i \in 1..(u - 1) : p[i] = A[p[u]] /\ \A k \in (i + 1)..u : p[i] \in Above(A, p[k])
            BY ONLY <1>2, <3>1, <3>3 DEF AfterParent
        <3>5. i \in 1..m /\ i + n \in 1..(j - 1) BY ONLY <1>1, <1>2, <2>2, <3>1
        <3>6. w[i + n] = p[i] BY ONLY <1>6, <1>10, <3>5
        <3>7. ASSUME NEW k \in ((i + n) + 1)..j PROVE w[i + n] \in Above(A, w[k])
            <4>1. k \in (n + 1)..(n + m) /\ k - n \in (i + 1)..u BY ONLY <1>1, <1>2, <2>2, <3>1
            <4>2. w[k] = p[k - n] BY ONLY <1>6, <4>1
            <4> QED BY ONLY <3>4, <3>6, <4>1, <4>2
        <3> QED BY ONLY <3>2, <3>4, <3>5, <3>6, <3>7 DEF AfterParent
    <2> QED BY <1>8, <2>1, <2>2
<1>18. \A i \in 1..(n + m) : w[i] \in Z BY ONLY <1>3, <1>8, <1>12, <1>13
<1> QED BY ONLY <1>3, <1>5, <1>6, <1>7, <1>15, <1>16, <1>17, <1>18 DEF Walks

\* A process in front of everything below it.
LEMMA WalkUnder ==
    ASSUME NEW A, NEW X, NEW r, NEW q, NEW n, Walks(q, A, X, n), r \notin X, A[r] \notin X, A[r] # r,
           \A x \in X : r \in Above(A, x)
    PROVE  Walks(<<r>> \o q, A, {r} \cup X, n + 1)
<1>1. /\ q \in Seq(X) /\ n \in Nat /\ Len(q) = n /\ DOMAIN q = 1..n
      /\ \A i \in 1..n : q[i] \in X
      /\ \A i, j \in 1..n : q[i] = q[j] => i = j
      /\ \A x \in X : \E i \in 1..n : q[i] = x
      /\ \A j \in 1..n : A[q[j]] \in X => AfterParent(q, A, j)
    BY DEF Walks
<1>3. PICK Z : Z = {r} \cup X OBVIOUS
<1>2. PICK p : p = <<r>> OBVIOUS
<1>4. q \in Seq(Z) /\ p \in Seq(Z) /\ Len(p) = 1 /\ p[1] = r
    <2>1. X \subseteq Z /\ r \in Z BY <1>3
    <2>2. q \in Seq(Z) BY ONLY <1>1, <2>1, SeqOfMore
    <2> QED BY ONLY <1>2, <2>1, <2>2
<1>5. PICK w : w = p \o q OBVIOUS
<1>6. /\ w \in Seq(Z) /\ Len(w) = n + 1
      /\ \A i \in 1..1 : w[i] = p[i]
      /\ \A i \in (1 + 1)..(1 + n) : w[i] = q[i - 1]
    <2>1. /\ w \in Seq(Z) /\ Len(w) = 1 + n
          /\ \A i \in 1..1 : w[i] = p[i]
          /\ \A i \in (1 + 1)..(1 + n) : w[i] = q[i - 1]
        <3>1. /\ w \in Seq(Z) /\ Len(w) = Len(p) + Len(q)
              /\ \A i \in 1..Len(p) : w[i] = p[i]
              /\ \A i \in (Len(p) + 1)..(Len(p) + Len(q)) : w[i] = q[i - Len(p)]
            BY ONLY <1>4, <1>5, Longer
        <3>2. Len(p) = 1 /\ Len(q) = n BY ONLY <1>1, <1>4
        <3> QED BY ONLY <3>1, <3>2
    <2> QED BY ONLY <1>1, <2>1
<1>61. w[1] = r
    <2>1. 1 \in 1..1 OBVIOUS
    <2> QED BY ONLY <1>4, <1>6, <2>1
<1>62. \A i \in 2..(n + 1) : w[i] = q[i - 1] /\ i - 1 \in 1..n
    <2>1. \A i \in 2..(n + 1) : i \in (1 + 1)..(1 + n) /\ i - 1 \in 1..n BY ONLY <1>1
    <2> QED BY ONLY <1>6, <2>1
<1>7. n + 1 \in Nat /\ DOMAIN w = 1..(n + 1) BY ONLY <1>1, <1>6
<1>8. \A i \in 1..(n + 1) : i = 1 \/ i \in 2..(n + 1) BY ONLY <1>1
<1>10. \A i \in 1..n : i + 1 \in 2..(n + 1) /\ (i + 1) - 1 = i /\ i + 1 \in 1..(n + 1) BY ONLY <1>1
<1>11. 1 \in 1..(n + 1) BY ONLY <1>1
<1>13. \A i \in 2..(n + 1) : w[i] \in X BY ONLY <1>1, <1>62
<1>15. ASSUME NEW i \in 1..(n + 1), NEW j \in 1..(n + 1), w[i] = w[j] PROVE i = j
    <2>2. CASE i \in 2..(n + 1) /\ j \in 2..(n + 1)
        <3>1. q[i - 1] = q[j - 1] BY ONLY <1>62, <1>15, <2>2
        <3>2. i - 1 = j - 1 BY ONLY <1>1, <1>62, <2>2, <3>1
        <3> QED BY ONLY <1>1, <2>2, <3>2
    <2> QED BY ONLY <1>8, <1>13, <1>61, <1>15, <2>2, r \notin X
<1>16. ASSUME NEW z \in Z PROVE \E i \in 1..(n + 1) : w[i] = z
    <2>1. CASE z = r BY ONLY <1>11, <1>61, <2>1
    <2>2. CASE z \in X
        <3>1. PICK i \in 1..n : q[i] = z BY ONLY <1>1, <2>2
        <3>2. w[i + 1] = z BY ONLY <1>62, <1>10, <3>1
        <3> QED BY ONLY <1>10, <3>2
    <2> QED BY <1>3, <2>1, <2>2
<1>17. ASSUME NEW j \in 1..(n + 1), A[w[j]] \in Z PROVE AfterParent(w, A, j)
    <2>0. j # 1 BY ONLY <1>3, <1>61, <1>17, A[r] \notin X, A[r] # r
    <2>1. j \in 2..(n + 1) BY ONLY <1>8, <2>0
    <2>2. PICK u \in 1..n : u = j - 1 BY ONLY <1>62, <2>1
    <2>3. w[j] = q[u] BY ONLY <1>62, <2>1, <2>2
    <2>4. CASE A[w[j]] = r
        <3>1. 1 \in 1..(j - 1) /\ \A k \in (1 + 1)..j : k \in 2..(n + 1) BY ONLY <1>1, <2>1
        <3>2. \A k \in (1 + 1)..j : w[1] \in Above(A, w[k])
            BY ONLY <1>13, <1>61, <3>1, \A x \in X : r \in Above(A, x)
        <3> QED BY ONLY <1>61, <2>4, <3>1, <3>2 DEF AfterParent
    <2>5. CASE A[w[j]] \in X
        <3>4. PICK i \in 1..(u - 1) : q[i] = A[q[u]] /\ \A k \in (i + 1)..u : q[i] \in Above(A, q[k])
            BY ONLY <1>1, <2>2, <2>3, <2>5 DEF AfterParent
        <3>5. i \in 1..n /\ i + 1 \in 1..(j - 1) BY ONLY <1>1, <2>1, <2>2
        <3>6. w[i + 1] = q[i] BY ONLY <1>62, <1>10, <3>5
        <3>7. ASSUME NEW k \in ((i + 1) + 1)..j PROVE w[i + 1] \in Above(A, w[k])
            <4>1. k \in 2..(n + 1) /\ k - 1 \in (i + 1)..u BY ONLY <1>1, <2>1, <2>2, <3>5
            <4>2. w[k] = q[k - 1] BY ONLY <1>62, <4>1
            <4> QED BY ONLY <3>4, <3>6, <4>1, <4>2
        <3> QED BY ONLY <2>3, <3>4, <3>5, <3>6, <3>7 DEF AfterParent
    <2> QED BY <1>3, <1>17, <2>4, <2>5
<1>18. \A i \in 1..(n + 1) : w[i] \in Z BY ONLY <1>3, <1>8, <1>13, <1>61
<1> QED BY ONLY <1>2, <1>3, <1>5, <1>6, <1>7, <1>15, <1>16, <1>17, <1>18 DEF Walks

IsWalk(q, A, X) == Walks(q, A, X, Len(q))

\* A walk is one as far as it is long.
LEMMA WalkIs == ASSUME NEW q, NEW A, NEW X, NEW n, Walks(q, A, X, n) PROVE IsWalk(q, A, X)
<1>1. Len(q) = n BY DEF Walks
<1> QED BY <1>1 DEF IsWalk

IsFlatten(f, s, n) == f = [i \in 1..n |-> IF i = 1 THEN s[i] ELSE f[i - 1] \o s[i]]

Flattens(s, n) == \E f : IsFlatten(f, s, n)

\* Joining a list of lists, however many.
LEMMA FlattenUpTo == ASSUME NEW s, NEW n \in Nat PROVE Flattens(s, n)
<1> DEFINE In == {k \in Nat : Flattens(s, k)}
<1>1. 0 \in In
    <2>1. PICK f : f = [i \in 1..0 |-> IF i = 1 THEN s[i] ELSE s[i] \o s[i]] OBVIOUS
    <2>2. \A i : i \notin 1..0 OBVIOUS
    <2>3. f = [i \in 1..0 |-> IF i = 1 THEN s[i] ELSE f[i - 1] \o s[i]] BY ONLY <2>1, <2>2
    <2> QED BY <2>3 DEF Flattens, IsFlatten
<1>2. ASSUME NEW k \in Nat, k \in In PROVE k + 1 \in In
    <2>1. PICK f : IsFlatten(f, s, k) BY <1>2 DEF Flattens
    <2>2. f = [i \in 1..k |-> IF i = 1 THEN s[i] ELSE f[i - 1] \o s[i]] BY <2>1 DEF IsFlatten
    <2>3. PICK g : g = [i \in 1..(k + 1) |->
                        IF i = k + 1 THEN IF i = 1 THEN s[i] ELSE f[i - 1] \o s[i] ELSE f[i]]
        OBVIOUS
    <2>4. ASSUME NEW i \in 1..(k + 1) PROVE g[i] = IF i = 1 THEN s[i] ELSE g[i - 1] \o s[i]
        <3>1. CASE i = 1
            <4>1. i = k + 1 \/ i \in 1..k BY <3>1
            <4> QED BY <2>2, <2>3, <3>1, <4>1
        <3>2. CASE i # 1
            <4>1. i - 1 \in 1..k /\ i - 1 \in 1..(k + 1) /\ i - 1 # k + 1 BY <3>2
            <4>2. g[i - 1] = f[i - 1] BY <2>3, <4>1
            <4>3. CASE i = k + 1 BY <2>3, <3>2, <4>2, <4>3
            <4>4. CASE i # k + 1
                <5>1. i \in 1..k BY <4>4
                <5>2. f[i] = f[i - 1] \o s[i] BY <2>2, <3>2, <5>1
                <5> QED BY <2>3, <3>2, <4>2, <4>4, <5>2
            <4> QED BY <4>3, <4>4
        <3> QED BY <3>1, <3>2
    <2>5. g = [i \in 1..(k + 1) |-> IF i = 1 THEN s[i] ELSE g[i - 1] \o s[i]]
        BY <2>3, <2>4
    <2>6. IsFlatten(g, s, k + 1) BY ONLY <2>5 DEF IsFlatten
    <2> QED BY <2>6 DEF Flattens
<1>3. \A k \in Nat : k \in In
    <2> HIDE DEF In
    <2> QED BY <1>1, <1>2, NatSetInduction
<1> QED BY <1>3

Together(X, k) == UNION {X[i] : i \in 1..k}

\* Walks through parts that have nothing to do with each other, one after the other.
LEMMA FlattenedWalks ==
    ASSUME NEW S, NEW A, NEW n \in Nat, NEW X \in [1..n -> SUBSET S], NEW seqs \in [1..n -> Seq(S)],
           \A i \in 1..n : IsWalk(seqs[i], A, X[i]),
           \A i, j \in 1..n : i # j => Apart(A, X[i], X[j])
    PROVE  IsWalk(FlattenSeq(seqs), A, Together(X, n))
<1>0. Len(seqs) = n /\ DOMAIN seqs = 1..n
    <2>1. seqs \in Seq(Seq(S)) OBVIOUS
    <2> QED BY <2>1, LenProperties
<1>1. CASE n = 0
    <2>1. FlattenSeq(seqs) = seqs BY <1>0, <1>1 DEF FlattenSeq
    <2>2. seqs \in [1..0 -> {}]
        <3>1. \A i : i \notin 1..0 OBVIOUS
        <3> QED BY <1>1, <3>1
    <2>3. Together(X, n) = {}
        <3>1. \A i : i \notin 1..0 OBVIOUS
        <3> QED BY <1>1, <3>1 DEF Together
    <2> QED BY <2>1, <2>2, <2>3, WalkOfNone, WalkIs
<1>2. CASE n # 0
    <2>1. PICK f : f = CHOOSE g : g = [i \in 1..Len(seqs) |->
                                        IF i = 1 THEN seqs[i] ELSE g[i - 1] \o seqs[i]]
        OBVIOUS
    <2>2. IsFlatten(f, seqs, n) BY <1>0, <2>1, FlattenUpTo DEF Flattens, IsFlatten
    <2>3. \A i \in 1..n : f[i] = IF i = 1 THEN seqs[i] ELSE f[i - 1] \o seqs[i]
        BY <2>2 DEF IsFlatten
    <2>4. FlattenSeq(seqs) = f[n] BY <1>0, <1>2, <2>1 DEF FlattenSeq
    <2> DEFINE In == {k \in Nat : k + 1 <= n => IsWalk(f[k + 1], A, Together(X, k + 1))}
    <2>5. 0 \in In
        <3>1. 1 \in 1..n /\ 0 + 1 = 1 BY <1>2
        <3>2. f[1] = seqs[1] BY <2>3, <3>1
        <3>3. \A i : i \in 1..1 <=> i = 1 OBVIOUS
        <3>4. Together(X, 1) = X[1] BY ONLY <3>3 DEF Together
        <3> QED BY <3>1, <3>2, <3>4
    <2>6. ASSUME NEW k \in Nat, k \in In PROVE k + 1 \in In
        <3> SUFFICES ASSUME (k + 1) + 1 <= n PROVE IsWalk(f[(k + 1) + 1], A, Together(X, (k + 1) + 1))
            OBVIOUS
        <3>1. PICK j \in 1..n, b \in {k + 1} : j = (k + 1) + 1 /\ b = k + 1 OBVIOUS
        <3>2. j # 1 /\ j - 1 = b /\ b \in 1..n /\ b <= n /\ j \notin 1..b /\ \A i \in 1..b : i \in 1..n
            BY <3>1
        <3>3. f[j] = f[b] \o seqs[j] BY <2>3, <3>1, <3>2
        <3>4. IsWalk(f[b], A, Together(X, b)) BY <2>6, <3>1, <3>2
        <3>5. Together(X, j) = Together(X, b) \cup X[j]
            <4>1. \A i : i \in 1..j <=> (i \in 1..b \/ i = j) BY <3>1
            <4> QED BY ONLY <4>1 DEF Together
        <3>6. Apart(A, Together(X, b), X[j])
            <4>1. \A i \in 1..b : Apart(A, X[i], X[j]) BY <3>1, <3>2
            <4> QED BY ONLY <4>1 DEF Apart, Together
        <3>7. Walks(f[b] \o seqs[j], A, Together(X, b) \cup X[j], Len(f[b]) + Len(seqs[j]))
            BY <3>4, <3>6, JoinedWalks DEF IsWalk
        <3>8. IsWalk(f[j], A, Together(X, j)) BY ONLY <3>3, <3>5, <3>7, WalkIs
        <3> QED BY <3>1, <3>8
    <2>7. \A k \in Nat : k \in In
        <3> HIDE DEF In
        <3> QED BY <2>5, <2>6, NatSetInduction
    <2>8. PICK k \in Nat : n = k + 1
        <3>1. n - 1 \in Nat /\ n = (n - 1) + 1 BY <1>2
        <3> QED BY <3>1
    <2>9. k \in In BY <2>7
    <2> QED BY <2>4, <2>8, <2>9
<1> QED BY <1>1, <1>2

-----------------------------------------------------------------------------
(* What a walk through the tree comes to                                    *)

\* r and what is listed below it when it is: nothing that stands below a folded row.
Listed(A, F, r) ==
    {k \in DOMAIN A : \/ k = r
                      \/ r \in Above(A, k) /\ r \notin F /\ \A f \in F : f \in Above(A, k) => f \in Above(A, r)}

Unfolded(A, F) == {k \in DOMAIN A : \A f \in F : f \notin Above(A, k)}

Under(A, F, S, r) == UNION {Listed(A, F, c) : c \in {k \in S : A[k] = r}}

ListedDown(A, F, S, r) ==
    /\ r \in F => Listed(A, F, r) = {r}
    /\ r \notin F => Listed(A, F, r) = {r} \cup Under(A, F, S, r)
    /\ Listed(A, F, r) \subseteq S

\* Below a process are its children and, unless they are folded, what is below them.
LEMMA ListedIs ==
    ASSUME NEW S, IsFiniteSet(S), S \subseteq Nat, NEW A \in Parents(S), Forest(A), NEW F, NEW r \in S
    PROVE  ListedDown(A, F, S, r)
<1>0. DOMAIN A = S BY DEF Parents
<1>1. r \in F => Listed(A, F, r) = {r} BY <1>0 DEF Listed
<1>2. ASSUME r \notin F, NEW x \in S, x # r, r \in Above(A, x),
             \A f \in F : f \in Above(A, x) => f \in Above(A, r)
      PROVE  \E c \in S : A[c] = r /\ x \in Listed(A, F, c)
    <2>0. r \in Above(A, x) BY <1>2
    <2>1. PICK c \in S : A[c] = r /\ (c = x \/ c \in Above(A, x)) BY <2>0, AboveHasChild
    <2>2. r \in Above(A, c) /\ Above(A, c) = {r} \cup Above(A, r)
        <3>1. A[c] # NONE BY <2>1 DEF NONE
        <3> QED BY <2>1, <3>1, AboveStep
    <2>3. CASE c = x BY <1>0, <2>1, <2>3 DEF Listed
    <2>4. CASE c \in Above(A, x)
        <3>1. c \notin Above(A, c) BY <1>0 DEF Forest
        <3>2. c \notin F BY <1>2, <2>2, <2>4, <3>1
        <3>3. \A f \in F : f \in Above(A, x) => f \in Above(A, c) BY <1>2, <2>2
        <3> QED BY <1>0, <2>1, <2>4, <3>2, <3>3 DEF Listed
    <2> QED BY <2>1, <2>3, <2>4
<1>3. ASSUME r \notin F, NEW c \in S, A[c] = r, NEW x \in Listed(A, F, c) PROVE x \in Listed(A, F, r)
    <2>0. x \in S BY <1>0 DEF Listed
    <2>1. r \in Above(A, c) /\ Above(A, c) = {r} \cup Above(A, r)
        <3>1. A[c] # NONE BY <1>3 DEF NONE
        <3> QED BY <1>3, <3>1, AboveStep
    <2>2. CASE x = c BY <1>0, <1>3, <2>1, <2>2 DEF Listed
    <2>3. CASE x # c
        <3>1. c \in Above(A, x) /\ \A f \in F : f \in Above(A, x) => f \in Above(A, c)
            BY <2>3 DEF Listed
        <3>2. Above(A, c) \subseteq Above(A, x) BY <2>0, <3>1, AboveAll
        <3>3. r \in Above(A, x) BY <2>1, <3>2
        <3>4. \A f \in F : f \in Above(A, x) => f \in Above(A, r) BY <1>3, <2>1, <3>1
        <3> QED BY <1>0, <1>3, <2>0, <3>3, <3>4 DEF Listed
    <2> QED BY <2>2, <2>3
<1>4. r \notin F => Listed(A, F, r) = {r} \cup Under(A, F, S, r)
    <2> SUFFICES ASSUME r \notin F
                 PROVE  Listed(A, F, r) = {r} \cup Under(A, F, S, r)
        OBVIOUS
    <2>1. r \in Listed(A, F, r) BY <1>0 DEF Listed
    <2>2. ASSUME NEW x \in Listed(A, F, r), x # r
          PROVE  \E c \in S : A[c] = r /\ x \in Listed(A, F, c)
        <3>1. x \in S /\ r \in Above(A, x) /\ \A f \in F : f \in Above(A, x) => f \in Above(A, r)
            BY <1>0, <2>2 DEF Listed
        <3> QED BY <1>2, <2>2, <3>1
    <2> QED BY <1>3, <2>1, <2>2 DEF Under
<1>5. Listed(A, F, r) \subseteq S BY <1>0 DEF Listed
<1> QED BY <1>1, <1>4, <1>5 DEF ListedDown

\* Siblings, and roots, have nothing to do with each other.
LEMMA ListedApart ==
    ASSUME NEW S, IsFiniteSet(S), S \subseteq Nat, NEW A \in Parents(S), Forest(A), NEW F,
           NEW c \in S, NEW d \in S, c # d, A[c] = A[d]
    PROVE  Apart(A, Listed(A, F, c), Listed(A, F, d))
<1>0. DOMAIN A = S /\ NONE \notin S /\ \A x \in S : A[x] \in S \cup {NONE} BY DEF Parents, NONE
<1>1. \A b, x : x \in Listed(A, F, b) => x \in S /\ b \in {x} \cup Above(A, x)
    BY <1>0 DEF Listed
<1>2. ASSUME NEW a \in S, NEW b \in S, a # b, A[a] = A[b], b \in Above(A, a) PROVE FALSE
    <2>1. Above(A, a) = {A[a]} \cup Above(A, A[a]) /\ A[a] \in S
        <3>1. A[a] # NONE BY <1>2, AboveStep
        <3> QED BY <1>0, <3>1, AboveStep
    <2>2. Above(A, b) = {A[b]} \cup Above(A, A[b]) BY <1>0, <1>2, <2>1, AboveStep
    <2> QED BY <1>0, <1>2, <2>1, <2>2 DEF Forest
<1>3. ASSUME NEW a \in S, NEW b \in S, a # b, A[a] = A[b], NEW x \in S,
             a \in {x} \cup Above(A, x), b \in {x} \cup Above(A, x)
      PROVE  FALSE
    <2>1. a \in Above(A, b) \/ b \in Above(A, a) BY <1>3, AboveIsALine
    <2> QED BY <1>2, <1>3, <2>1
<1>4. ASSUME NEW a \in S, NEW b \in S, a # b, A[a] = A[b],
             NEW x \in Listed(A, F, a), A[x] \in Listed(A, F, b)
      PROVE  FALSE
    <2>1. x \in S /\ a \in {x} \cup Above(A, x) /\ A[x] \in S /\ b \in {A[x]} \cup Above(A, A[x])
        BY <1>1, <1>4
    <2>2. Above(A, x) = {A[x]} \cup Above(A, A[x]) BY <1>0, <2>1, AboveStep
    <2>3. b \in {x} \cup Above(A, x) BY <2>1, <2>2
    <2> QED BY <1>3, <1>4, <2>1, <2>3
<1>5. Listed(A, F, c) \cap Listed(A, F, d) = {} BY <1>1, <1>3
<1> QED BY <1>4, <1>5 DEF Apart

\* Everybody stands below a root, or is one.
LEMMA RootAbove ==
    ASSUME NEW S, IsFiniteSet(S), S \subseteq Nat, NEW A \in Parents(S), Forest(A), NEW r \in S
    PROVE  \E c \in S : A[c] = NONE /\ c \in {r} \cup Above(A, r)
<1>0. DOMAIN A = S /\ NONE \notin S /\ \A x \in S : A[x] \in S \cup {NONE} BY DEF Parents, NONE
<1>1. Above(A, r) \subseteq S /\ A[r] \in Above(A, r) \cup {NONE} /\ Closed(A, Above(A, r)) BY AboveIs
<1>2. PICK H : H = {Depth(A, x) : x \in {r} \cup Above(A, r)} OBVIOUS
<1>3. H \subseteq Nat /\ H # {}
    <2>1. ASSUME NEW x \in S PROVE Depth(A, x) \in Nat BY DepthFalls
    <2> QED BY ONLY <1>1, <1>2, <2>1, r \in S
<1>4. PICK h \in H : \A k \in H : h <= k BY <1>3, LeastNatural
<1>5. PICK c \in {r} \cup Above(A, r) : Depth(A, c) = h BY <1>2, <1>4
<1>6. c \in S BY <1>1
<1>7. ASSUME A[c] # NONE PROVE FALSE
    <2>1. A[c] \in Above(A, r) BY <1>0, <1>1, <1>6, <1>7 DEF Closed
    <2>2. Depth(A, c) = Depth(A, A[c]) + 1 /\ Depth(A, A[c]) \in H
        BY <1>2, <1>6, <1>7, <2>1, DepthFalls
    <2>3. h <= Depth(A, A[c]) BY <1>4, <2>2
    <2>4. h \in Nat /\ Depth(A, A[c]) \in Nat BY <1>3, <2>2
    <2> QED BY ONLY <1>5, <2>2, <2>3, <2>4
<1> QED BY <1>5, <1>6, <1>7

\* Nothing folded above: the processes at the top, and what is below them.
LEMMA UnfoldedIs ==
    ASSUME NEW S, IsFiniteSet(S), S \subseteq Nat, NEW A \in Parents(S), Forest(A), NEW F
    PROVE  Unfolded(A, F) = Under(A, F, S, NONE)
<1>0. DOMAIN A = S BY DEF Parents
<1>1. ASSUME NEW c \in S, A[c] = NONE, NEW x \in Listed(A, F, c) PROVE x \in Unfolded(A, F)
    <2>1. Above(A, c) = {} BY <1>1, AboveStep
    <2> QED BY <1>0, <2>1 DEF Listed, Unfolded
<1>2. ASSUME NEW x \in Unfolded(A, F) PROVE \E c \in S : A[c] = NONE /\ x \in Listed(A, F, c)
    <2>1. x \in S /\ \A f \in F : f \notin Above(A, x) BY <1>0 DEF Unfolded
    <2>2. PICK c \in S : A[c] = NONE /\ c \in {x} \cup Above(A, x) BY <2>1, RootAbove
    <2> QED BY <1>0, <2>1, <2>2 DEF Listed
<1> QED BY <1>1, <1>2 DEF Under

\* K lists everybody's children, and the roots.
IsKids(K, r, A, S, n) ==
    /\ n \in Nat /\ K[r] \in [1..n -> S] /\ DOMAIN K[r] = 1..n
    /\ \A i \in 1..n : K[r][i] \in S /\ A[K[r][i]] = r
    /\ \A i, j \in 1..n : K[r][i] = K[r][j] => i = j
    /\ \A c \in S : A[c] = r => \E i \in 1..n : K[r][i] = c

Kids(K, A, S) == \A r \in S \cup {NONE} : \E n : IsKids(K, r, A, S, n)

Below1(w, K, r) == FlattenSeq([i \in DOMAIN K[r] |-> w[K[r][i]]])
NextWalk(w, F, K, r) == IF r \in F THEN <<r>> ELSE <<r>> \o Below1(w, K, r)
IsWalking(w, S, F, K) == w = [r \in S |-> NextWalk(w, F, K, r)]

Walkable(S, F, K) == \E w : IsWalking(w, S, F, K)

WalkedDownTo(w, A, S, F, K, n, d) ==
    DOMAIN w = S /\ \A r \in S : Depth(A, r) + d > n => w[r] = NextWalk(w, F, K, r)

\* Walking the children needs only the walks of the children.
LEMMA SameBelow ==
    ASSUME NEW K, NEW r, NEW A, NEW S, NEW n, IsKids(K, r, A, S, n), NEW v, NEW w,
           \A c \in S : A[c] = r => v[c] = w[c]
    PROVE  Below1(v, K, r) = Below1(w, K, r)
<1>1. \A i \in DOMAIN K[r] : v[K[r][i]] = w[K[r][i]] BY DEF IsKids
<1>2. [i \in DOMAIN K[r] |-> v[K[r][i]]] = [i \in DOMAIN K[r] |-> w[K[r][i]]] BY <1>1
<1> QED BY <1>2 DEF Below1

\* The walk of every process exists, from the deepest up.
LEMMA WalkingExists ==
    ASSUME NEW S, IsFiniteSet(S), S \subseteq Nat, NEW A \in Parents(S), Forest(A), NEW F, NEW K,
           Kids(K, A, S)
    PROVE  Walkable(S, F, K)
<1>0. DOMAIN A = S /\ NONE \notin S BY DEF Parents, NONE
<1>1. PICK n \in Nat : n = Cardinality(S) BY FS_CardinalityType
<1>2. \A r \in S : Depth(A, r) \in Nat /\ Depth(A, r) <= n BY <1>1, DepthFalls
<1>3. ASSUME NEW r \in S, NEW c \in S, A[c] = r PROVE Depth(A, c) = Depth(A, r) + 1
    <2>1. A[c] # NONE BY <1>0, <1>3
    <2> QED BY <1>3, <2>1, DepthFalls
<1> DEFINE In == {d \in Nat : \E w : WalkedDownTo(w, A, S, F, K, n, d)}
<1>4. 0 \in In
    <2>1. PICK w : w = [r \in S |-> r] OBVIOUS
    <2>2. \A r \in S : ~(Depth(A, r) + 0 > n) BY <1>1, <1>2
    <2>3. DOMAIN w = S BY <2>1
    <2>4. WalkedDownTo(w, A, S, F, K, n, 0) BY ONLY <2>2, <2>3 DEF WalkedDownTo
    <2> QED BY <2>4
<1>5. ASSUME NEW d \in Nat, d \in In PROVE d + 1 \in In
    <2>1. PICK v : WalkedDownTo(v, A, S, F, K, n, d) BY <1>5
    <2>2. PICK w : w = [r \in S |-> NextWalk(v, F, K, r)] OBVIOUS
    <2>3. ASSUME NEW r \in S, Depth(A, r) + (d + 1) > n PROVE w[r] = NextWalk(w, F, K, r)
        <3>1. ASSUME NEW c \in S, A[c] = r PROVE v[c] = w[c]
            <4>1. Depth(A, c) + d > n
                <5>1. Depth(A, c) = Depth(A, r) + 1 /\ Depth(A, r) \in Nat BY <1>2, <1>3, <3>1
                <5> QED BY ONLY <5>1, <1>1, <2>3, d \in Nat
            <4>2. v[c] = NextWalk(v, F, K, c) BY ONLY <2>1, <4>1, c \in S DEF WalkedDownTo
            <4> QED BY <2>2, <4>2
        <3>2. PICK m : IsKids(K, r, A, S, m) BY DEF Kids
        <3>3. Below1(v, K, r) = Below1(w, K, r) BY ONLY <3>1, <3>2, SameBelow
        <3> QED BY <2>2, <3>3 DEF NextWalk
    <2>4. DOMAIN w = S BY <2>2
    <2>5. WalkedDownTo(w, A, S, F, K, n, d + 1) BY ONLY <2>3, <2>4 DEF WalkedDownTo
    <2> QED BY <2>5
<1>6. n + 1 \in In
    <2>1. \A d \in Nat : d \in In
        <3> HIDE DEF In
        <3> QED BY <1>4, <1>5, NatSetInduction
    <2> QED BY <1>1, <2>1
<1>7. PICK w : WalkedDownTo(w, A, S, F, K, n, n + 1) BY <1>6
<1>8. \A r \in S : Depth(A, r) + (n + 1) > n BY <1>1, <1>2
<1>9. DOMAIN w = S /\ \A r \in S : w[r] = NextWalk(w, F, K, r) BY ONLY <1>7, <1>8 DEF WalkedDownTo
<1>10. PICK v : v = [r \in S |-> NextWalk(w, F, K, r)] OBVIOUS
<1>11. v = [r \in S |-> NextWalk(v, F, K, r)]
    <2>1. ASSUME NEW r \in S PROVE NextWalk(w, F, K, r) = NextWalk(v, F, K, r)
        <3>1. \A c \in S : A[c] = r => w[c] = v[c] BY ONLY <1>9, <1>10
        <3>2. PICK m : IsKids(K, r, A, S, m) BY DEF Kids
        <3>3. Below1(w, K, r) = Below1(v, K, r) BY ONLY <3>1, <3>2, SameBelow
        <3> QED BY <3>3 DEF NextWalk
    <2> QED BY ONLY <1>10, <2>1
<1> QED BY <1>11 DEF Walkable, IsWalking

\* Siblings, or the roots, and what is listed below them, one after the other.
LEMMA KidsWalk ==
    ASSUME NEW S, IsFiniteSet(S), S \subseteq Nat, NEW A \in Parents(S), Forest(A), NEW F, NEW K,
           NEW r \in S \cup {NONE}, NEW n, IsKids(K, r, A, S, n), NEW w,
           \A c \in S : A[c] = r => IsWalk(w[c], A, Listed(A, F, c))
    PROVE  IsWalk(Below1(w, K, r), A, Under(A, F, S, r))
<1>1. /\ n \in Nat /\ DOMAIN K[r] = 1..n
      /\ \A i \in 1..n : K[r][i] \in S /\ A[K[r][i]] = r
      /\ \A i, j \in 1..n : K[r][i] = K[r][j] => i = j
      /\ \A c \in S : A[c] = r => \E i \in 1..n : K[r][i] = c
    BY DEF IsKids
<1>2. PICK X, seqs : X = [i \in 1..n |-> Listed(A, F, K[r][i])] /\ seqs = [i \in 1..n |-> w[K[r][i]]]
    OBVIOUS
<1>3. \A c \in S : Listed(A, F, c) \subseteq S BY ListedIs DEF ListedDown
<1>4. X \in [1..n -> SUBSET S] BY ONLY <1>1, <1>2, <1>3
<1>5. ASSUME NEW i \in 1..n PROVE IsWalk(seqs[i], A, X[i]) /\ seqs[i] \in Seq(S)
    <2>1. PICK c \in S : c = K[r][i] /\ A[c] = r BY <1>1
    <2>2. seqs[i] = w[c] /\ X[i] = Listed(A, F, c) BY ONLY <1>2, <2>1, i \in 1..n
    <2>3. IsWalk(seqs[i], A, X[i]) BY <2>1, <2>2
    <2>4. seqs[i] \in Seq(X[i]) /\ X[i] \subseteq S BY <1>3, <2>1, <2>2, <2>3 DEF IsWalk, Walks
    <2> QED BY ONLY <2>3, <2>4, SeqOfMore
<1>6. seqs \in [1..n -> Seq(S)] BY ONLY <1>2, <1>5
<1>7. ASSUME NEW i \in 1..n, NEW j \in 1..n, i # j PROVE Apart(A, X[i], X[j])
    <2>0. K[r][i] \in S /\ A[K[r][i]] = r /\ K[r][j] \in S /\ A[K[r][j]] = r BY ONLY <1>1, <1>7
    <2>1. PICK c \in S, d \in S : c = K[r][i] /\ A[c] = r /\ d = K[r][j] /\ A[d] = r BY ONLY <2>0
    <2>2. c # d BY ONLY <1>1, <1>7, <2>1
    <2>3. X[i] = Listed(A, F, c) /\ X[j] = Listed(A, F, d) BY ONLY <1>2, <2>1, i \in 1..n, j \in 1..n
    <2> QED BY <2>1, <2>2, <2>3, ListedApart
<1>8. IsWalk(FlattenSeq(seqs), A, Together(X, n)) BY ONLY <1>1, <1>4, <1>5, <1>6, <1>7, FlattenedWalks
<1>9. Together(X, n) = Under(A, F, S, r)
    <2>1. \A x : (\E i \in 1..n : x \in Listed(A, F, K[r][i]))
                    <=> (\E c \in S : A[c] = r /\ x \in Listed(A, F, c))
        BY ONLY <1>1
    <2> QED BY <1>2, <2>1 DEF Together, Under
<1> QED BY <1>1, <1>2, <1>8, <1>9 DEF Below1

\* table.rs, build_tree_order: everybody's walk lists what is below it down to what is folded.
LEMMA WalkingWalks ==
    ASSUME NEW S, IsFiniteSet(S), S \subseteq Nat, NEW A \in Parents(S), Forest(A), NEW F, NEW K,
           Kids(K, A, S), NEW w, IsWalking(w, S, F, K)
    PROVE  IsWalk(Below1(w, K, NONE), A, Unfolded(A, F))
<1>0. DOMAIN A = S /\ NONE \notin S BY DEF Parents, NONE
<1>1. PICK n \in Nat : n = Cardinality(S) BY FS_CardinalityType
<1>2. \A r \in S : Depth(A, r) \in Nat /\ Depth(A, r) <= n BY <1>1, DepthFalls
<1>3. ASSUME NEW r \in S, NEW c \in S, A[c] = r PROVE Depth(A, c) = Depth(A, r) + 1
    <2>1. A[c] # NONE BY <1>0, <1>3
    <2> QED BY <1>3, <2>1, DepthFalls
<1>4. \A r \in S : w[r] = NextWalk(w, F, K, r) BY DEF IsWalking
<1> DEFINE In == {d \in Nat : \A r \in S : Depth(A, r) + d > n => IsWalk(w[r], A, Listed(A, F, r))}
<1>5. 0 \in In BY <1>1, <1>2
<1>6. ASSUME NEW d \in Nat, d \in In PROVE d + 1 \in In
    <2> SUFFICES ASSUME NEW r \in S, Depth(A, r) + (d + 1) > n
                 PROVE  IsWalk(w[r], A, Listed(A, F, r))
        OBVIOUS
    <2>1. A[r] # r /\ r \notin Above(A, r)
        <3>1. r \notin Above(A, r) BY <1>0 DEF Forest
        <3>2. A[r] \in Above(A, r) \cup {NONE} BY AboveIs
        <3> QED BY <1>0, <3>1, <3>2
    <2>11. ListedDown(A, F, S, r) BY ListedIs
    <2>2. CASE r \in F
        <3>1. w[r] = <<r>> BY <1>4, <2>2 DEF NextWalk
        <3>2. Listed(A, F, r) = {r} BY <2>2, <2>11 DEF ListedDown
        <3>3. Walks(<<r>>, A, {r}, 1) BY ONLY <2>1, WalkOfOne
        <3> QED BY ONLY <3>1, <3>2, <3>3, WalkIs
    <2>3. CASE r \notin F
        <3>1. ASSUME NEW c \in S, A[c] = r PROVE IsWalk(w[c], A, Listed(A, F, c))
            <4>1. Depth(A, c) + d > n
                <5>1. Depth(A, c) = Depth(A, r) + 1 /\ Depth(A, r) \in Nat BY <1>2, <1>3, <3>1
                <5>2. Depth(A, r) + (d + 1) > n OBVIOUS
                <5> QED BY ONLY <5>1, <5>2, <1>1, d \in Nat
            <4> QED BY <1>6, <4>1
        <3>2. PICK m : IsKids(K, r, A, S, m) BY DEF Kids
        <3>3. PICK X, q : X = Under(A, F, S, r) /\ q = Below1(w, K, r)
            OBVIOUS
        <3>4. IsWalk(q, A, X) BY <3>1, <3>2, <3>3, KidsWalk
        <3>5. \A x \in X : x \in S /\ r \in Above(A, x)
            <4> SUFFICES ASSUME NEW c \in S, A[c] = r, NEW x \in Listed(A, F, c)
                         PROVE  x \in S /\ r \in Above(A, x)
                BY <3>3 DEF Under
            <4>1. x \in S /\ c \in {x} \cup Above(A, x) BY <1>0 DEF Listed
            <4>2. r \in Above(A, c)
                <5>1. A[c] # NONE BY <1>0
                <5> QED BY <5>1, AboveIs
            <4>3. CASE c = x BY <4>1, <4>2, <4>3
            <4>4. CASE c \in Above(A, x)
                <5>1. Above(A, c) \subseteq Above(A, x) BY <4>1, <4>4, AboveAll
                <5> QED BY <4>1, <4>2, <5>1
            <4> QED BY <4>1, <4>3, <4>4
        <3>6. r \notin X BY <2>1, <3>5
        <3>7. A[r] \notin X
            <4> SUFFICES ASSUME A[r] \in X PROVE FALSE OBVIOUS
            <4>1. A[r] \in S /\ r \in Above(A, A[r]) BY <3>5
            <4>2. Above(A, r) = {A[r]} \cup Above(A, A[r]) BY <1>0, <4>1, AboveStep
            <4> QED BY <2>1, <4>1, <4>2
        <3>8. Walks(<<r>> \o q, A, {r} \cup X, Len(q) + 1)
            BY ONLY <2>1, <3>4, <3>5, <3>6, <3>7, WalkUnder DEF IsWalk
        <3>9. w[r] = <<r>> \o q BY <1>4, <2>3, <3>3 DEF NextWalk
        <3>10. Listed(A, F, r) = {r} \cup X BY <2>3, <2>11, <3>3 DEF ListedDown
        <3> QED BY ONLY <3>8, <3>9, <3>10, WalkIs
    <2> QED BY <2>2, <2>3
<1>7. ASSUME NEW r \in S PROVE IsWalk(w[r], A, Listed(A, F, r))
    <2>1. \A d \in Nat : d \in In
        <3> HIDE DEF In
        <3> QED BY <1>5, <1>6, NatSetInduction
    <2>2. n + 1 \in In BY <1>1, <2>1
    <2>3. Depth(A, r) + (n + 1) > n BY <1>1, <1>2
    <2> QED BY <2>2, <2>3
<1>8. PICK m : IsKids(K, NONE, A, S, m) BY DEF Kids
<1>9. IsWalk(Below1(w, K, NONE), A, Under(A, F, S, NONE))
    BY <1>7, <1>8, KidsWalk
<1> QED BY <1>9, UnfoldedIs

\* Fewer processes have less above them.
LEMMA AboveOfFewer ==
    ASSUME NEW S, IsFiniteSet(S), S \subseteq Nat, NEW P \in Parents(S), NEW V \in SUBSET S,
           NEW A \in Parents(V), \A x \in V : A[x] \in {P[x], NONE}
    PROVE  IsFiniteSet(V) /\ V \subseteq Nat /\ \A r \in V : Above(A, r) \subseteq Above(P, r)
<1>0. DOMAIN P = S /\ DOMAIN A = V BY DEF Parents
<1>1. IsFiniteSet(V) /\ V \subseteq Nat BY FS_Subset
<1>2. ASSUME NEW r \in V PROVE Above(A, r) \subseteq Above(P, r)
    <2>1. PICK T : T = Above(P, r) OBVIOUS
    <2>2. T \subseteq S /\ Closed(P, T) /\ P[r] \in T \cup {NONE}
        <3>1. r \in S OBVIOUS
        <3> QED BY <2>1, <3>1, AboveIs
    <2>3. Closed(A, T) /\ A[r] \in T \cup {NONE} BY <1>0, <2>2 DEF Closed
    <2> QED BY <1>1, <2>1, <2>3, AboveIs
<1> QED BY <1>1, <1>2

-----------------------------------------------------------------------------
(* The dead band                                                            *)

\* A band starts and ends no lower for a higher key (BandsMoveUp).  So if each of two
\* values is in its own key's band, and the keys are ordered one way and the values the
\* other, each value is in the other key's band as well.

\* The two sides of the band: value is not below it, value is not above it.
Floor(value, key) == key - value <= Abs \/ 100 * (key - value) <= Rel * key
Ceiling(value, key) == value - key <= Abs \/ 100 * (value - key) <= Rel * key

\* A value is in a band when it is neither below nor above it.
LEMMA BandIsBetween ==
    ASSUME NEW value \in Nat, NEW key \in Nat
    PROVE  InBand(value, key) <=> Floor(value, key) /\ Ceiling(value, key)
<1>1. Abs \in Nat /\ Rel \in 0 .. 100 BY BandAssumption
<1>2. PICK w \in Nat : w = Rel * key BY <1>1
<1> QED BY ONLY <1>1, <1>2, value \in Nat, key \in Nat DEF InBand, Floor, Ceiling

\* A higher key's band starts no lower and ends no lower, as Rel is at most 100.
LEMMA BandsMoveUp ==
    ASSUME NEW low \in Nat, NEW high \in Nat, low <= high, NEW value \in Nat
    PROVE  /\ Floor(value, high) => Floor(value, low)
           /\ Ceiling(value, low) => Ceiling(value, high)
<1>1. Abs \in Nat /\ Rel \in 0 .. 100 BY BandAssumption
<1>2. PICK up \in Nat : high = low + up
    <2>1. high - low \in Nat /\ high = low + (high - low) OBVIOUS
    <2> QED BY <2>1
<1>3. Rel * high = Rel * low + Rel * up BY <1>1, <1>2
<1>4. Rel * up \in Nat /\ Rel * up <= 100 * up BY <1>1
<1>5. Rel * low \in Nat /\ Rel * high \in Nat BY <1>1
<1>6. PICK l \in Nat, h \in Nat, u \in Nat :
          /\ l = Rel * low /\ h = Rel * high /\ u = Rel * up
          /\ h = l + u /\ u <= 100 * up
    BY <1>3, <1>4, <1>5
<1>7. Floor(value, high) => Floor(value, low)
    BY ONLY <1>1, <1>2, <1>6, low \in Nat, high \in Nat, value \in Nat DEF Floor
<1>8. Ceiling(value, low) => Ceiling(value, high)
    BY ONLY <1>1, <1>2, <1>6, low \in Nat, high \in Nat, value \in Nat DEF Ceiling
<1> QED BY <1>7, <1>8

\* steady.rs: "two rows can only be shown out of order when each one's value is within
\* the other's key's dead band".
THEOREM OutOfOrderIsWithinBands ==
    ASSUME NEW k1 \in Nat, NEW v1 \in Nat, InBand(v1, k1),
           NEW k2 \in Nat, NEW v2 \in Nat, InBand(v2, k2),
           k2 <= k1, v1 <= v2
    PROVE  InBandOfEachOther(k1, v1, k2, v2)
<1>1. Floor(v1, k1) /\ Ceiling(v2, k2) BY BandIsBetween
<1>2. Floor(v1, k2) /\ Ceiling(v2, k1) BY <1>1, BandsMoveUp
<1>3. Ceiling(v1, k2) BY <1>1, BandAssumption DEF Ceiling
<1>4. Floor(v2, k1) BY <1>1, BandAssumption DEF Floor
<1> QED BY <1>2, <1>3, <1>4, BandIsBetween DEF InBandOfEachOther

\* Steady::update with the pointer away: whatever the keys were before, afterwards every
\* row with a value has a key, which its value is in the band of, so that two rows whose
\* keys and values disagree are within each other's bands; and no other row has one.
THEOREM UpdateBoundsDisorder ==
    ASSUME NEW Ordered, NEW value \in [Ordered -> Nat], NEW b,
           \A r \in DOMAIN keys : keys[r] \in Nat,
           Update(b, TRUE, value, FALSE)
    PROVE  /\ keys' \in [Ordered -> Nat]
           /\ \A r \in Ordered : InBand(value[r], keys'[r])
           /\ \A r, s \in Ordered :
                (keys'[s] <= keys'[r] /\ value[r] <= value[s]) =>
                    InBandOfEachOther(keys'[r], value[r], keys'[s], value[s])
<1>1. keys' = [r \in Ordered |->
                IF basis = b /\ r \in DOMAIN keys THEN KeyOf(keys[r], value[r], FALSE) ELSE value[r]]
    BY DEF Update
<1>2. \A v \in Nat : InBand(v, v) BY BandAssumption DEF InBand
<1>3. ASSUME NEW r \in Ordered
      PROVE  keys'[r] \in Nat /\ InBand(value[r], keys'[r])
    <2>1. CASE basis = b /\ r \in DOMAIN keys
        <3>1. keys'[r] = IF InBand(value[r], keys[r]) THEN keys[r] ELSE value[r]
            BY <1>1, <2>1 DEF KeyOf
        <3> QED BY <1>2, <2>1, <3>1
    <2>2. CASE ~(basis = b /\ r \in DOMAIN keys)
        <3>1. keys'[r] = value[r] BY <1>1, <2>2
        <3> QED BY <1>2, <3>1
    <2> QED BY <2>1, <2>2
<1>4. keys' \in [Ordered -> Nat] BY <1>1, <1>3
<1>5. ASSUME NEW r \in Ordered, NEW s \in Ordered, keys'[s] <= keys'[r], value[r] <= value[s]
      PROVE  InBandOfEachOther(keys'[r], value[r], keys'[s], value[s])
    BY <1>3, <1>5, OutOfOrderIsWithinBands
<1> QED BY <1>3, <1>4, <1>5

-----------------------------------------------------------------------------
(* The rows are those that would be built now                               *)

\* What building the rows reads, besides the arrangement, the filter and the folding.
Reads == <<snap, parent, rollup, sort_col, sort_desc, basis, keys>>

\* The rows as they would be built, where nothing they are read from changes,
LEMMA BuiltIs ==
    ASSUME UNCHANGED Reads, NEW t, NEW v, NEW f, tree' = t, Visible' = v, collapsed' = f
    PROVE  Built' = Rows(t, v, f)
<1>1. SortKeys(t)' = SortKeys(t) BY DEF Reads, SortKeys, RawKeys, Key, List, Banded
<1>2. ASSUME NEW above PROVE Listing(t, above, f)' = Listing(t, above, f)
    BY <1>1 DEF Reads, Listing, Precedes
<1>3. ShownParent(v)' = ShownParent(v) BY DEF Reads, ShownParent
<1>4. Rows(t, v, f)' = Rows(t, v, f) BY <1>2, <1>3 DEF Reads, Rows
<1>5. Built' = Rows(t, v, f)' BY DEF Built
<1> QED BY <1>4, <1>5

\* and where the arrangement, the filter and the folding do not either.
LEMMA BuiltKept ==
    ASSUME UNCHANGED Reads, UNCHANGED <<tree, shown, collapsed>>
    PROVE  Built' = Built
<1>1. PICK t, v, f : t = tree /\ v = Visible /\ f = collapsed OBVIOUS
<1>2. Visible' = Visible BY DEF Reads, Visible, VisibleOf, List
<1>3. Built' = Rows(t, v, f) BY <1>1, <1>2, BuiltIs
<1> QED BY <1>1, <1>3 DEF Built

\* table.rs, ensure_order and dirty: rows that are not marked for rebuilding are those that
\* would be built now, whatever the processes, the snapshots and the bounds.
THEOREM OrderIsAlwaysCurrent == Spec => []OrderIsCurrent
<1>1. Init => OrderIsCurrent BY DEF Init, OrderIsCurrent
<1>2. OrderIsCurrent /\ [Next]_vars => OrderIsCurrent'
    <2> SUFFICES ASSUME OrderIsCurrent, [Next]_vars, ~dirty' PROVE order' = Built'
        BY DEF OrderIsCurrent
    <2> USE DEF Reads, view, table, steadyVars
    <2>0. ASSUME UNCHANGED Reads, UNCHANGED <<tree, shown, collapsed>>, order' = Ensured
          PROVE  order' = Built'
        BY <2>0, BuiltKept DEF Ensured, OrderIsCurrent
    <2>1. ASSUME UNCHANGED Reads, UNCHANGED <<tree, shown, collapsed, order, dirty>>
          PROVE  order' = Built'
        BY <2>1, BuiltKept DEF OrderIsCurrent
    <2>2. ASSUME NEW s \in Snapshots, SetSnapshot(s) PROVE order' = Built'
        <3>1. CASE paused BY <2>1, <2>2, <3>1 DEF SetSnapshot
        <3>2. CASE ~paused BY <2>2, <3>2 DEF SetSnapshot, Show
        <3> QED BY <3>1, <3>2
    <2>3. CASE Paint BY <2>0, <2>3 DEF Paint
    <2>4. CASE TogglePause
        <3>1. CASE latest # << >> BY <2>4, <3>1 DEF TogglePause, Show
        <3>2. CASE latest = << >> BY <2>1, <2>4, <3>2 DEF TogglePause
        <3> QED BY <3>1, <3>2
    <2>5. ASSUME NEW on \in BOOLEAN, Point(on) PROVE order' = Built'
        BY <2>1, <2>5 DEF Point, HoldOrder, SetHeld
    <2>6. ASSUME NEW col \in Columns, SetSort(col) PROVE order' = Built' BY <2>6 DEF SetSort
    <2>7. ASSUME NEW mode \in {"list", "tree", "map"}, SetView(mode) PROVE order' = Built'
        <3>1. CASE mode = "map" BY <2>1, <2>7, <3>1 DEF SetView, HoldOrder, SetHeld
        <3>2. CASE mode # "map"
            <4>1. PICK in_tree, through, visible, unfolded :
                    /\ in_tree = (mode = "tree")
                    /\ through = Refilter(snap, parent, in_tree, search)
                    /\ visible = VisibleOf(through)
                    /\ unfolded = IF selected \in List /\ in_tree
                                  THEN collapsed \ FoldedAbove(parent, visible, selected)
                                  ELSE collapsed
                OBVIOUS
            <4>2. /\ tree' = in_tree /\ shown' = through /\ collapsed' = unfolded
                  /\ selected \in List => order' = Rows(in_tree, visible, unfolded)
                  /\ dirty' = (selected \notin List)
                  /\ UNCHANGED Reads
                BY <2>7, <3>2, <4>1 DEF SetView
            <4>3. Visible' = visible BY <4>1, <4>2 DEF Visible, VisibleOf, List
            <4>4. Built' = Rows(in_tree, visible, unfolded) BY <4>2, <4>3, BuiltIs
            <4> QED BY <4>2, <4>4
        <3> QED BY <3>1, <3>2
    <2>8. ASSUME NEW find \in Searches \cup {None}, Search(find) PROVE order' = Built'
        BY <2>8 DEF Search
    <2>9. ASSUME NEW pos \in DOMAIN order, Click(pos) \/ ToggleExpanded(pos) PROVE order' = Built'
        BY <2>1, <2>9 DEF Click, ToggleExpanded
    <2>10. ASSUME NEW delta \in {-1, 1}, MoveSelection(delta) PROVE order' = Built'
        BY <2>0, <2>10 DEF MoveSelection
    <2>11. ASSUME NEW fold \in BOOLEAN, FoldOrStep(fold) PROVE order' = Built'
        BY <2>0, <2>11 DEF FoldOrStep
    <2>12. CASE UNCHANGED vars BY <2>1, <2>12 DEF vars
    <2> QED BY <2>2, <2>3, <2>4, <2>5, <2>6, <2>7, <2>8, <2>9, <2>10, <2>11, <2>12
            DEF Next, Input, Done
<1> QED BY <1>1, <1>2, PTL DEF Spec

-----------------------------------------------------------------------------
Waiting == {<< >>} \cup {<<s>> : s \in Snapshots}

\* What is on screen is one of the snapshots, with its parents repaired and its figures
\* folded; so is what waits for the end of a pause.
Displayed ==
    /\ snap \in Snapshots /\ latest \in Waiting
    /\ parent = Rebuild(snap.list, snap.started_by)
    /\ rollup = Rollups(parent, snap.figure)

\* It always is.
LEMMA DisplayedAlways == Spec => []Displayed
<1>1. Init => Displayed BY DEF Init, Displayed, Waiting
<1>2. Displayed /\ [Next]_vars => Displayed'
    <2> SUFFICES ASSUME Displayed, [Next]_vars PROVE Displayed' OBVIOUS
    <2> USE DEF Displayed, Waiting, view, table, steadyVars
    <2>1. ASSUME UNCHANGED <<snap, parent, rollup>>, latest' \in Waiting PROVE Displayed' BY <2>1
    <2>2. ASSUME NEW s \in Snapshots, Show(s), latest' \in Waiting PROVE Displayed' BY <2>2 DEF Show
    <2>3. ASSUME NEW s \in Snapshots, SetSnapshot(s) PROVE Displayed'
        BY <2>1, <2>2, <2>3 DEF SetSnapshot
    <2>4. CASE Paint BY <2>1, <2>4 DEF Paint
    <2>5. CASE TogglePause
        <3>1. CASE latest # << >>
            <4>1. PICK s \in Snapshots : latest = <<s>> BY <3>1
            <4>2. Show(s) /\ latest' = << >> BY <2>5, <3>1, <4>1 DEF TogglePause
            <4> QED BY <2>2, <4>2
        <3>2. CASE latest = << >> BY <2>1, <2>5, <3>2 DEF TogglePause
        <3> QED BY <3>1, <3>2
    <2>6. ASSUME NEW on \in BOOLEAN, Point(on) PROVE Displayed' BY <2>1, <2>6 DEF Point
    <2>7. ASSUME NEW col \in Columns, SetSort(col) PROVE Displayed' BY <2>1, <2>7 DEF SetSort
    <2>8. ASSUME NEW mode \in {"list", "tree", "map"}, SetView(mode) PROVE Displayed'
        BY <2>1, <2>8 DEF SetView
    <2>9. ASSUME NEW find \in Searches \cup {None}, Search(find) PROVE Displayed' BY <2>1, <2>9 DEF Search
    <2>10. ASSUME NEW pos \in DOMAIN order, Click(pos) \/ ToggleExpanded(pos) PROVE Displayed'
        BY <2>1, <2>10 DEF Click, ToggleExpanded
    <2>11. ASSUME NEW delta \in {-1, 1}, MoveSelection(delta) PROVE Displayed'
        BY <2>1, <2>11 DEF MoveSelection
    <2>12. ASSUME NEW fold \in BOOLEAN, FoldOrStep(fold) PROVE Displayed'
        BY <2>1, <2>12 DEF FoldOrStep
    <2>13. CASE UNCHANGED vars BY <2>1, <2>13 DEF vars
    <2> QED BY <2>3, <2>4, <2>5, <2>6, <2>7, <2>8, <2>9, <2>10, <2>11, <2>12, <2>13
            DEF Next, Input, Done
<1> QED BY <1>1, <1>2, PTL DEF Spec

\* Processes are numbers.
LEMMA ListOfNumbers ==
    ASSUME NEW s \in Snapshots PROVE s.list \in Seq(Nat)
<1>1. s.list \in Seq(Processes) /\ Processes \subseteq Nat BY TableAssumption
<1>2. PICK n \in Nat : s.list \in [1..n -> Processes] BY ONLY <1>1
<1>3. s.list \in [1..n -> Nat] BY ONLY <1>1, <1>2
<1> QED BY ONLY <1>3

\* What Displayed says of the processes on screen.
LEMMA TreeIs ==
    ASSUME Displayed
    PROVE  /\ IsFiniteSet(List) /\ List \subseteq Nat /\ List \subseteq Processes
           /\ parent \in Parents(List) /\ Forest(parent)
           /\ snap.figure \in [List -> Nat] /\ rollup \in Figures(List)
<1>1. /\ snap.list \in Seq(Processes) /\ Processes \subseteq Nat
      /\ snap.figure \in [List -> Nat]
    BY TableAssumption DEF Displayed, List
<1>2. snap.list \in Seq(Nat) BY ListOfNumbers DEF Displayed
<1>3. IsFiniteSet(List) /\ List \subseteq Nat BY <1>2, ListIsFinite DEF List
<1>4. List \subseteq Processes BY <1>1 DEF List, ToSet
<1>5. Repaired(Known(snap.list, snap.started_by), [parent |-> parent, resolved |-> List], List)
    BY <1>2, RebuildRepairs DEF Displayed, List
<1>6. parent \in Parents(List) BY <1>5 DEF Repaired, Trees
<1>7. Forest(parent) BY <1>5, <1>6 DEF Repaired, Forest, Parents
<1>8. rollup \in Figures(List) BY <1>1, <1>3, <1>6, <1>7, RollupsAre DEF Displayed
<1> QED BY <1>1, <1>3, <1>4, <1>6, <1>7, <1>8

\* process_rows.rs, resolve_depths and rollups: on screen nobody is above itself, only links
\* within circles were cut, one in each, and every figure is the sum over what is below.
THEOREM TreeIsAlwaysRepaired == Spec => []TreeIsRepaired
<1>1. ASSUME Displayed PROVE TreeIsRepaired
    <2>1. snap.list \in Seq(Nat) BY <1>1, ListOfNumbers DEF Displayed
    <2>2. PICK known : known = Known(snap.list, snap.started_by) OBVIOUS
    <2>3. known \in Parents(List) /\ Repaired(known, [parent |-> parent, resolved |-> List], List)
        BY <1>1, <2>1, <2>2, RebuildRepairs DEF Displayed, List
    <2>4. parent \in Parents(List) /\ DOMAIN parent = List BY <1>1, TreeIs DEF Parents
    <2>5. /\ \A x \in List : parent[x] \in {known[x], NONE}
          /\ \A x \in List : parent[x] # known[x] => x \in Above(known, x)
          /\ \A x \in List : x \notin Above(parent, x)
          /\ \A x \in List : x \in Above(known, x) =>
                \E c \in List : {y \in Above(known, x) : parent[y] # known[y]} = {c}
        BY <2>3 DEF Repaired
    <2>6. PICK cut : cut = {r \in List : parent[r] # known[r]} OBVIOUS
    <2>7. ASSUME NEW r \in List, r \in Above(known, r) PROVE Cardinality(cut \cap Above(known, r)) = 1
        <3>1. PICK c \in List : {y \in Above(known, r) : parent[y] # known[y]} = {c} BY <2>5, <2>7
        <3>2. Above(known, r) \subseteq List BY <1>1, <2>3, TreeIs, AboveIs
        <3>3. cut \cap Above(known, r) = {c} BY <2>6, <3>1, <3>2
        <3> QED BY <3>3, FS_Singleton
    <2>8. ASSUME NEW r \in List
          PROVE  /\ rollup[r].descendants = Cardinality(Below(parent, r))
                 /\ rollup[r].figure = SumFunctionOnSet(snap.figure, Below(parent, r) \cup {r})
        BY <1>1, TreeIs, RollupsAre DEF Displayed
    <2> QED BY <2>2, <2>5, <2>6, <2>7, <2>8 DEF TreeIsRepaired
<1> QED BY <1>1, DisplayedAlways, PTL

-----------------------------------------------------------------------------
(* The keys                                                                 *)

\* Every step folds the values of what it shows into the keys, or keeps both.
Folds(hold) ==
    \E s \in Snapshots : snap' = s /\ UpdateSteady(s, rollup', hold)

\* What a step does to the keys: it folds a snapshot's values in, lets the held ones go, or
\* leaves them alone.
LEMMA KeysFollow ==
    ASSUME Displayed, [Next]_vars
    PROVE  \/ held' = held /\ Folds(held) /\ UNCHANGED <<tree, sort_col, sort_desc>>
           \/ held' = FALSE /\ UNCHANGED <<snap, rollup, tree, sort_col, sort_desc>>
              /\ UpdateSteady(snap, rollup, FALSE)
           \/ UNCHANGED <<snap, rollup, basis, keys, frozen>>
<1> DEFINE Goal == \/ held' = held /\ Folds(held) /\ UNCHANGED <<tree, sort_col, sort_desc>>
                   \/ held' = FALSE /\ UNCHANGED <<snap, rollup, tree, sort_col, sort_desc>>
                      /\ UpdateSteady(snap, rollup, FALSE)
                   \/ UNCHANGED <<snap, rollup, basis, keys, frozen>>
<1> SUFFICES Goal OBVIOUS
<1> USE DEF view, table, steadyVars
<1>1. ASSUME NEW s \in Snapshots, Show(s), UNCHANGED <<tree, sort_col, sort_desc>> PROVE Goal
    BY <1>1 DEF Show, Folds, UpdateSteady, Update
<1>2. ASSUME UNCHANGED <<snap, rollup, basis, keys, frozen>> PROVE Goal BY <1>2
<1>3. ASSUME NEW on \in BOOLEAN, HoldOrder(on), UNCHANGED <<snap, rollup, sort_col, sort_desc, tree>> PROVE Goal
    BY <1>3 DEF HoldOrder, SetHeld, UpdateSteady, Update
<1> HIDE DEF Goal
<1>4. ASSUME NEW s \in Snapshots, SetSnapshot(s) PROVE Goal BY <1>1, <1>2, <1>4 DEF SetSnapshot
<1>5. CASE Paint BY <1>2, <1>5 DEF Paint
<1>6. CASE TogglePause
    <2>1. CASE latest # << >>
        <3>1. PICK s \in Snapshots : latest = <<s>> BY <2>1 DEF Displayed, Waiting
        <3>2. Show(s) /\ UNCHANGED <<tree, sort_col, sort_desc>> BY <1>6, <2>1, <3>1 DEF TogglePause
        <3> QED BY <1>1, <3>2
    <2>2. CASE latest = << >> BY <1>2, <1>6, <2>2 DEF TogglePause
    <2> QED BY <2>1, <2>2
<1>7. ASSUME NEW on \in BOOLEAN, Point(on) PROVE Goal BY <1>3, <1>7 DEF Point
<1>8. ASSUME NEW col \in Columns, SetSort(col) PROVE Goal BY <1>2, <1>8 DEF SetSort
<1>9. ASSUME NEW mode \in {"list", "tree", "map"}, SetView(mode) PROVE Goal
    <2>1. CASE mode = "map" BY <1>3, <1>9, <2>1 DEF SetView
    <2>2. CASE mode # "map" BY <1>2, <1>9, <2>2 DEF SetView
    <2> QED BY <2>1, <2>2
<1>10. ASSUME NEW find \in Searches \cup {None}, Search(find) PROVE Goal BY <1>2, <1>10 DEF Search
<1>11. ASSUME NEW pos \in DOMAIN order, Click(pos) \/ ToggleExpanded(pos) PROVE Goal
    BY <1>2, <1>11 DEF Click, ToggleExpanded
<1>12. ASSUME NEW delta \in {-1, 1}, MoveSelection(delta) PROVE Goal BY <1>2, <1>12 DEF MoveSelection
<1>13. ASSUME NEW fold \in BOOLEAN, FoldOrStep(fold) PROVE Goal BY <1>2, <1>13 DEF FoldOrStep
<1>14. CASE UNCHANGED vars BY <1>2, <1>14 DEF vars
<1> QED BY <1>4, <1>5, <1>6, <1>7, <1>8, <1>9, <1>10, <1>11, <1>12, <1>13, <1>14 DEF Next, Input, Done

Settings ==
    /\ {paused, map_on, tree, sort_desc, dirty, held, frozen} \subseteq BOOLEAN
    /\ sort_col \in Columns /\ search \in Searches \cup {None}
    /\ (latest # << >> => paused) /\ (held => ~map_on)

\* No step gives them up.
LEMMA SettingsStep == ASSUME Settings, [Next]_vars PROVE Settings'
<1> USE DEF Settings, view, table, steadyVars
<1>1. ASSUME NEW s, Show(s), UNCHANGED <<sort_col, search, tree, sort_desc, map_on>>,
             paused' \in BOOLEAN, latest' # << >> => paused'
      PROVE  Settings'
    BY <1>1 DEF Show, UpdateSteady, Update
<1>2. ASSUME NEW on \in BOOLEAN, HoldOrder(on), on => ~map_on',
             UNCHANGED <<sort_col, search, tree, sort_desc, paused, latest>>, map_on' \in BOOLEAN
      PROVE  Settings'
    BY <1>2 DEF HoldOrder, SetHeld, UpdateSteady, Update
<1>4. ASSUME NEW s \in Snapshots, SetSnapshot(s) PROVE Settings'
    <2>1. CASE paused BY <1>4, <2>1 DEF SetSnapshot
    <2>2. CASE ~paused BY <1>1, <1>4, <2>2 DEF SetSnapshot
    <2> QED BY <2>1, <2>2
<1>5. CASE Paint BY <1>5 DEF Paint
<1>6. CASE TogglePause
    <2>1. CASE latest # << >> BY <1>1, <1>6, <2>1 DEF TogglePause
    <2>2. CASE latest = << >> BY <1>6, <2>2 DEF TogglePause
    <2> QED BY <2>1, <2>2
<1>7. ASSUME NEW on \in BOOLEAN, Point(on) PROVE Settings' BY <1>2, <1>7 DEF Point
<1>8. ASSUME NEW col \in Columns, SetSort(col) PROVE Settings' BY <1>8 DEF SetSort, Banded
<1>9. ASSUME NEW mode \in {"list", "tree", "map"}, SetView(mode) PROVE Settings'
    <2>1. CASE mode = "map" BY <1>2, <1>9, <2>1 DEF SetView
    <2>2. CASE mode # "map" BY <1>9, <2>2 DEF SetView
    <2> QED BY <2>1, <2>2
<1>10. ASSUME NEW find \in Searches \cup {None}, Search(find) PROVE Settings' BY <1>10 DEF Search
<1>11. ASSUME NEW pos \in DOMAIN order, Click(pos) \/ ToggleExpanded(pos) PROVE Settings'
    <2>1. CASE Click(pos) BY <2>1 DEF Click
    <2>2. CASE ToggleExpanded(pos) BY <2>2 DEF ToggleExpanded
    <2> QED BY <1>11, <2>1, <2>2
<1>12. ASSUME NEW delta \in {-1, 1}, MoveSelection(delta) PROVE Settings' BY <1>12 DEF MoveSelection
<1>13. ASSUME NEW fold \in BOOLEAN, FoldOrStep(fold) PROVE Settings' BY <1>13 DEF FoldOrStep
<1>14. CASE UNCHANGED vars BY <1>14 DEF vars
<1> QED BY <1>4, <1>5, <1>6, <1>7, <1>8, <1>9, <1>10, <1>11, <1>12, <1>13, <1>14 DEF Next, Input, Done

\* The keys are of the rows on screen, if their column has a band; and unless a hold keeps
\* them, each one's value is in its band.
KeysFit ==
    /\ basis \in Columns \X BOOLEAN
    /\ DOMAIN keys = IF Banded(basis[1]) THEN List ELSE {}
    /\ \A r \in DOMAIN keys : keys[r] \in Nat
    /\ (~frozen /\ Banded(basis[1])) =>
        \A r \in List : InBand(RawKeys(snap, rollup, basis[2])[r], keys[r])

FiguresFit == snap.figure \in [List -> Nat] /\ rollup \in Figures(List)

\* What is displayed has figures for every process.
LEMMA DisplayedFigures == Displayed => FiguresFit BY TreeIs DEF FiguresFit

\* Steady::update leaves every process on screen a key that fits.
LEMMA KeysAfterUpdate ==
    ASSUME Settings, KeysFit, NEW hold \in BOOLEAN,
           Displayed', UpdateSteady(snap', rollup', hold)
    PROVE  KeysFit'
<1>1. PICK L, value, b : L = List' /\ value = RawKeys(snap', rollup', tree) /\ b = <<sort_col, tree>>
    OBVIOUS
<1>2. value \in [L -> Nat]
    <2>1. FiguresFit' BY DisplayedFigures, PTL
    <2> QED BY <1>1, <2>1 DEF FiguresFit, RawKeys, List, Figures
<1>3. Update(b, Banded(sort_col), value, hold) BY <1>1 DEF UpdateSteady
<1>4. basis' = b /\ frozen' = hold BY <1>3 DEF Update
<1>5. CASE ~Banded(sort_col)
    <2>1. keys' = << >> BY <1>3, <1>5 DEF Update
    <2>2. DOMAIN keys' = {} BY <2>1
    <2> QED BY <1>1, <1>4, <1>5, <2>2 DEF KeysFit, Settings
<1>6. CASE Banded(sort_col)
    <2>1. \A r \in DOMAIN keys : keys[r] \in Nat BY DEF KeysFit
    <2>2. keys' = [r \in L |->
                    IF basis = b /\ r \in DOMAIN keys THEN KeyOf(keys[r], value[r], hold) ELSE value[r]]
        BY <1>2, <1>3, <1>6 DEF Update
    <2>3. DOMAIN keys' = L BY <2>2
    <2>4. \A r \in L : keys'[r] \in Nat BY <1>2, <2>1, <2>2 DEF KeyOf
    <2>5. ASSUME hold = FALSE, NEW r \in L PROVE InBand(value[r], keys'[r])
        <3>1. Update(b, TRUE, value, FALSE) BY <1>3, <1>6, <2>5
        <3> QED BY <1>2, <2>1, <3>1, UpdateBoundsDisorder
    <2>6. b \in Columns \X BOOLEAN /\ b[1] = sort_col /\ b[2] = tree BY <1>1 DEF Settings
    <2>7. RawKeys(snap, rollup, basis[2])' = value BY <1>1, <1>4, <2>6 DEF RawKeys
    <2>8. (~frozen' /\ Banded(basis'[1])) =>
            \A r \in L : InBand(RawKeys(snap, rollup, basis[2])'[r], keys'[r])
        BY <1>4, <2>5, <2>7
    <2> QED BY <1>1, <1>4, <1>6, <2>3, <2>4, <2>6, <2>8 DEF KeysFit, Banded
<1> QED BY <1>5, <1>6

\* No step leaves a process on screen without one.
LEMMA KeysFitStep ==
    ASSUME Displayed, Displayed', Settings, KeysFit, [Next]_vars PROVE KeysFit'
<1>1. CASE held' = held /\ Folds(held)
    <2>1. UpdateSteady(snap', rollup', held) BY <1>1 DEF Folds
    <2> QED BY <2>1, KeysAfterUpdate DEF Settings
<1>2. CASE UNCHANGED <<snap, rollup>> /\ UpdateSteady(snap, rollup, FALSE)
    <2>1. UpdateSteady(snap', rollup', FALSE) BY <1>2
    <2> QED BY <2>1, KeysAfterUpdate
<1>3. CASE UNCHANGED <<snap, rollup, basis, keys, frozen>> BY <1>3 DEF KeysFit, List, RawKeys
<1> QED BY <1>1, <1>2, <1>3, KeysFollow

Shown == Displayed /\ Settings /\ KeysFit

\* What is on screen, what is set and the keys always fit.
LEMMA ShownAlways == Spec => []Shown
<1>1. Init => Shown
    <2> SUFFICES ASSUME Init PROVE Shown OBVIOUS
    <2>1. Displayed BY DEF Init, Displayed, Waiting
    <2>2. Settings BY DEF Init, Settings, Columns
    <2>3. FiguresFit BY <2>1, DisplayedFigures
    <2>4. RawKeys(snap, rollup, tree) \in [List -> Nat] BY <2>3 DEF FiguresFit, RawKeys, List, Figures
    <2>5. basis = <<"cpu", tree>> /\ keys = RawKeys(snap, rollup, tree) /\ tree \in BOOLEAN BY DEF Init
    <2>6. \A v \in Nat : InBand(v, v) BY BandAssumption DEF InBand
    <2>7. KeysFit BY <2>4, <2>5, <2>6 DEF KeysFit, Columns, Banded
    <2> QED BY <2>1, <2>2, <2>7 DEF Shown
<1>2. Spec => []Displayed BY DisplayedAlways
<1>3. Displayed /\ Displayed' /\ Shown /\ [Next]_vars => Shown'
    BY SettingsStep, KeysFitStep DEF Shown
<1> QED BY <1>1, <1>2, <1>3, PTL DEF Spec

\* The keys rows are sorted by.
LEMMA SortKeysAre ==
    ASSUME Shown, NEW t \in BOOLEAN
    PROVE  /\ SortKeys(t) \in [List -> Nat]
           /\ Banded(sort_col) => \A r \in List :
                SortKeys(t)[r] = IF basis = <<sort_col, t>> THEN keys[r]
                                 ELSE RawKeys(snap, rollup, t)[r]
<1>1. /\ List \subseteq Processes /\ RawKeys(snap, rollup, t) \in [List -> Nat]
    <2>1. FiguresFit /\ List \subseteq Processes BY DisplayedFigures, TreeIs DEF Shown
    <2> QED BY <2>1 DEF FiguresFit, RawKeys, List, Figures
<1>2. Name \in [Processes -> Nat] BY TableAssumption
<1>3. /\ DOMAIN keys = IF Banded(basis[1]) THEN List ELSE {}
      /\ \A r \in DOMAIN keys : keys[r] \in Nat
    BY DEF Shown, KeysFit
<1>4. ASSUME NEW r \in List
      PROVE  /\ SortKeys(t)[r] \in Nat
             /\ Banded(sort_col) =>
                    SortKeys(t)[r] = IF basis = <<sort_col, t>> THEN keys[r]
                                     ELSE RawKeys(snap, rollup, t)[r]
    <2>1. SortKeys(t)[r] = IF Banded(sort_col)
                           THEN Key(r, <<sort_col, t>>, RawKeys(snap, rollup, t)[r]) ELSE Name[r]
        BY DEF SortKeys
    <2>2. CASE ~Banded(sort_col) BY <1>1, <1>2, <2>1, <2>2
    <2>3. CASE Banded(sort_col) /\ basis = <<sort_col, t>>
        <3>1. r \in DOMAIN keys BY <1>3, <2>3
        <3> QED BY <1>3, <2>1, <2>3, <3>1 DEF Key
    <2>4. CASE Banded(sort_col) /\ basis # <<sort_col, t>> BY <1>1, <2>1, <2>4 DEF Key
    <2> QED BY <2>2, <2>3, <2>4
<1>5. SortKeys(t) = [r \in List |-> SortKeys(t)[r]] BY DEF SortKeys
<1> QED BY <1>4, <1>5

\* steady.rs: "two rows can only be shown out of order when each one's value is within
\* the other's key's dead band", whatever came since the keys were taken.
THEOREM DisorderIsAlwaysBounded == Spec => []DisorderIsBounded
<1>1. ASSUME Shown PROVE DisorderIsBounded
    <2>1. PICK key, value : key = SortKeys(tree) /\ value = RawKeys(snap, rollup, tree) OBVIOUS
    <2>2. SUFFICES ASSUME Banded(sort_col), ~frozen, NEW a \in Visible, NEW b \in Visible,
                          Precedes(key, a, b), value[a] # value[b], ~Precedes(value, a, b)
                   PROVE  InBandOfEachOther(key[a], value[a], key[b], value[b])
        BY <2>1 DEF DisorderIsBounded
    <2>3. tree \in BOOLEAN /\ sort_desc \in BOOLEAN BY <1>1 DEF Shown, Settings
    <2>4. a \in List /\ b \in List BY DEF Visible, VisibleOf
    <2>5. FiguresFit BY <1>1, DisplayedFigures DEF Shown
    <2>6. value \in [List -> Nat] BY <2>1, <2>5 DEF FiguresFit, RawKeys, List, Figures
    <2>7. key \in [List -> Nat] BY <1>1, <2>1, <2>3, SortKeysAre
    <2>8. ASSUME NEW r \in List PROVE InBand(value[r], key[r])
        <3>1. key[r] = IF basis = <<sort_col, tree>> THEN keys[r] ELSE value[r]
            BY <1>1, <2>1, <2>2, <2>3, SortKeysAre
        <3>2. CASE basis # <<sort_col, tree>>
            <4>1. InBand(value[r], value[r]) BY <2>6, BandAssumption DEF InBand
            <4> QED BY <3>1, <3>2, <4>1
        <3>3. CASE basis = <<sort_col, tree>>
            <4>1. basis[1] = sort_col /\ basis[2] = tree BY <3>3
            <4> QED BY <1>1, <2>1, <2>2, <3>1, <3>3, <4>1 DEF Shown, KeysFit
        <3> QED BY <3>2, <3>3
    <2>9. PICK ka \in Nat, kb \in Nat, va \in Nat, vb \in Nat :
            /\ ka = key[a] /\ kb = key[b] /\ va = value[a] /\ vb = value[b]
        BY <2>4, <2>6, <2>7
    <2>10. InBand(va, ka) /\ InBand(vb, kb) BY <2>4, <2>8, <2>9
    <2>11. (kb <= ka /\ va <= vb) \/ (ka <= kb /\ vb <= va)
        BY <2>2, <2>3, <2>9 DEF Precedes
    <2>12. CASE kb <= ka /\ va <= vb BY <2>9, <2>10, <2>12, OutOfOrderIsWithinBands
    <2>13. CASE ka <= kb /\ vb <= va
        <3>1. InBandOfEachOther(kb, vb, ka, va) BY <2>10, <2>13, OutOfOrderIsWithinBands
        <3> QED BY <2>9, <3>1 DEF InBandOfEachOther
    <2> QED BY <2>11, <2>12, <2>13
<1> QED BY <1>1, ShownAlways, PTL

\* steady.rs: "while the order is held (the pointer is over the table) keys do not move
\* at all", whatever snapshots come.
LEMMA HeldKeysStay ==
    ASSUME Shown, Shown', [Next]_vars, held, held', Banded(sort_col),
           basis = <<sort_col, tree>>, UNCHANGED <<sort_col, tree>>, NEW r \in List, r \in List'
    PROVE  SortKeys(tree)'[r] = SortKeys(tree)[r]
<1>1. DOMAIN keys = List BY DEF Shown, KeysFit
<1>2. basis' = basis /\ keys'[r] = keys[r]
    <2>1. CASE Folds(held)
        <3>1. PICK s \in Snapshots : snap' = s /\ UpdateSteady(s, rollup', held) BY <2>1 DEF Folds
        <3>2. basis' = <<sort_col, tree>> BY <3>1 DEF UpdateSteady, Update
        <3>3. List' = ToSet(s.list) BY <3>1 DEF List
        <3>4. keys'[r] = KeyOf(keys[r], RawKeys(s, rollup', tree)[r], held)
            BY <1>1, <3>1, <3>3 DEF UpdateSteady, Update, RawKeys
        <3> QED BY <3>2, <3>4 DEF KeyOf
    <2>2. CASE UNCHANGED <<snap, rollup, basis, keys, frozen>> BY <2>2
    <2>3. held' # FALSE OBVIOUS
    <2> QED BY <2>1, <2>2, <2>3, KeysFollow DEF Shown
<1>3. Key(r, basis, RawKeys(snap, rollup, tree)[r]) = keys[r] BY <1>1 DEF Key
<1>4. SortKeys(tree)[r] = keys[r] BY <1>3 DEF SortKeys
<1>5. DOMAIN keys' = List' BY <1>2 DEF Shown, KeysFit
<1>6. SortKeys(tree)'[r] = keys'[r] BY <1>2, <1>5 DEF SortKeys, Key
<1> QED BY <1>2, <1>4, <1>6

\* steady.rs, frozen: while the pointer is on the table and the set of rows stays, rows keep
\* their places, whatever their values do.
THEOREM HeldRowsAlwaysStay == Spec => HeldRowsStay
<1>1. ASSUME Shown, Shown', [Next]_vars, held, held', basis = <<sort_col, tree>>,
             UNCHANGED <<sort_col, sort_desc, tree>>, Banded(sort_col),
             NEW a \in List \cap List', NEW b \in List \cap List'
      PROVE  Precedes(SortKeys(tree), a, b) <=> Precedes(SortKeys(tree)', a, b)
    <2>1. SortKeys(tree)'[a] = SortKeys(tree)[a] /\ SortKeys(tree)'[b] = SortKeys(tree)[b]
        BY <1>1, HeldKeysStay
    <2> QED BY <2>1 DEF Precedes
<1>2. Shown /\ Shown' /\ [Next]_vars =>
        [LET SameHold == held /\ held' /\ basis = <<sort_col, tree>> /\ UNCHANGED <<sort_col, sort_desc, tree>>
             Stays(r) == ~tree \/ parent'[r] = parent[r]
         IN (SameHold /\ Banded(sort_col)) =>
              \A a, b \in List \cap List' :
                  ((~tree \/ parent[a] = parent[b]) /\ Stays(a) /\ Stays(b)) =>
                      (Precedes(SortKeys(tree), a, b) <=> Precedes(SortKeys(tree)', a, b))]_vars
    BY <1>1
<1> QED BY <1>2, ShownAlways, PTL DEF Spec, HeldRowsStay

-----------------------------------------------------------------------------
(* The rows                                                                 *)

Before(key, V) == {e \in V \X V : Precedes(key, e[1], e[2])}
ByKeys(key, V) == Arranged(V, Before(key, V))
ChildrenOf(key, A, r) == ByKeys(key, {k \in DOMAIN A : A[k] = r})

\* All of V, each once.
Once(q, V, n) ==
    /\ n \in Nat /\ q \in [1..n -> V] /\ DOMAIN q = 1..n
    /\ \A i, j \in 1..n : q[i] = q[j] => i = j
    /\ \A r \in V : \E i \in 1..n : q[i] = r

\* Sorting holds every process that is shown once.
LEMMA ByKeysIs ==
    ASSUME NEW V, IsFiniteSet(V), V \subseteq Nat, NEW L, V \subseteq L, NEW key \in [L -> Nat],
           sort_desc \in BOOLEAN
    PROVE  \E n : Once(ByKeys(key, V), V, n)
<1>1. \A a, b \in V : <<a, b>> \in Before(key, V) <=> Precedes(key, a, b) BY DEF Before
<1>2. \A a \in V : a \in Nat /\ key[a] \in Nat OBVIOUS
<1>3. \A a, b \in V : Precedes(key, a, b) <=>
        \/ key[a] = key[b] /\ a < b
        \/ sort_desc /\ key[b] < key[a]
        \/ ~sort_desc /\ key[a] < key[b]
    BY <1>2 DEF Precedes
<1>4. StrictOrder(V, Before(key, V))
    <2>1. \A a \in V : <<a, a>> \notin Before(key, V) BY ONLY <1>1, <1>2, <1>3
    <2>2. \A a, b \in V : a = b \/ <<a, b>> \in Before(key, V) \/ <<b, a>> \in Before(key, V)
        <3> SUFFICES ASSUME NEW a \in V, NEW b \in V, a # b PROVE Precedes(key, a, b) \/ Precedes(key, b, a)
            BY <1>1
        <3>1. PICK ka \in Nat, kb \in Nat : ka = key[a] /\ kb = key[b] BY <1>2
        <3>2. (ka = kb /\ (a < b \/ b < a)) \/ ka < kb \/ kb < ka
            BY ONLY <1>2, a \in V, b \in V, a # b, ka \in Nat, kb \in Nat
        <3> QED BY ONLY <1>3, <3>1, <3>2, a \in V, b \in V, sort_desc \in BOOLEAN
    <2>3. ASSUME NEW a \in V, NEW b \in V, NEW c \in V, Precedes(key, a, b), Precedes(key, b, c)
          PROVE  Precedes(key, a, c)
        <3>1. PICK ka \in Nat, kb \in Nat, kc \in Nat : ka = key[a] /\ kb = key[b] /\ kc = key[c]
            BY <1>2
        <3>2. a \in Nat /\ b \in Nat /\ c \in Nat BY <1>2
        <3>3. /\ \/ ka = kb /\ a < b
                 \/ sort_desc /\ kb < ka
                 \/ ~sort_desc /\ ka < kb
              /\ \/ kb = kc /\ b < c
                 \/ sort_desc /\ kc < kb
                 \/ ~sort_desc /\ kb < kc
            BY ONLY <1>3, <2>3, <3>1, a \in V, b \in V, c \in V
        <3>4. \/ ka = kc /\ a < c
              \/ sort_desc /\ kc < ka
              \/ ~sort_desc /\ ka < kc
            BY ONLY <3>2, <3>3, ka \in Nat, kb \in Nat, kc \in Nat, sort_desc \in BOOLEAN
        <3> QED BY ONLY <1>3, <3>1, <3>4, a \in V, c \in V
    <2>4. \A a, b, c \in V : <<a, b>> \in Before(key, V) /\ <<b, c>> \in Before(key, V)
                                => <<a, c>> \in Before(key, V)
        BY ONLY <1>1, <2>3
    <2> QED BY ONLY <2>1, <2>2, <2>4 DEF StrictOrder
<1>5. PICK n, list : n = Cardinality(V) /\ list = ByKeys(key, V) OBVIOUS
<1>6. Arranges(list, V, Before(key, V), n) BY <1>4, <1>5, ArrangedIs DEF ByKeys
<1>7. (\A i, j \in 1..n : list[i] = list[j] => i = j) /\ DOMAIN list = 1..n
    BY <1>4, <1>6, ArrangesOnce
<1>8. n \in Nat /\ list \in [1..n -> V] /\ \A r \in V : \E i \in 1..n : list[i] = r
    BY <1>6 DEF Arranges
<1>9. Once(list, V, n) BY <1>7, <1>8 DEF Once
<1> QED BY <1>5, <1>9

\* The parents among the rows that are shown.
LEMMA ShownParentIs ==
    ASSUME Shown, NEW V \in SUBSET List, NEW A, A = ShownParent(V)
    PROVE  /\ IsFiniteSet(V) /\ V \subseteq Nat /\ A \in Parents(V) /\ Forest(A)
           /\ \A r \in V : Above(A, r) \subseteq Above(parent, r)
<1>1. /\ IsFiniteSet(List) /\ List \subseteq Nat /\ parent \in Parents(List) /\ Forest(parent)
    BY TreeIs DEF Shown
<1>2. A \in Parents(V) /\ \A x \in V : A[x] \in {parent[x], NONE} BY DEF ShownParent, Parents
<1>3. IsFiniteSet(V) /\ V \subseteq Nat /\ \A r \in V : Above(A, r) \subseteq Above(parent, r)
    BY <1>1, <1>2, AboveOfFewer
<1>4. Forest(A)
    <2>1. DOMAIN A = V /\ DOMAIN parent = List BY <1>1, <1>2 DEF Parents
    <2> QED BY <1>1, <1>3, <2>1 DEF Forest
<1> QED BY <1>2, <1>3, <1>4

\* Members of X, each once.
Lists(q, X) ==
    /\ q \in Seq(X) /\ Len(q) \in Nat /\ DOMAIN q = 1..Len(q)
    /\ \A i \in 1..Len(q) : q[i] \in X
    /\ \A i, j \in 1..Len(q) : q[i] = q[j] => i = j
    /\ \A x \in X : \E i \in 1..Len(q) : q[i] = x

\* table.rs, build_flat_order and build_tree_order.
LEMMA FlatListingIs ==
    ASSUME Shown, NEW V \in SUBSET List, NEW A, A = ShownParent(V), NEW F
    PROVE  Lists(Listing(FALSE, A, F), V)
<1>0. IsFiniteSet(V) /\ V \subseteq Nat /\ DOMAIN A = V BY ShownParentIs DEF ShownParent
<1>1. PICK key, q : key = SortKeys(FALSE) /\ q = Listing(FALSE, A, F) OBVIOUS
<1>2. key \in [List -> Nat] /\ sort_desc \in BOOLEAN BY <1>1, SortKeysAre DEF Shown, Settings
<1>3. q = ByKeys(key, V) BY <1>0, <1>1 DEF Listing, ByKeys, Before
<1>4. PICK n \in Nat : /\ q \in [1..n -> V] /\ DOMAIN q = 1..n
                       /\ \A i, j \in 1..n : q[i] = q[j] => i = j
                       /\ \A r \in V : \E i \in 1..n : q[i] = r
    <2>1. PICK n : Once(q, V, n) BY <1>0, <1>2, <1>3, ByKeysIs
    <2> QED BY <2>1 DEF Once
<1>5. q \in Seq(V) /\ Len(q) = n BY ONLY <1>4
<1>6. Lists(q, V) BY ONLY <1>4, <1>5 DEF Lists
<1> QED BY <1>1, <1>6

\* The tree is a walk of what nothing folded is above.
LEMMA TreeListingIs ==
    ASSUME Shown, NEW V \in SUBSET List, NEW A, A = ShownParent(V), NEW F
    PROVE  IsWalk(Listing(TRUE, A, F), A, Unfolded(A, F))
<1>0. /\ IsFiniteSet(V) /\ V \subseteq Nat /\ DOMAIN A = V /\ A \in Parents(V) /\ Forest(A)
    BY ShownParentIs DEF ShownParent
<1>1. PICK key : key = SortKeys(TRUE) OBVIOUS
<1>2. key \in [List -> Nat] /\ sort_desc \in BOOLEAN BY <1>1, SortKeysAre DEF Shown, Settings
<1>3. PICK K : K = [r \in V \cup {NONE} |-> ChildrenOf(key, A, r)] OBVIOUS
<1>4. ASSUME NEW r \in V \cup {NONE} PROVE \E n : IsKids(K, r, A, V, n)
    <2>1. PICK C, q : C = {k \in V : A[k] = r} /\ q = K[r] OBVIOUS
    <2>2. q = ByKeys(key, C) BY <1>0, <1>3, <2>1 DEF ChildrenOf
    <2>3. IsFiniteSet(C) /\ C \subseteq Nat /\ C \subseteq List BY <1>0, <2>1, FS_Subset
    <2>4. PICK n \in Nat : /\ q \in [1..n -> C] /\ DOMAIN q = 1..n
                           /\ \A i, j \in 1..n : q[i] = q[j] => i = j
                           /\ \A c \in C : \E i \in 1..n : q[i] = c
        <3>1. PICK n : Once(q, C, n) BY ONLY <1>2, <2>2, <2>3, ByKeysIs
        <3> QED BY <3>1 DEF Once
    <2>5. q \in [1..n -> V] /\ \A i \in 1..n : q[i] \in V /\ A[q[i]] = r BY ONLY <2>1, <2>4
    <2>6. \A c \in V : A[c] = r => \E i \in 1..n : q[i] = c BY ONLY <2>1, <2>4
    <2> QED BY <2>1, <2>4, <2>5, <2>6 DEF IsKids
<1>5. Kids(K, A, V) BY ONLY <1>4 DEF Kids
<1> DEFINE Eq(g) == g = [r \in DOMAIN A |->
                            IF r \in F THEN <<r>>
                            ELSE <<r>> \o FlattenSeq([i \in DOMAIN ChildrenOf(key, A, r) |->
                                                        g[ChildrenOf(key, A, r)[i]]])]
<1>6. ASSUME NEW g PROVE Eq(g) <=> IsWalking(g, V, F, K)
    <2>1. \A r \in V : K[r] = ChildrenOf(key, A, r) BY <1>3
    <2> QED BY <1>0, <2>1 DEF IsWalking, NextWalk, Below1
<1>7. PICK w : w = CHOOSE g : Eq(g) OBVIOUS
<1>8. IsWalking(w, V, F, K)
    <2>0. PICK g : IsWalking(g, V, F, K) BY <1>0, <1>5, WalkingExists DEF Walkable
    <2>1. Eq(g) BY <1>6, <2>0
    <2>2. Eq(w) BY <1>7, <2>1
    <2> QED BY <1>6, <2>2
<1>9. Listing(TRUE, A, F) =
        FlattenSeq([i \in DOMAIN ChildrenOf(key, A, NONE) |-> w[ChildrenOf(key, A, NONE)[i]]])
    BY <1>1, <1>7 DEF Listing, ChildrenOf, ByKeys, Before
<1>10. K[NONE] = ChildrenOf(key, A, NONE) BY <1>3
<1>11. Listing(TRUE, A, F) = Below1(w, K, NONE) BY <1>9, <1>10 DEF Below1
<1> HIDE DEF Eq
<1> QED BY <1>0, <1>5, <1>8, <1>11, WalkingWalks

\* Either arrangement lists what it should, once.
LEMMA ListingIs ==
    ASSUME Shown, NEW t \in BOOLEAN, NEW V \in SUBSET List, NEW A, A = ShownParent(V), NEW F
    PROVE  Lists(Listing(t, A, F), IF t THEN Unfolded(A, F) ELSE V)
<1>1. CASE t = TRUE
    <2>1. IsWalk(Listing(TRUE, A, F), A, Unfolded(A, F)) BY TreeListingIs
    <2>2. Lists(Listing(TRUE, A, F), Unfolded(A, F)) BY <2>1 DEF IsWalk, Walks, Lists
    <2> QED BY <1>1, <2>2
<1>2. CASE t = FALSE
    <2>1. Lists(Listing(FALSE, A, F), V) BY FlatListingIs
    <2> QED BY <1>2, <2>1
<1> QED BY <1>1, <1>2

\* What is kept of the rows.
RowsFit(rows, ids, t, V, A) ==
    /\ rows \in Seq(Row) /\ Len(rows) = Len(ids) /\ DOMAIN rows = DOMAIN ids /\ Ids(rows) = ids
    /\ \A i \in DOMAIN rows :
        /\ rows[i].id = ids[i] /\ rows[i].parent = IF t THEN A[ids[i]] ELSE NONE
        /\ rows[i].children = (t /\ \E k \in V : A[k] = ids[i])

\* A row for every process listed, with its parent and children.
LEMMA RowsAre ==
    ASSUME Shown, NEW t \in BOOLEAN, NEW V \in SUBSET List, NEW A, A = ShownParent(V), NEW F
    PROVE  RowsFit(Rows(t, V, F), Listing(t, A, F), t, V, A)
<1>0. DOMAIN A = V /\ A \in Parents(V) /\ List \subseteq Processes
    BY ShownParentIs, TreeIs DEF ShownParent, Shown
<1>1. PICK ids, rows : ids = Listing(t, A, F) /\ rows = Rows(t, V, F) OBVIOUS
<1>2. Lists(ids, IF t THEN Unfolded(A, F) ELSE V) BY <1>1, ListingIs
<1>3. PICK n \in Nat : n = Len(ids) /\ DOMAIN ids = 1..n /\ \A i \in 1..n : ids[i] \in V
    BY <1>0, <1>2 DEF Lists, Unfolded
<1>4. rows = [i \in 1..n |->
                [id |-> ids[i],
                 row |-> CHOOSE p \in DOMAIN snap.list : snap.list[p] = ids[i],
                 parent |-> IF t THEN A[ids[i]] ELSE NONE,
                 children |-> t /\ \E k \in V : A[k] = ids[i]]]
    BY <1>1, <1>3 DEF Rows
<1>5. ASSUME NEW i \in 1..n
      PROVE  /\ rows[i] \in Row
             /\ rows[i].id = ids[i] /\ rows[i].parent = IF t THEN A[ids[i]] ELSE NONE
             /\ rows[i].children = (t /\ \E k \in V : A[k] = ids[i])
    <2>1. PICK x \in V : x = ids[i] BY <1>3
    <2>2. PICK place, up, kids : /\ place = (CHOOSE p \in DOMAIN snap.list : snap.list[p] = x)
                                 /\ up = IF t THEN A[x] ELSE NONE
                                 /\ kids = (t /\ \E k \in V : A[k] = x)
        OBVIOUS
    <2>3. rows[i] = [id |-> x, row |-> place, parent |-> up, children |-> kids]
        BY ONLY <1>4, <2>1, <2>2, i \in 1..n
    <2>4. x \in Processes BY <1>0
    <2>5. place \in Nat
        <3>1. snap.list \in Seq(Nat) BY ListOfNumbers DEF Shown, Displayed
        <3>2. x \in List BY <2>1
        <3>3. \E p \in DOMAIN snap.list : snap.list[p] = x BY <3>2 DEF List, ToSet
        <3>4. place \in DOMAIN snap.list BY <2>2, <3>3
        <3> QED BY ONLY <3>1, <3>4
    <2>6. up \in Processes \cup {NONE} BY <1>0, <2>1, <2>2 DEF Parents
    <2>7. kids \in BOOLEAN BY <2>2
    <2> QED BY ONLY <2>1, <2>2, <2>3, <2>4, <2>5, <2>6, <2>7 DEF Row
<1>6. rows \in Seq(Row) /\ Len(rows) = n /\ DOMAIN rows = 1..n
    <2>1. rows \in [1..n -> Row] BY ONLY <1>4, <1>5
    <2> QED BY ONLY <2>1
<1>7. Ids(rows) = ids
    <2>1. Ids(rows) = [i \in 1..n |-> ids[i]] BY ONLY <1>5, <1>6 DEF Ids
    <2>2. ids = [i \in 1..n |-> ids[i]]
        <3>1. \E X : ids \in Seq(X) BY <1>2 DEF Lists
        <3>11. PICK X : ids \in Seq(X) BY ONLY <3>1
        <3>2. PICK m \in Nat : ids \in [1..m -> X] BY ONLY <3>11
        <3>3. ids = [i \in DOMAIN ids |-> ids[i]] BY ONLY <3>2
        <3> QED BY ONLY <1>3, <3>3
    <2> QED BY ONLY <2>1, <2>2
<1>8. RowsFit(rows, ids, t, V, A) BY ONLY <1>3, <1>5, <1>6, <1>7 DEF RowsFit
<1> QED BY <1>1, <1>8

\* What is shown is of the list.
LEMMA VisibleIs == Visible \in SUBSET List BY DEF Visible, VisibleOf

\* What the rows are built from, and what the user has done with them.
Kept ==
    /\ order \in Seq(Row) /\ selected \in Processes \cup {None} /\ collapsed \subseteq Processes

\* Rows that are built are rows,
LEMMA BuiltFits == ASSUME Shown PROVE Built \in Seq(Row)
<1>1. tree \in BOOLEAN BY DEF Shown, Settings
<1>2. PICK A : A = ShownParent(Visible) OBVIOUS
<1>3. RowsFit(Built, Listing(tree, A, collapsed), tree, Visible, A)
    BY <1>1, <1>2, VisibleIs, RowsAre DEF Built
<1> QED BY <1>3 DEF RowsFit

\* expand_or_child: a row with children that is not folded has the first of them after it.
LEMMA ChildFollows ==
    ASSUME Shown, tree, NEW p \in DOMAIN Built, Built[p].children, Built[p].id \notin collapsed
    PROVE  p + 1 \in DOMAIN Built
<1>1. PICK V, A, ids : V = Visible /\ A = ShownParent(V) /\ ids = Listing(TRUE, A, collapsed) OBVIOUS
<1>2. V \in SUBSET List /\ tree = TRUE BY <1>1, VisibleIs DEF Shown, Settings
<1>3. RowsFit(Built, ids, TRUE, V, A) BY <1>1, <1>2, RowsAre DEF Built
<1>4. DOMAIN Built = DOMAIN ids /\ Built[p].id = ids[p] /\ \E k \in V : A[k] = ids[p]
    BY <1>3 DEF RowsFit
<1>5. IsWalk(ids, A, Unfolded(A, collapsed)) BY <1>1, <1>2, TreeListingIs
<1>6. PICK n \in Nat : /\ DOMAIN ids = 1..n
                       /\ \A i \in 1..n : ids[i] \in Unfolded(A, collapsed)
                       /\ \A i, j \in 1..n : ids[i] = ids[j] => i = j
                       /\ \A x \in Unfolded(A, collapsed) : \E i \in 1..n : ids[i] = x
                       /\ \A j \in 1..n : A[ids[j]] \in Unfolded(A, collapsed) => AfterParent(ids, A, j)
    BY <1>5 DEF IsWalk, Walks
<1>7. PICK x, c : x = ids[p] /\ c \in V /\ A[c] = x BY <1>4
<1>8. x \in Unfolded(A, collapsed) /\ x \notin collapsed /\ p \in 1..n BY <1>4, <1>6, <1>7
<1>9. IsFiniteSet(V) /\ V \subseteq Nat /\ A \in Parents(V) /\ DOMAIN A = V
    BY <1>1, <1>2, ShownParentIs DEF ShownParent
<1>10. c \in Unfolded(A, collapsed)
    <2>1. x \in V BY <1>8, <1>9 DEF Unfolded
    <2>2. A[c] # NONE BY <1>7, <1>9, <2>1 DEF NONE
    <2>3. Above(A, c) = {x} \cup Above(A, x) BY <1>7, <1>9, <2>2, AboveStep
    <2> QED BY <1>7, <1>8, <1>9, <2>3 DEF Unfolded
<1>11. PICK j \in 1..n : ids[j] = c BY <1>6, <1>10
<1>12. PICK i \in 1..(j - 1) : ids[i] = x BY <1>6, <1>7, <1>8, <1>11 DEF AfterParent
<1>13. i = p
    <2>1. i \in 1..n BY <1>6, <1>11, <1>12
    <2> QED BY <1>6, <1>7, <1>8, <1>12, <2>1
<1>14. p + 1 \in 1..n BY <1>6, <1>8, <1>11, <1>12, <1>13
<1> QED BY <1>4, <1>6, <1>14

\* and so are those that are ensured.
LEMMA EnsuredFits == ASSUME Shown, Kept PROVE Ensured \in Seq(Row)
BY BuiltFits DEF Ensured, Kept

\* move_selection stays within the rows.
LEMMA SelectionMoves ==
    ASSUME NEW rows \in Seq(Row), NEW delta \in {-1, 1}, rows # << >>, NEW next,
           next = IF selected \in ToSet(Ids(rows))
                  THEN Min({Max({PosOf(rows, selected) + delta, 1}), Len(rows)})
                  ELSE IF delta >= 0 THEN 1 ELSE Len(rows)
    PROVE  next \in DOMAIN rows
<1>1. PICK n \in Nat : n = Len(rows) /\ DOMAIN rows = 1..n OBVIOUS
<1>2. n # 0
    <2> SUFFICES ASSUME n = 0 PROVE FALSE OBVIOUS
    <2>1. rows \in Seq(Row) /\ Len(rows) = 0 BY <1>1
    <2> QED BY ONLY <2>1, rows # << >>, EmptySeq
<1>3. CASE selected \notin ToSet(Ids(rows)) BY <1>1, <1>2, <1>3
<1>4. CASE selected \in ToSet(Ids(rows))
    <2>1. \E i \in DOMAIN rows : rows[i].id = selected BY <1>4 DEF Ids, ToSet
    <2>2. PICK p \in 1..n : p = PosOf(rows, selected) BY <1>1, <2>1 DEF PosOf
    <2>3. PICK a, S : a = p + delta /\ S = {a, 1} OBVIOUS
    <2>4. a \in Int /\ 0 <= a /\ a <= n + 1 BY <2>2, <2>3
    <2>5. Max(S) \in 1..(n + 1)
        <3>1. S # {} /\ S \subseteq 0..(n + 1) /\ 0 \in Int /\ n + 1 \in Int BY <2>3, <2>4
        <3>2. Max(S) \in S /\ \A x \in S : x <= Max(S) BY ONLY <3>1, MaxIsGreatest
        <3>3. 1 \in S BY <2>3
        <3>4. PICK top \in 0..(n + 1) : top = Max(S) BY ONLY <3>1, <3>2
        <3>5. 1 <= top BY ONLY <3>2, <3>3, <3>4
        <3> QED BY ONLY <3>4, <3>5, n \in Nat
    <2>6. PICK b, T : b = Max(S) /\ T = {b, n} OBVIOUS
    <2>7. Min(T) \in 1..n
        <3>1. T # {} /\ T \subseteq 1..(n + 1) /\ 1 \in Int /\ n + 1 \in Int BY ONLY <1>2, <2>5, <2>6, n \in Nat
        <3>2. Min(T) \in T /\ \A x \in T : Min(T) <= x BY ONLY <3>1, MinIsLeast
        <3>3. n \in T BY <2>6
        <3>4. PICK low \in 1..(n + 1) : low = Min(T) BY ONLY <3>1, <3>2
        <3>5. low <= n BY ONLY <3>2, <3>3, <3>4
        <3> QED BY ONLY <3>4, <3>5, n \in Nat
    <2>8. next = Min({Max({PosOf(rows, selected) + delta, 1}), Len(rows)}) BY <1>4
    <2> QED BY <1>1, <2>2, <2>3, <2>6, <2>7, <2>8
<1> QED BY <1>3, <1>4

\* A row is of a process, and under one or none.
LEMMA RowIdFits ==
    ASSUME NEW rows \in Seq(Row), NEW i \in DOMAIN rows
    PROVE  rows[i].id \in Processes /\ rows[i].parent \in Processes \cup {NONE}
<1>1. rows[i] \in Row OBVIOUS
<1> QED BY <1>1 DEF Row

\* No step leaves rows, a selection or a folded process that is none.
LEMMA KeptStep ==
    ASSUME Shown, OrderIsCurrent, Kept, [Next]_vars PROVE Kept'
<1> USE DEF view, table, steadyVars
<1>0. Ensured \in Seq(Row) BY EnsuredFits
<1>1. ASSUME UNCHANGED <<order, selected, collapsed>> PROVE Kept' BY <1>1 DEF Kept
<1>2. ASSUME NEW pos \in DOMAIN order, order[pos].row \in DOMAIN snap.list
      PROVE  RowAt(pos) \in Processes
    <2>1. snap.list \in Seq(Processes) BY TableAssumption DEF Shown, Displayed
    <2> QED BY <1>2, <2>1 DEF RowAt
<1>3. ASSUME NEW s \in Snapshots, SetSnapshot(s) PROVE Kept' BY <1>1, <1>3 DEF SetSnapshot
<1>4. CASE Paint BY <1>0, <1>4 DEF Paint, Kept
<1>5. CASE TogglePause BY <1>1, <1>5 DEF TogglePause
<1>6. ASSUME NEW on \in BOOLEAN, Point(on) PROVE Kept' BY <1>1, <1>6 DEF Point
<1>7. ASSUME NEW col \in Columns, SetSort(col) PROVE Kept' BY <1>1, <1>7 DEF SetSort
<1>8. ASSUME NEW mode \in {"list", "tree", "map"}, SetView(mode) PROVE Kept'
    <2>1. CASE mode = "map" BY <1>1, <1>8, <2>1 DEF SetView
    <2>2. CASE mode # "map"
        <3>1. collapsed' \subseteq collapsed /\ selected' = selected BY <1>8, <2>2 DEF SetView
        <3>2. CASE selected \notin List BY <1>8, <2>2, <3>1, <3>2 DEF SetView, Kept
        <3>3. CASE selected \in List
            <4>1. PICK t, V, F : /\ t = tree' /\ V = Visible' /\ F = collapsed' OBVIOUS
            <4>2. order' = Rows(t, V, F)
                BY <1>8, <2>2, <3>3, <4>1 DEF SetView, Visible, VisibleOf, List
            <4>3. t \in BOOLEAN BY <1>8, <2>2, <4>1 DEF SetView
            <4>4. V \in SUBSET List BY <1>8, <2>2, <4>1 DEF SetView, Visible, VisibleOf, List
            <4>5. RowsFit(Rows(t, V, F), Listing(t, ShownParent(V), F), t, V, ShownParent(V))
                BY <4>3, <4>4, RowsAre
            <4>6. order' \in Seq(Row) BY <4>2, <4>5 DEF RowsFit
            <4> QED BY <3>1, <4>6 DEF Kept
        <3> QED BY <3>2, <3>3
    <2> QED BY <2>1, <2>2
<1>9. ASSUME NEW find \in Searches \cup {None}, Search(find) PROVE Kept' BY <1>1, <1>9 DEF Search
<1>10. ASSUME NEW pos \in DOMAIN order, Click(pos) \/ ToggleExpanded(pos) PROVE Kept'
    <2>1. CASE Click(pos) BY <1>2, <2>1 DEF Click, Kept
    <2>2. CASE ToggleExpanded(pos) BY <1>2, <2>2 DEF ToggleExpanded, Toggle, Kept
    <2> QED BY <1>10, <2>1, <2>2
<1>11. ASSUME NEW delta \in {-1, 1}, MoveSelection(delta) PROVE Kept'
    <2>1. PICK rows : rows = Ensured OBVIOUS
    <2>2. PICK next : next = IF selected \in ToSet(Ids(rows))
                             THEN Min({Max({PosOf(rows, selected) + delta, 1}), Len(rows)})
                             ELSE IF delta >= 0 THEN 1 ELSE Len(rows)
        OBVIOUS
    <2>3. /\ order' = rows /\ UNCHANGED collapsed
          /\ \/ rows = << >> /\ UNCHANGED selected
             \/ rows # << >> /\ selected' = rows[next].id
        BY <1>11, <2>1, <2>2 DEF MoveSelection
    <2>4. rows \in Seq(Row) BY <1>0, <2>1
    <2>5. CASE UNCHANGED selected BY <2>3, <2>4, <2>5 DEF Kept
    <2>6. CASE rows # << >> /\ selected' = rows[next].id
        <3>1. next \in DOMAIN rows
            BY ONLY <2>2, <2>4, <2>6, delta \in {-1, 1}, SelectionMoves
        <3>2. rows[next].id \in Processes BY <2>4, <3>1, RowIdFits
        <3> QED BY <2>3, <2>4, <2>6, <3>2 DEF Kept
    <2> QED BY <2>3, <2>5, <2>6
<1>12. ASSUME NEW fold \in BOOLEAN, FoldOrStep(fold) PROVE Kept'
    <2>1. PICK rows, pos : rows = Ensured /\ pos = PosOf(rows, selected) OBVIOUS
    <2> DEFINE listed == selected \in ToSet(Ids(rows))
               folds == listed /\ rows[pos].children /\ (selected \in collapsed) # fold
               steps == listed /\ ~folds /\ IF fold THEN rows[pos].parent # NONE ELSE rows[pos].children
    <2>2. /\ tree /\ order' = rows
          /\ \/ folds /\ Toggle(selected) /\ UNCHANGED selected
             \/ steps /\ selected' = (IF fold THEN rows[pos].parent ELSE rows[pos + 1].id)
                /\ UNCHANGED collapsed
             \/ UNCHANGED <<selected, collapsed>>
        BY <1>12, <2>1 DEF FoldOrStep
    <2>3. rows \in Seq(Row) BY <1>0, <2>1
    <2>4. ASSUME listed
          PROVE  /\ pos \in DOMAIN rows /\ rows[pos].id = selected
                 /\ selected \in Processes /\ rows[pos].parent \in Processes \cup {NONE}
        <3>1. \E i \in DOMAIN rows : rows[i].id = selected BY <2>4 DEF Ids, ToSet
        <3>2. pos \in DOMAIN rows /\ rows[pos].id = selected BY <2>1, <3>1 DEF PosOf
        <3> QED BY <2>3, <3>2, RowIdFits
    <2>5. CASE UNCHANGED <<selected, collapsed>> BY <2>2, <2>3, <2>5 DEF Kept
    <2>6. CASE folds /\ Toggle(selected) /\ UNCHANGED selected
        BY <2>2, <2>3, <2>4, <2>6 DEF Toggle, Kept
    <2>7. CASE steps /\ fold /\ selected' = rows[pos].parent /\ UNCHANGED collapsed
        BY <2>2, <2>3, <2>4, <2>7 DEF Kept
    <2>8. CASE steps /\ ~fold /\ selected' = rows[pos + 1].id /\ UNCHANGED collapsed
        <3>1. rows = Built BY <1>12, <2>1 DEF Ensured, OrderIsCurrent
        <3>2. rows[pos].children /\ selected \notin collapsed BY <2>8
        <3>3. pos + 1 \in DOMAIN rows BY <2>2, <2>4, <2>8, <3>1, <3>2, ChildFollows
        <3>4. rows[pos + 1].id \in Processes BY <2>3, <3>3, RowIdFits
        <3> QED BY <2>2, <2>3, <2>8, <3>4 DEF Kept
    <2> QED BY <2>2, <2>5, <2>6, <2>7, <2>8
<1>13. CASE UNCHANGED vars BY <1>1, <1>13 DEF vars
<1> QED BY <1>3, <1>4, <1>5, <1>6, <1>7, <1>8, <1>9, <1>10, <1>11, <1>12, <1>13 DEF Next, Input, Done

-----------------------------------------------------------------------------
(* The filter                                                               *)

Filtered == shown = Refilter(snap, parent, tree, search)

\* Every step that changes what the filter reads filters again.
LEMMA FilteredStep == ASSUME Displayed, Filtered, [Next]_vars PROVE Filtered'
<1> USE DEF Filtered, view, table, steadyVars
<1>1. ASSUME UNCHANGED <<snap, parent, tree, search, shown>> PROVE Filtered' BY <1>1
<1>2. ASSUME NEW s \in Snapshots, Show(s), UNCHANGED <<tree, search>> PROVE Filtered'
    BY <1>2 DEF Show
<1>3. ASSUME NEW s \in Snapshots, SetSnapshot(s) PROVE Filtered' BY <1>1, <1>2, <1>3 DEF SetSnapshot
<1>4. CASE Paint BY <1>1, <1>4 DEF Paint
<1>5. CASE TogglePause
    <2>1. CASE latest # << >>
        <3>1. PICK s \in Snapshots : latest = <<s>> BY <2>1 DEF Displayed, Waiting
        <3>2. Show(s) /\ UNCHANGED <<tree, search>> BY <1>5, <2>1, <3>1 DEF TogglePause
        <3> QED BY <1>2, <3>2
    <2>2. CASE latest = << >> BY <1>1, <1>5, <2>2 DEF TogglePause
    <2> QED BY <2>1, <2>2
<1>6. ASSUME NEW on \in BOOLEAN, Point(on) PROVE Filtered' BY <1>1, <1>6 DEF Point
<1>7. ASSUME NEW col \in Columns, SetSort(col) PROVE Filtered' BY <1>1, <1>7 DEF SetSort
<1>8. ASSUME NEW mode \in {"list", "tree", "map"}, SetView(mode) PROVE Filtered'
    <2>1. CASE mode = "map" BY <1>1, <1>8, <2>1 DEF SetView
    <2>2. CASE mode # "map" BY <1>8, <2>2 DEF SetView
    <2> QED BY <2>1, <2>2
<1>9. ASSUME NEW find \in Searches \cup {None}, Search(find) PROVE Filtered' BY <1>9 DEF Search
<1>10. ASSUME NEW pos \in DOMAIN order, Click(pos) \/ ToggleExpanded(pos) PROVE Filtered'
    BY <1>1, <1>10 DEF Click, ToggleExpanded
<1>11. ASSUME NEW delta \in {-1, 1}, MoveSelection(delta) PROVE Filtered'
    BY <1>1, <1>11 DEF MoveSelection
<1>12. ASSUME NEW fold \in BOOLEAN, FoldOrStep(fold) PROVE Filtered' BY <1>1, <1>12 DEF FoldOrStep
<1>13. CASE UNCHANGED vars BY <1>1, <1>13 DEF vars
<1> QED BY <1>3, <1>4, <1>5, <1>6, <1>7, <1>8, <1>9, <1>10, <1>11, <1>12, <1>13 DEF Next, Input, Done

\* refilter: what is shown is in the list, and in the tree with all that leads to it.
LEMMA FilteredIs ==
    ASSUME Displayed, Filtered
    PROVE  shown \subseteq List /\ (tree => Closed(parent, shown))
<1>1. IsFiniteSet(List) /\ List \subseteq Nat /\ parent \in Parents(List) /\ Forest(parent) BY TreeIs
<1>2. CASE search = None
    <2>1. shown = List BY <1>2 DEF Filtered, Refilter, List
    <2> QED BY <1>1, <2>1 DEF Closed, Parents
<1>3. CASE search # None /\ tree
    <2>1. PICK base \in SUBSET List : base = search \cap List OBVIOUS
    <2>2. shown = PropagateUp(parent, base) BY <1>3, <2>1 DEF Filtered, Refilter, List
    <2> QED BY <1>1, <2>2, PropagateUpCloses
<1>4. CASE search # None /\ ~tree
    <2>1. shown = search \cap List BY <1>4 DEF Filtered, Refilter, List
    <2> QED BY <1>4, <2>1
<1> QED BY <1>2, <1>3, <1>4

TableInv == Shown /\ OrderIsCurrent /\ Kept /\ Filtered

\* The inductive invariant.
LEMMA TableInvAlways == Spec => []TableInv
<1>1. Init => Kept /\ Filtered
    <2> SUFFICES ASSUME Init PROVE Kept /\ Filtered OBVIOUS
    <2>1. Kept BY DEF Init, Kept
    <2>2. Filtered BY DEF Init, Filtered, Refilter, List
    <2> QED BY <2>1, <2>2
<1>2. Spec => []Shown BY ShownAlways
<1>3. Spec => []OrderIsCurrent BY OrderIsAlwaysCurrent
<1>4. Shown /\ OrderIsCurrent /\ Kept /\ Filtered /\ [Next]_vars => Kept' /\ Filtered'
    BY KeptStep, FilteredStep DEF Shown
<1> QED BY <1>1, <1>2, <1>3, <1>4, PTL DEF Spec, TableInv

\* Types; whatever the display is doing, the keys are of the rows it shows, and whatever is
\* selected is a process that was listed.
THEOREM TypeCorrect == Spec => []TypeOK
<1>1. ASSUME TableInv PROVE TypeOK
    <2> USE <1>1 DEF TableInv, Shown
    <2>1. snap \in Snapshots /\ latest \in Waiting BY DEF Displayed
    <2>2. Len(latest) <= 1
        <3>1. CASE latest = << >> BY <3>1
        <3>2. CASE latest # << >>
            <4>1. PICK s : latest = <<s>> BY <2>1, <3>2 DEF Waiting
            <4> QED BY <4>1
        <3> QED BY <3>1, <3>2
    <2>3. parent \in [List -> List \cup {NONE}] BY TreeIs DEF Parents
    <2>4. shown \subseteq List BY FilteredIs
    <2>5. Settings /\ KeysFit /\ Kept OBVIOUS
    <2> QED BY <2>1, <2>2, <2>3, <2>4, <2>5 DEF TypeOK, Settings, KeysFit, Kept
<1> QED BY <1>1, TableInvAlways, PTL

\* table.rs, build_tree_order and build_flat_order: every process the search lets through
\* is listed once, after its parent, or stands below a folded row.
THEOREM EveryoneIsAlwaysListed == Spec => []EveryoneIsListed
<1>1. ASSUME TableInv PROVE EveryoneIsListed
    <2> SUFFICES ASSUME ~dirty PROVE EveryoneIsListed BY DEF EveryoneIsListed
    <2> USE <1>1 DEF TableInv
    <2>0. /\ tree \in BOOLEAN /\ Visible \in SUBSET List /\ DOMAIN parent = List
          /\ NONE \notin List /\ parent \in Parents(List)
        BY VisibleIs, TreeIs DEF Shown, Settings, NONE, Parents
    <2>1. PICK A, F, ids : A = ShownParent(Visible) /\ F = collapsed /\ ids = Ids(order) OBVIOUS
    <2>2. order = Built BY DEF OrderIsCurrent
    <2>3. ids = Listing(tree, A, F)
        <3>1. RowsFit(Built, Listing(tree, A, F), tree, Visible, A)
            BY <2>0, <2>1, RowsAre DEF Built
        <3> QED BY <2>1, <2>2, <3>1 DEF RowsFit
    <2>4. Lists(ids, IF tree THEN Unfolded(A, F) ELSE Visible) BY <2>0, <2>1, <2>3, ListingIs
    <2>5. /\ IsFiniteSet(Visible) /\ Visible \subseteq Nat /\ A \in Parents(Visible)
          /\ DOMAIN A = Visible
        BY <2>0, <2>1, ShownParentIs DEF ShownParent
    <2>6. \A r \in Visible : Above(A, r) \subseteq Visible BY <2>5, AboveIs
    <2>7. PICK n \in Nat : DOMAIN ids = 1..n /\ n = Len(ids) BY <2>4 DEF Lists
    <2>8. IsInjective(ids) BY <2>4, <2>7 DEF Lists, IsInjective
    <2>9. ToSet(ids) = {r \in Visible : ~(\E k \in F \cap Visible : tree /\ k \in Above(A, r))}
        <3>1. ToSet(ids) = IF tree THEN Unfolded(A, F) ELSE Visible BY <2>4, <2>7 DEF Lists, ToSet
        <3>2. CASE tree
            <4>1. ToSet(ids) = Unfolded(A, F) BY <3>1, <3>2
            <4> QED BY <2>5, <2>6, <3>2, <4>1 DEF Unfolded
        <3>3. CASE ~tree BY <3>1, <3>3
        <3> QED BY <3>2, <3>3
    <2>10. ASSUME NEW j \in DOMAIN ids, tree, A[ids[j]] # NONE
           PROVE  \E i \in 1..(j - 1) : /\ ids[i] = A[ids[j]]
                                        /\ \A k \in (i + 1)..j : ids[i] \in Above(A, ids[k])
        <3>1. tree = TRUE BY <2>0, <2>10
        <3>2. IsWalk(ids, A, Unfolded(A, F)) BY <2>0, <2>1, <2>3, <3>1, TreeListingIs
        <3>3. /\ \A i \in 1..n : ids[i] \in Unfolded(A, F)
              /\ \A i \in 1..n : A[ids[i]] \in Unfolded(A, F) => AfterParent(ids, A, i)
            BY <2>7, <3>2 DEF IsWalk, Walks
        <3>4. PICK x : x = ids[j] OBVIOUS
        <3>5. x \in Visible /\ A[x] \in Visible /\ x \in Unfolded(A, F)
            BY <2>5, <2>7, <2>10, <3>3, <3>4 DEF Unfolded, Parents
        <3>6. Above(A, x) = {A[x]} \cup Above(A, A[x]) BY <2>5, <2>10, <3>4, <3>5, AboveStep
        <3>7. A[x] \in Unfolded(A, F) BY <2>5, <3>5, <3>6 DEF Unfolded
        <3>8. AfterParent(ids, A, j) BY <2>7, <3>3, <3>4, <3>7
        <3> QED BY <3>8 DEF AfterParent
    <2>11. ASSUME tree, NEW r \in Visible PROVE A[r] = parent[r] \/ parent[r] = Idle
        <3>1. r \in List /\ r \in shown BY DEF Visible, VisibleOf
        <3>2. shown \subseteq List /\ Closed(parent, shown) BY <2>11, FilteredIs DEF Shown
        <3>3. parent[r] \in shown \cup {NONE} BY <2>0, <3>1, <3>2 DEF Closed
        <3>4. A[r] = IF parent[r] \in Visible THEN parent[r] ELSE NONE BY <2>1 DEF ShownParent
        <3> QED BY <3>2, <3>3, <3>4 DEF Visible, VisibleOf
    <2> QED BY <2>1, <2>8, <2>9, <2>10, <2>11 DEF EveryoneIsListed
<1> QED BY <1>1, TableInvAlways, PTL

\* reveal_selected: whoever is above among the rows that are shown is unfolded.
LEMMA FoldedAboveIs ==
    ASSUME NEW S, IsFiniteSet(S), S \subseteq Nat, NEW P \in Parents(S), NEW V \in SUBSET S,
           NEW A \in Parents(V), \A x \in V : A[x] = IF P[x] \in V THEN P[x] ELSE NONE,
           NEW r \in V
    PROVE  Above(A, r) \subseteq FoldedAbove(P, V, r)
<1>0. /\ DOMAIN A = V /\ NONE \notin S /\ NONE \notin V /\ r \in S
      /\ IsFiniteSet(V) /\ V \subseteq Nat
    <2>1. V \subseteq S OBVIOUS
    <2>2. IsFiniteSet(V) BY ONLY IsFiniteSet(S), <2>1, FS_Subset
    <2>3. DOMAIN A = V BY DEF Parents
    <2>4. NONE \notin S BY DEF NONE
    <2>5. r \in S /\ V \subseteq Nat /\ NONE \notin V BY <2>1, <2>4
    <2> QED BY <2>2, <2>3, <2>4, <2>5
<1>1. PICK n \in Nat \ {0}, up \in {Chain(P, r)} : n = Cardinality(S) /\ up = Chain(P, r) /\ GoesUp(up, P, S, r, n)
    <2>1. GoesUp(Chain(P, r), P, S, r, Cardinality(S)) BY <1>0, ChainIs
    <2> QED BY <2>1 DEF GoesUp
<1>2. /\ up \in [0..n -> S \cup {NONE}] /\ up[0] = r
      /\ \A k \in 0..(n - 1) : up[k + 1] = IF up[k] = NONE THEN NONE ELSE P[up[k]]
    BY <1>1 DEF GoesUp
<1>3. PICK T : T = FoldedAbove(P, V, r) OBVIOUS
<1>4. \A x : x \in T <=> \E k \in 1..n : x = up[k] /\ \A m \in 1..k : up[m] \in V
    <2>1. DOMAIN up = 0..n /\ \A k : (k \in 0..n /\ k > 0) <=> k \in 1..n BY <1>2
    <2> QED BY <1>1, <1>3, <2>1 DEF FoldedAbove
<1>5. ASSUME NEW k \in 0..n, \A m \in 1..k : up[m] \in V, A[up[k]] # NONE
      PROVE  A[up[k]] \in T
    <2>1. up[k] \in V
        <3>1. CASE k = 0 BY <1>2, <3>1
        <3>2. CASE k # 0
            <4>1. k \in 1..k BY <3>2
            <4> QED BY <1>5, <4>1
        <3> QED BY <3>1, <3>2
    <2>2. A[up[k]] = P[up[k]] /\ P[up[k]] \in V BY <1>5, <2>1
    <2>3. CASE k < n
        <3>1. k \in 0..(n - 1) /\ k + 1 \in 1..n BY <2>3
        <3>2. up[k + 1] = P[up[k]] BY <1>0, <1>2, <2>1, <3>1
        <3>3. \A m \in 1..(k + 1) : m \in 1..k \/ m = k + 1 OBVIOUS
        <3>4. \A m \in 1..(k + 1) : up[m] \in V BY ONLY <1>5, <2>2, <3>2, <3>3
        <3> QED BY <1>4, <2>2, <3>1, <3>2, <3>4
    <2>4. CASE k = n
        <3>1. ASSUME NEW m \in 0..n PROVE up[m] \in V
            <4>1. CASE m = 0 BY <1>2, <4>1
            <4>2. CASE m # 0
                <5>1. m \in 1..k BY <2>4, <4>2
                <5> QED BY <1>5, <5>1
            <4> QED BY <4>1, <4>2
        <3>2. up \in [0..n -> S] BY <1>2, <3>1
        <3>3. \A m \in 0..(n - 1) : up[m + 1] = P[up[m]]
            <4>1. \A m \in 0..(n - 1) : m \in 0..n OBVIOUS
            <4>2. \A m \in 0..(n - 1) : up[m] # NONE BY <1>0, <3>1, <4>1
            <4> QED BY <1>2, <4>2
        <3>4. \E j \in 1..n : P[up[n]] = up[j] BY ONLY <1>0, <1>1, <3>2, <3>3, IsFiniteSet(S),
                                                    P \in Parents(S), ChainComesBack
        <3>5. PICK j \in 1..n : P[up[n]] = up[j] BY <3>4
        <3>6. \A m \in 1..j : m \in 0..n OBVIOUS
        <3> QED BY <1>4, <2>2, <2>4, <3>1, <3>5, <3>6
    <2> QED BY <2>3, <2>4
<1>6. A[r] \in T \cup {NONE}
    <2>1. 0 \in 0..n /\ \A m \in 1..0 : FALSE OBVIOUS
    <2> QED BY <1>2, <1>5, <2>1
<1>7. Closed(A, T)
    <2> SUFFICES ASSUME NEW x \in T, A[x] # NONE PROVE A[x] \in T BY DEF Closed
    <2>1. PICK k \in 1..n : x = up[k] /\ \A m \in 1..k : up[m] \in V BY <1>4
    <2>2. k \in 0..n OBVIOUS
    <2> QED BY <1>5, <2>1, <2>2
<1> QED BY <1>0, <1>3, <1>6, <1>7, AboveIs

\* view.rs, set_view: "keeping the selection in view": whatever was folded, searched or
\* new, a selected process the arrangement shows at all is listed in it.
THEOREM SelectionIsAlwaysRevealed == Spec => SelectionIsRevealed
<1>1. ASSUME Shown, NEW mode \in {"list", "tree"}, SetView(mode), selected \in Visible'
      PROVE  selected \in ToSet(Ids(order'))
    <2>1. UNCHANGED <<snap, parent>> BY <1>1 DEF SetView
    <2>2. selected \in List BY <1>1, <2>1 DEF Visible, VisibleOf, List
    <2>3. PICK t, V, F, A, x : t = tree' /\ V = Visible' /\ F = collapsed' /\ A = ShownParent(V)
                               /\ x = selected
        OBVIOUS
    <2>4. /\ order' = Rows(t, V, F) /\ t \in BOOLEAN /\ V \in SUBSET List /\ x \in V
          /\ t => F = collapsed \ FoldedAbove(parent, V, x)
        BY <1>1, <2>2, <2>3 DEF SetView, Visible, VisibleOf, List
    <2>5. PICK ids : ids = Listing(t, A, F) OBVIOUS
    <2>6. RowsFit(order', ids, t, V, A) BY <1>1, <2>3, <2>4, <2>5, RowsAre
    <2>7. Ids(order') = ids BY <2>6 DEF RowsFit
    <2>8. Lists(ids, IF t THEN Unfolded(A, F) ELSE V) BY <1>1, <2>3, <2>4, <2>5, ListingIs
    <2>9. x \in IF t THEN Unfolded(A, F) ELSE V
        <3>1. CASE ~t BY <2>4, <3>1
        <3>2. CASE t
            <4>1. /\ IsFiniteSet(List) /\ List \subseteq Nat /\ parent \in Parents(List)
                  /\ A \in Parents(V) /\ DOMAIN A = V
                BY <1>1, <2>3, <2>4, TreeIs, ShownParentIs DEF Shown, ShownParent
            <4>2. \A y \in V : A[y] = IF parent[y] \in V THEN parent[y] ELSE NONE
                BY <2>3 DEF ShownParent
            <4>3. Above(A, x) \subseteq FoldedAbove(parent, V, x)
                BY ONLY <2>4, <4>1, <4>2, FoldedAboveIs
            <4> QED BY <2>4, <3>2, <4>1, <4>3 DEF Unfolded
        <3> QED BY <3>1, <3>2
    <2>10. \E i \in 1..Len(ids) : ids[i] = x BY ONLY <2>8, <2>9 DEF Lists
    <2>11. DOMAIN ids = 1..Len(ids) BY <2>8 DEF Lists
    <2>12. x \in ToSet(ids) BY <2>10, <2>11 DEF ToSet
    <2> QED BY <2>3, <2>7, <2>12
<1>2. Shown /\ [Next]_vars =>
        [(selected \in Visible' /\ selected \notin ToSet(Ids(order'))) =>
            \A mode \in {"list", "tree"} : ~SetView(mode)]_vars
    BY <1>1
<1> QED BY <1>2, ShownAlways, PTL DEF Spec, SelectionIsRevealed
=============================================================================
