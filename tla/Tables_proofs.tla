---------------------------- MODULE Tables_proofs ----------------------------
(***************************************************************************)
(* What Tables promises, for any owners, addresses, sweep interval and     *)
(* channel: shared values read back, and identity is kept.                 *)
(*                                                                         *)
(* The properties speak of frames and the file only, and a step could      *)
(* break them through the memory: a number given to an address that was    *)
(* freed and reused, or a second number given to an allocation whose entry *)
(* was swept. IInv says why neither happens: an address in the table still *)
(* holds the value it was numbered for, because the table's clone keeps it *)
(* from being freed, and an address that anything else holds and the table *)
(* does not holds a value that was never numbered.                         *)
(***************************************************************************)
EXTENDS Tables, FiniteSetTheorems, TLAPS

\* Values are named by their allocation: no two addresses have one.
HeapInv ==
    /\ \A a \in Addresses : heap[a] <= allocs
    /\ \A a, b \in Addresses : heap[a] = heap[b] /\ heap[a] # 0 => a = b
    /\ \A a \in Held : heap[a] # 0

\* The table's entries.
TableInv ==
    /\ \A i \in DOMAIN table : table[i] <= allocs
    /\ IsInjective(table)
    /\ \A a \in DOMAIN ids : table[ids[a]] = heap[a]
    /\ \A a \in HeldElsewhere \ DOMAIN ids : \A i \in DOMAIN table : table[i] # heap[a]

IInv == TypeOK /\ HeapInv /\ TableInv /\ ValuesReadBack

USE OwnersAssumption, SweepEveryAssumption, BoundsAssumption

-----------------------------------------------------------------------------
(* Maps and sequences                                                       *)

\* A partial map has its domain among the keys and its values among the values.
LEMMA PartialMap ==
    ASSUME NEW S, NEW T, NEW f
    PROVE  /\ f \in PartialMaps(S, T) => DOMAIN f \subseteq S /\ f \in [DOMAIN f -> T]
           /\ \A D \in SUBSET S : f \in [D -> T] => f \in PartialMaps(S, T)
<1>1. ASSUME f \in PartialMaps(S, T) PROVE DOMAIN f \subseteq S /\ f \in [DOMAIN f -> T]
    <2>1. PICK D \in SUBSET S : f \in [D -> T] BY <1>1 DEF PartialMaps
    <2> QED BY <2>1
<1>2. ASSUME NEW D \in SUBSET S, f \in [D -> T] PROVE f \in PartialMaps(S, T)
    BY <1>2 DEF PartialMaps
<1> QED BY <1>1, <1>2

\* More values leave a partial map one.
LEMMA PartialMapWider ==
    ASSUME NEW S, NEW T, NEW U, T \subseteq U, NEW f \in PartialMaps(S, T)
    PROVE  f \in PartialMaps(S, U)
<1>1. DOMAIN f \subseteq S /\ f \in [DOMAIN f -> T] BY PartialMap
<1>2. f \in [DOMAIN f -> U] BY <1>1
<1> QED BY <1>1, <1>2, PartialMap

\* More elements leave a sequence one.
LEMMA SequenceWider ==
    ASSUME NEW S, NEW T, S \subseteq T, NEW q \in Seq(S)
    PROVE  q \in Seq(T)
OBVIOUS

\* Taking the head off a queue leaves the rest of what it names.
LEMMA QueuedHead ==
    ASSUME NEW S, NEW q \in Seq(S), q # << >>
    PROVE  /\ Head(q) \in S /\ Tail(q) \in Seq(S) /\ Len(Tail(q)) < Len(q)
           /\ Range(Head(q)) \subseteq Queued(q)
           /\ Queued(Tail(q)) \subseteq Queued(q)
<1>1. /\ Head(q) \in S /\ Tail(q) \in Seq(S) /\ Len(q) \in Nat \ {0}
      /\ Len(Tail(q)) = Len(q) - 1 /\ DOMAIN q = 1..Len(q) /\ DOMAIN Tail(q) = 1..Len(Tail(q))
      /\ Head(q) = q[1] /\ \A i \in 1..Len(Tail(q)) : Tail(q)[i] = q[i + 1]
    OBVIOUS
<1>2. Range(Head(q)) \subseteq Queued(q)
    <2>1. 1 \in DOMAIN q BY <1>1
    <2> QED BY <1>1, <2>1 DEF Queued
<1>3. Queued(Tail(q)) \subseteq Queued(q)
    <2> SUFFICES ASSUME NEW a \in Queued(Tail(q)) PROVE a \in Queued(q) OBVIOUS
    <2>1. PICK i \in DOMAIN Tail(q) : a \in Range(Tail(q)[i]) BY DEF Queued
    <2>2. i + 1 \in DOMAIN q /\ Tail(q)[i] = q[i + 1] BY <1>1, <2>1
    <2> QED BY <2>1, <2>2 DEF Queued
<1> QED BY <1>1, <1>2, <1>3

\* A queue names what it named and what is put at its end.
LEMMA QueuedAppend ==
    ASSUME NEW S, NEW q \in Seq(S), NEW x \in S
    PROVE  /\ Append(q, x) \in Seq(S) /\ Len(Append(q, x)) = Len(q) + 1
           /\ Queued(Append(q, x)) \subseteq Queued(q) \cup Range(x)
<1>1. /\ Append(q, x) \in Seq(S) /\ Len(q) \in Nat /\ Len(Append(q, x)) = Len(q) + 1
      /\ DOMAIN q = 1..Len(q) /\ DOMAIN Append(q, x) = 1..(Len(q) + 1)
      /\ \A i \in 1..(Len(q) + 1) : Append(q, x)[i] = IF i <= Len(q) THEN q[i] ELSE x
    OBVIOUS
<1>2. Queued(Append(q, x)) \subseteq Queued(q) \cup Range(x)
    <2> SUFFICES ASSUME NEW a \in Queued(Append(q, x)) PROVE a \in Queued(q) \cup Range(x)
        OBVIOUS
    <2>1. PICK i \in DOMAIN Append(q, x) : a \in Range(Append(q, x)[i]) BY DEF Queued
    <2>2. CASE i <= Len(q)
        <3>1. i \in DOMAIN q /\ a \in Range(q[i]) BY <1>1, <2>1, <2>2
        <3> QED BY <3>1 DEF Queued
    <2>3. CASE ~(i <= Len(q)) BY <1>1, <2>1, <2>3
    <2> QED BY <2>2, <2>3
<1> QED BY <1>1, <1>2

\* What the writer numbers is finite, and its numbers follow next.
LEMMA NumberingIsFinite ==
    ASSUME NEW snap \in Snapshots
    PROVE  Cardinality(Range(snap) \ DOMAIN ids) \in Nat
<1>1. DOMAIN snap \subseteq Owners BY PartialMap DEF Snapshots
<1>2. IsFiniteSet(DOMAIN snap) BY <1>1, FS_Subset
<1>3. snap \in Surjection(DOMAIN snap, Range(snap))
    BY PartialMap DEF Snapshots, Surjection, Range
<1>4. IsFiniteSet(Range(snap)) BY <1>2, <1>3, FS_Surjection
<1>5. IsFiniteSet(Range(snap) \ DOMAIN ids) BY <1>4, FS_Subset
<1> QED BY <1>5, FS_CardinalityType

\* What is held are addresses.
LEMMA HeldAreAddresses ==
    ASSUME TypeOK
    PROVE  HeldElsewhere \subseteq Addresses /\ DOMAIN ids \subseteq Addresses
<1>1. ASSUME NEW f \in Snapshots PROVE Range(f) \subseteq Addresses
    <2>1. f \in [DOMAIN f -> Addresses] BY PartialMap DEF Snapshots
    <2> QED BY <2>1 DEF Range
<1>2. Queued(queue) \subseteq Addresses
    <2>1. \A i \in DOMAIN queue : queue[i] \in Snapshots BY DEF TypeOK
    <2> QED BY <1>1, <2>1 DEF Queued
<1>3. DOMAIN ids \subseteq Addresses BY PartialMap DEF TypeOK
<1> QED BY <1>1, <1>2, <1>3 DEF TypeOK, HeldElsewhere

-----------------------------------------------------------------------------
(* The steps                                                                *)

\* The invariant holds at the beginning.
LEMMA InitInv == Init => IInv
<1> SUFFICES ASSUME Init PROVE IInv OBVIOUS
<1>1. << >> \in PartialMaps(Owners, Addresses) /\ << >> \in PartialMaps(Addresses, 1..0)
    <2>1. << >> \in [{} -> Addresses] /\ << >> \in [{} -> 1..0] OBVIOUS
    <2> QED BY <2>1, PartialMap
<1>2. TypeOK BY <1>1 DEF Init, TypeOK, Snapshots
<1>3. Range(<< >>) = {} /\ Queued(<< >>) = {} BY DEF Range, Queued
<1>4. Held = {} /\ HeldElsewhere = {} BY <1>3 DEF Init, Held, HeldElsewhere
<1>5. HeapInv BY <1>4 DEF Init, HeapInv
<1>6. TableInv BY <1>4 DEF Init, TableInv, IsInjective
<1>7. ValuesReadBack BY DEF Init, ValuesReadBack
<1> QED BY <1>2, <1>5, <1>6, <1>7 DEF IInv

\* A step of the probe or the sampler: nobody comes to hold an address that was not
\* held, but for the one that was just given a value.
LEMMA AllocateInv ==
    ASSUME IInv, NEW o \in Owners, NEW a \in Addresses, Allocate(o, a)
    PROVE  IInv'
<1> USE DEF IInv
<1>1. /\ allocs \in 0..MaxAllocs /\ allocs < MaxAllocs /\ allocs' = allocs + 1
      /\ heap \in [Addresses -> Values \cup {0}]
      /\ heap' = [heap EXCEPT ![a] = allocs + 1]
      /\ a \notin Held /\ current' = With(current, o, a)
      /\ UNCHANGED <<latest, queue, views, prev, ids, next, table, frames, given, kept>>
    BY DEF Allocate, TypeOK, writer
<1>2. /\ heap' \in [Addresses -> Values \cup {0}] /\ heap'[a] = allocs + 1
      /\ \A b \in Addresses \ {a} : heap'[b] = heap[b]
    BY <1>1 DEF Values
<1>3. current' \in Snapshots /\ Range(current') \subseteq Range(current) \cup {a}
    <2>1. DOMAIN current \subseteq Owners /\ current \in [DOMAIN current -> Addresses]
        BY PartialMap DEF TypeOK, Snapshots
    <2>2. DOMAIN current' \subseteq Owners /\ current' \in [DOMAIN current' -> Addresses]
        BY <1>1, <2>1 DEF With
    <2>3. current' \in Snapshots BY <2>2, PartialMap DEF Snapshots
    <2>4. Range(current') \subseteq Range(current) \cup {a} BY <1>1 DEF With, Range
    <2> QED BY <2>3, <2>4
<1>4. /\ HeldElsewhere' \subseteq HeldElsewhere \cup {a} /\ Held' \subseteq Held \cup {a}
      /\ HeldElsewhere \subseteq Held /\ DOMAIN ids \subseteq Held
    BY <1>1, <1>3 DEF HeldElsewhere, Held
<1>5. HeldElsewhere \subseteq Addresses /\ DOMAIN ids \subseteq Addresses
    BY HeldAreAddresses
<1>6. TypeOK' BY <1>1, <1>2, <1>3 DEF TypeOK
<1>7. HeapInv'
    <2>1. \A b \in Addresses : heap'[b] <= allocs' BY <1>1, <1>2 DEF HeapInv, Values
    <2>2. \A b, c \in Addresses : heap'[b] = heap'[c] /\ heap'[b] # 0 => b = c
        BY <1>1, <1>2 DEF HeapInv, Values
    <2>3. \A b \in Held' : heap'[b] # 0
        BY <1>1, <1>2, <1>4, <1>5 DEF HeapInv, Held
    <2> QED BY <2>1, <2>2, <2>3 DEF HeapInv
<1>8. TableInv'
    <2>1. \A i \in DOMAIN table : table[i] <= allocs /\ table[i] \in Values
        BY DEF TableInv, TypeOK
    <2>2. \A i \in DOMAIN table' : table'[i] <= allocs' BY <1>1, <2>1 DEF Values
    <2>3. \A b \in DOMAIN ids' : table'[ids'[b]] = heap'[b]
        BY <1>1, <1>2, <1>4, <1>5 DEF TableInv
    <2>4. ASSUME NEW b \in HeldElsewhere' \ DOMAIN ids', NEW i \in DOMAIN table'
          PROVE  table'[i] # heap'[b]
        <3>1. CASE b = a BY <1>1, <1>2, <2>1, <3>1 DEF Values
        <3>2. CASE b # a BY <1>1, <1>2, <1>4, <1>5, <3>2 DEF TableInv
        <3> QED BY <3>1, <3>2
    <2>5. IsInjective(table') BY <1>1 DEF TableInv
    <2> QED BY <2>2, <2>3, <2>4, <2>5 DEF TableInv
<1>9. ValuesReadBack' BY <1>1 DEF ValuesReadBack
<1> QED BY <1>6, <1>7, <1>8, <1>9

\* Exit and Pass: the holders among themselves.
LEMMA FewerHolders ==
    ASSUME IInv, TypeOK', HeldElsewhere' \subseteq HeldElsewhere,
           UNCHANGED <<memory, writer>>
    PROVE  IInv'
<1> USE DEF IInv
<1>1. UNCHANGED <<heap, allocs, ids, table, frames, given>> BY DEF memory, writer
<1>2. Held' \subseteq Held BY <1>1 DEF Held
<1>3. HeapInv' BY <1>1, <1>2 DEF HeapInv
<1>4. TableInv' BY <1>1 DEF TableInv
<1>5. ValuesReadBack' BY <1>1 DEF ValuesReadBack
<1> QED BY <1>3, <1>4, <1>5

\* Exit keeps the invariant.
LEMMA ExitInv ==
    ASSUME IInv, NEW o \in Owners, Exit(o)
    PROVE  IInv'
<1>1. /\ current' = Without(current, o) /\ current \in Snapshots
      /\ UNCHANGED <<memory, latest, queue, views, writer>>
    BY DEF Exit, IInv, TypeOK
<1>2. current' \in Snapshots /\ Range(current') \subseteq Range(current)
    <2>1. DOMAIN current \subseteq Owners /\ current \in [DOMAIN current -> Addresses]
        BY <1>1, PartialMap DEF Snapshots
    <2>2. DOMAIN current' \subseteq Owners /\ current' \in [DOMAIN current' -> Addresses]
        BY <1>1, <2>1 DEF Without
    <2>3. current' \in Snapshots BY <2>2, PartialMap DEF Snapshots
    <2>4. Range(current') \subseteq Range(current) BY <1>1 DEF Without, Range
    <2> QED BY <2>3, <2>4
<1>3. HeldElsewhere' \subseteq HeldElsewhere BY <1>1, <1>2 DEF HeldElsewhere, writer
<1>4. TypeOK' BY <1>1, <1>2 DEF IInv, TypeOK, memory, writer
<1> QED BY <1>1, <1>3, <1>4, FewerHolders

\* Pass keeps the invariant.
LEMMA PassInv ==
    ASSUME IInv, Pass
    PROVE  IInv'
<1>1. /\ queue' = IF Len(queue) < QueueLen THEN Append(queue, current) ELSE queue
      /\ latest' = current /\ UNCHANGED <<memory, current, views, writer>>
      /\ current \in Snapshots /\ queue \in Seq(Snapshots) /\ Len(queue) <= QueueLen
    BY DEF Pass, IInv, TypeOK
<1>2. /\ queue' \in Seq(Snapshots) /\ Len(queue') <= QueueLen
      /\ Queued(queue') \subseteq Queued(queue) \cup Range(current)
    <2>1. CASE Len(queue) < QueueLen
        <3>1. queue' = Append(queue, current) /\ Len(queue) \in Nat BY <1>1, <2>1
        <3>2. /\ queue' \in Seq(Snapshots) /\ Len(queue') = Len(queue) + 1
              /\ Queued(queue') \subseteq Queued(queue) \cup Range(current)
            BY <1>1, <3>1, QueuedAppend
        <3> QED BY <2>1, <3>1, <3>2
    <2>2. CASE ~(Len(queue) < QueueLen) BY <1>1, <2>2
    <2> QED BY <2>1, <2>2
<1>3. HeldElsewhere' \subseteq HeldElsewhere BY <1>1, <1>2 DEF HeldElsewhere, writer
<1>4. TypeOK' BY <1>1, <1>2 DEF IInv, TypeOK, memory, writer
<1> QED BY <1>1, <1>3, <1>4, FewerHolders

\* View keeps the invariant: the views take only of what is published.
LEMMA ViewInv ==
    ASSUME IInv, View
    PROVE  IInv'
<1>1. /\ views' \in SUBSET (views \cup Range(latest))
      /\ UNCHANGED <<memory, current, latest, queue, writer>>
    BY DEF View
<1>2. HeldElsewhere' \subseteq HeldElsewhere BY <1>1 DEF HeldElsewhere, writer
<1>3. views' \in SUBSET Addresses
    BY <1>1, HeldAreAddresses DEF IInv, HeldElsewhere
<1>4. TypeOK' BY <1>1, <1>3 DEF IInv, TypeOK, memory, writer
<1> QED BY <1>1, <1>2, <1>4, FewerHolders

\* A write: the addresses numbered now are held by the snapshot, so their values were
\* never numbered before.
LEMMA WriteInv ==
    ASSUME IInv, queue # << >>, NEW numbering \in Numberings(Head(queue)), Write(numbering)
    PROVE  IInv'
<1> DEFINE snap == Head(queue)
           new == Range(snap) \ DOMAIN ids
           n == Cardinality(new)
           numbered == Merge(ids, numbering)
           added == next..(next + n - 1)
<1> USE DEF IInv
<1>1. /\ snap \in Snapshots /\ Tail(queue) \in Seq(Snapshots)
      /\ Len(Tail(queue)) < Len(queue)
      /\ Range(snap) \subseteq Queued(queue) /\ Queued(Tail(queue)) \subseteq Queued(queue)
    BY QueuedHead DEF TypeOK
<1>2. /\ n \in Nat /\ next \in Nat \ {0}
      /\ DOMAIN snap \subseteq Owners /\ snap \in [DOMAIN snap -> Addresses]
    BY <1>1, NumberingIsFinite, PartialMap DEF TypeOK, Snapshots
<1>3. /\ numbering \in [new -> added]
      /\ \A a, b \in new : numbering[a] = numbering[b] => a = b
      /\ \A i \in added : \E a \in new : numbering[a] = i
    BY DEF Numberings, Bijection, Injection, Surjection, IsInjective
<1>4. Range(numbering) = added /\ DOMAIN numbering = new
    <2>1. DOMAIN numbering = new BY ONLY <1>3
    <2>2. \A a \in new : numbering[a] \in added BY ONLY <1>3
    <2>3. Range(numbering) = {numbering[a] : a \in new} BY ONLY <2>1 DEF Range
    <2> HIDE DEF new, added
    <2>4. Range(numbering) = added BY ONLY <2>2, <2>3, <1>3
    <2> QED BY ONLY <2>1, <2>4
<1>5. /\ queue' = Tail(queue) /\ prev' = snap /\ next' = next + n
      /\ table' = Merge(table, [i \in added |->
                       heap[CHOOSE a \in new : numbering[a] = i]])
      /\ frames' = Append(frames, [o \in DOMAIN snap |-> numbered[snap[o]]])
      /\ given' = Append(given, [o \in DOMAIN snap |-> heap[snap[o]]])
      /\ \/ ids' = numbered
         \/ ids' = Sweep(numbered, snap)
      /\ \/ kept' = kept
         \/ kept' = views \cap DOMAIN ids'
      /\ UNCHANGED <<heap, allocs, current, latest, views>>
    BY <1>4 DEF Write, memory
<1> HIDE DEF n
<1>6. \A i \in added : \E a \in new : numbering[a] = i /\ table'[i] = heap[a]
    <2> SUFFICES ASSUME NEW i \in added
                 PROVE  \E a \in new : numbering[a] = i /\ table'[i] = heap[a]
        OBVIOUS
    <2> DEFINE c == CHOOSE a \in new : numbering[a] = i
    <2>1. c \in new /\ numbering[c] = i BY <1>3
    <2>2. table'[i] = heap[c] BY <1>5 DEF Merge
    <2> QED BY <2>1, <2>2
<1>7. /\ DOMAIN table = 1..(next - 1) /\ DOMAIN table' = 1..(next' - 1)
      /\ \A i \in 1..(next - 1) : table'[i] = table[i] /\ i \notin added
      /\ \A i \in 1..(next' - 1) : i \in 1..(next - 1) \/ i \in added
    <2>1. DOMAIN table = 1..(next - 1) BY DEF TypeOK
    <2>2. DOMAIN table' = 1..(next - 1) \cup added BY <1>5, <2>1 DEF Merge
    <2>3. 1..(next - 1) \cup added = 1..(next' - 1) BY <1>2, <1>5
    <2>4. \A i \in 1..(next - 1) : i \notin added BY <1>2
    <2>5. \A i \in 1..(next - 1) : table'[i] = table[i] BY <1>5, <2>1, <2>4 DEF Merge
    <2> QED BY <2>1, <2>2, <2>3, <2>4, <2>5
<1>8. /\ new \subseteq HeldElsewhere \ DOMAIN ids /\ HeldElsewhere' \subseteq HeldElsewhere
      /\ new \subseteq Addresses /\ Range(snap) \subseteq Held
    BY <1>1, <1>2, <1>5 DEF HeldElsewhere, Held, Range
<1>9. /\ DOMAIN numbered = DOMAIN ids \cup new
      /\ \A a \in DOMAIN ids : a \notin new /\ numbered[a] = ids[a] /\ ids[a] \in 1..(next - 1)
      /\ \A a \in new : numbered[a] = numbering[a] /\ numbering[a] \in added
    <2>1. \A a \in DOMAIN ids : ids[a] \in 1..(next - 1) BY PartialMap DEF TypeOK
    <2> QED BY <1>3, <1>4, <2>1 DEF Merge
<1>10. /\ DOMAIN ids' \subseteq DOMAIN numbered
       /\ \A a \in DOMAIN ids' : ids'[a] = numbered[a]
       /\ \A a \in HeldElsewhere' : a \in DOMAIN numbered => a \in DOMAIN ids'
    BY <1>5 DEF Sweep, Restricted, HeldElsewhere
<1>11. \A a \in DOMAIN numbered : numbered[a] \in 1..(next' - 1) /\ table'[numbered[a]] = heap[a]
    <2>1. ASSUME NEW a \in DOMAIN ids
          PROVE  numbered[a] \in 1..(next' - 1) /\ table'[numbered[a]] = heap[a]
        <3>1. table[ids[a]] = heap[a] BY DEF TableInv
        <3>2. numbered[a] = ids[a] /\ ids[a] \in 1..(next - 1) BY <1>9
        <3>3. table'[ids[a]] = table[ids[a]] BY <1>7, <3>2
        <3>4. ids[a] \in 1..(next' - 1) BY <1>2, <1>5, <3>2
        <3> HIDE DEF numbered
        <3> QED BY <3>1, <3>2, <3>3, <3>4
    <2>2. ASSUME NEW a \in new
          PROVE  numbered[a] \in 1..(next' - 1) /\ table'[numbered[a]] = heap[a]
        <3>1. numbered[a] = numbering[a] /\ numbering[a] \in added BY <1>9
        <3>2. PICK b \in new : numbering[b] = numbering[a] /\ table'[numbering[a]] = heap[b]
            BY <1>6, <3>1
        <3>3. b = a BY <1>3, <3>2
        <3> QED BY <1>2, <1>5, <3>1, <3>2, <3>3
    <2> QED BY <1>9, <2>1, <2>2
<1>12. TypeOK'
    <2>1. ids' \in PartialMaps(Addresses, 1..(next' - 1))
        <3>1. DOMAIN ids' \subseteq Addresses BY <1>8, <1>9, <1>10, HeldAreAddresses
        <3>2. ids' \in [DOMAIN ids' -> 1..(next' - 1)]
            <4>1. ids' = [a \in DOMAIN ids' |-> ids'[a]] BY <1>5 DEF Sweep, Restricted, Merge
            <4>2. \A a \in DOMAIN ids' : ids'[a] \in 1..(next' - 1) BY <1>10, <1>11
            <4> QED BY <4>1, <4>2
        <3> QED BY <3>1, <3>2, PartialMap
    <2>2. table' \in [1..(next' - 1) -> Values]
        <3>1. table' = [i \in DOMAIN table' |-> table'[i]] BY <1>5 DEF Merge
        <3>2. ASSUME NEW i \in 1..(next - 1) PROVE table'[i] \in Values
            BY <1>7 DEF TypeOK
        <3>3. ASSUME NEW i \in added PROVE table'[i] \in Values
            <4>1. PICK a \in new : table'[i] = heap[a] BY <1>6
            <4>2. heap[a] # 0 /\ heap[a] \in Values \cup {0}
                BY <1>8 DEF HeapInv, Held, TypeOK
            <4> QED BY <4>1, <4>2
        <3>4. \A i \in DOMAIN table' : table'[i] \in Values BY <1>7, <3>2, <3>3
        <3> QED BY <1>7, <3>1, <3>4
    <2>3. [o \in DOMAIN snap |-> numbered[snap[o]]] \in PartialMaps(Owners, 1..(next' - 1))
        <3>1. \A o \in DOMAIN snap : snap[o] \in DOMAIN numbered BY <1>9 DEF Range
        <3> DEFINE row == [o \in DOMAIN snap |-> numbered[snap[o]]]
        <3>2. row \in [DOMAIN snap -> 1..(next' - 1)]
            BY <1>11, <3>1
        <3> HIDE DEF row
        <3>3. row \in PartialMaps(Owners, 1..(next' - 1)) BY <1>2, <3>2, PartialMap
        <3> QED BY <3>3 DEF row
    <2>4. [o \in DOMAIN snap |-> heap[snap[o]]] \in PartialMaps(Owners, Values)
        <3>1. \A o \in DOMAIN snap : heap[snap[o]] \in Values
            BY <1>2, <1>8 DEF HeapInv, TypeOK, Range
        <3>2. [o \in DOMAIN snap |-> heap[snap[o]]] \in [DOMAIN snap -> Values] BY <3>1
        <3> QED BY <1>2, <3>2, PartialMap
    <2>5. frames \in Seq(PartialMaps(Owners, 1..(next' - 1)))
        <3>1. 1..(next - 1) \subseteq 1..(next' - 1) BY <1>2, <1>5
        <3>2. PartialMaps(Owners, 1..(next - 1)) \subseteq PartialMaps(Owners, 1..(next' - 1))
            BY ONLY <3>1, PartialMapWider
        <3>3. frames \in Seq(PartialMaps(Owners, 1..(next - 1))) BY DEF TypeOK
        <3> QED BY ONLY <3>2, <3>3, SequenceWider
    <2>6. /\ frames' \in Seq(PartialMaps(Owners, 1..(next' - 1)))
          /\ given' \in Seq(PartialMaps(Owners, Values)) /\ Len(given') = Len(frames')
        BY <1>5, <2>3, <2>4, <2>5 DEF TypeOK
    <2>7. \A i \in DOMAIN frames' : DOMAIN frames'[i] = DOMAIN given'[i]
        BY <1>5, <2>6 DEF TypeOK
    <2>8. /\ next' \in Nat \ {0} /\ queue' \in Seq(Snapshots) /\ Len(queue') <= QueueLen
          /\ prev' \in Snapshots
        BY <1>1, <1>2, <1>5 DEF TypeOK
    <2>9. views' \in SUBSET Addresses /\ kept' \in SUBSET Addresses
        <3>1. views \in SUBSET Addresses /\ kept \in SUBSET Addresses BY DEF TypeOK
        <3>2. views' = views /\ (kept' = kept \/ kept' = views \cap DOMAIN ids') BY <1>5
        <3> QED BY ONLY <3>1, <3>2
    <2> QED BY <1>5, <2>1, <2>2, <2>6, <2>7, <2>8, <2>9 DEF TypeOK
<1>13. HeapInv'
    <2>1. Held' \subseteq Held BY <1>8, <1>9, <1>10 DEF Held
    <2> QED BY <1>5, <2>1 DEF HeapInv
<1>14. TableInv'
    <2>1. \A i \in DOMAIN table' : table'[i] <= allocs'
        <3>1. ASSUME NEW i \in 1..(next - 1) PROVE table'[i] <= allocs
            BY <1>7 DEF TableInv
        <3>2. ASSUME NEW i \in added PROVE table'[i] <= allocs
            BY <1>6, <1>8 DEF HeapInv
        <3> QED BY <1>5, <1>7, <3>1, <3>2
    <2>2. ASSUME NEW i \in DOMAIN table', NEW j \in DOMAIN table', table'[i] = table'[j]
          PROVE  i = j
        <3>1. CASE i \in 1..(next - 1) /\ j \in 1..(next - 1)
            BY <1>7, <2>2, <3>1 DEF TableInv, IsInjective
        <3>2. CASE i \in added /\ j \in added
            <4>1. PICK a \in new : numbering[a] = i /\ table'[i] = heap[a] BY <1>6, <3>2
            <4>2. PICK b \in new : numbering[b] = j /\ table'[j] = heap[b] BY <1>6, <3>2
            <4>3. a = b BY <1>8, <2>2, <4>1, <4>2 DEF HeapInv, Held
            <4> QED BY <4>1, <4>2, <4>3
        <3>3. CASE i \in 1..(next - 1) /\ j \in added
            <4>1. PICK b \in new : table'[j] = heap[b] BY <1>6, <3>3
            <4>2. table'[i] # heap[b] BY <1>7, <1>8, <3>3 DEF TableInv
            <4> QED BY <2>2, <4>1, <4>2
        <3>4. CASE i \in added /\ j \in 1..(next - 1)
            <4>1. PICK b \in new : table'[i] = heap[b] BY <1>6, <3>4
            <4>2. table'[j] # heap[b] BY <1>7, <1>8, <3>4 DEF TableInv
            <4> QED BY <2>2, <4>1, <4>2
        <3> QED BY <1>7, <3>1, <3>2, <3>3, <3>4
    <2>3. \A a \in DOMAIN ids' : table'[ids'[a]] = heap'[a] BY <1>5, <1>10, <1>11
    <2>4. ASSUME NEW a \in HeldElsewhere' \ DOMAIN ids', NEW i \in DOMAIN table'
          PROVE  table'[i] # heap'[a]
        <3>1. a \notin DOMAIN ids /\ a \notin new /\ a \in HeldElsewhere /\ a \in Addresses
            BY <1>8, <1>9, <1>10, HeldAreAddresses
        <3>2. CASE i \in 1..(next - 1) BY <1>5, <1>7, <3>1, <3>2 DEF TableInv
        <3>3. CASE i \in added
            <4>1. PICK b \in new : table'[i] = heap[b] BY <1>6, <3>3
            <4>2. heap[b] # 0 /\ b # a /\ b \in Addresses BY <1>8, <3>1 DEF HeapInv, Held
            <4> QED BY <1>5, <3>1, <4>1, <4>2 DEF HeapInv
        <3> QED BY <1>7, <3>2, <3>3
    <2> QED BY <2>1, <2>2, <2>3, <2>4 DEF TableInv, IsInjective
<1>15. ValuesReadBack'
    <2>1. /\ frames \in Seq(PartialMaps(Owners, 1..(next - 1)))
          /\ given \in Seq(PartialMaps(Owners, Values)) /\ Len(given) = Len(frames)
        BY DEF TypeOK
    <2> DEFINE last == Len(frames) + 1
    <2>2. /\ Len(frames) \in Nat /\ DOMAIN frames = 1..Len(frames)
          /\ DOMAIN frames' = 1..last
          /\ frames'[last] = [o \in DOMAIN snap |-> numbered[snap[o]]]
          /\ given'[last] = [o \in DOMAIN snap |-> heap[snap[o]]]
          /\ \A i \in 1..Len(frames) : frames'[i] = frames[i] /\ given'[i] = given[i]
        BY <1>5, <2>1
    <2>3. ASSUME NEW i \in 1..Len(frames), NEW o \in DOMAIN frames[i]
          PROVE  frames[i][o] \in DOMAIN table' /\ table'[frames[i][o]] = given[i][o]
        <3>1. frames[i][o] \in DOMAIN table /\ table[frames[i][o]] = given[i][o]
            BY <2>2 DEF ValuesReadBack
        <3>2. frames[i][o] \in 1..(next - 1) BY <1>7, <3>1
        <3>3. frames[i][o] \in DOMAIN table' BY <1>2, <1>5, <1>7, <3>2
        <3>4. table'[frames[i][o]] = table[frames[i][o]] BY <1>7, <3>2
        <3> QED BY <3>1, <3>3, <3>4
    <2>4. ASSUME NEW o \in DOMAIN snap
          PROVE  numbered[snap[o]] \in DOMAIN table' /\ table'[numbered[snap[o]]] = heap[snap[o]]
        <3>1. snap[o] \in DOMAIN numbered BY <1>9 DEF Range
        <3> QED BY <1>7, <1>11, <3>1
    <2>5. ASSUME NEW i \in 1..last, NEW o \in DOMAIN frames'[i]
          PROVE  frames'[i][o] \in DOMAIN table' /\ table'[frames'[i][o]] = given'[i][o]
        <3>1. CASE i = last BY <2>2, <2>4, <3>1
        <3>2. CASE i \in 1..Len(frames) BY <2>2, <2>3, <3>2
        <3> QED BY <2>2, <3>1, <3>2
    <2> QED BY <2>2, <2>5 DEF ValuesReadBack
<1> QED BY <1>12, <1>13, <1>14, <1>15

\* No step gives the invariant up.
LEMMA NextInv == IInv /\ [Next]_vars => IInv'
<1> SUFFICES ASSUME IInv, [Next]_vars PROVE IInv' OBVIOUS
<1>1. ASSUME NEW o \in Owners, Exit(o) PROVE IInv' BY <1>1, ExitInv
<1>2. ASSUME NEW o \in Owners, NEW a \in Addresses, Allocate(o, a) PROVE IInv'
    BY <1>2, AllocateInv
<1>3. CASE Pass BY <1>3, PassInv
<1>4. CASE View BY <1>4, ViewInv
<1>5. CASE Record
    <2>1. PICK numbering \in Numberings(Head(queue)) : Write(numbering)
        BY <1>5 DEF Record
    <2> QED BY <1>5, <2>1, WriteInv DEF Record
<1>6. CASE UNCHANGED vars
    <2>1. TypeOK' BY <1>6 DEF IInv, TypeOK, vars, memory, writer
    <2>2. HeldElsewhere' = HeldElsewhere BY <1>6 DEF HeldElsewhere, vars, writer
    <2> QED BY <1>6, <2>1, <2>2, FewerHolders DEF vars
<1> QED BY <1>1, <1>2, <1>3, <1>4, <1>5, <1>6 DEF Next

-----------------------------------------------------------------------------
(* Theorems                                                                 *)

\* What the table holds is held, and its numbers are true.
LEMMA Inductive == Spec => []IInv
<1> QED BY InitInv, NextInv, PTL DEF Spec

\* The types, among them that the table has every id below next and no other.
THEOREM TypeCorrect == Spec => []TypeOK
<1>1. IInv => TypeOK BY DEF IInv
<1> QED BY <1>1, Inductive, PTL

\* Every shared value of a recording reads back as it was, whatever became of its
\* address (table.rs: "the address cannot be freed and reused for a different value
\* while it is in the table").
THEOREM SharedValuesReadBack == Spec => []ValuesReadBack
<1>1. IInv => ValuesReadBack BY DEF IInv
<1> QED BY <1>1, Inductive, PTL

\* Two frames refer to one id exactly when they had one allocation, so that a replay
\* keeps the identities the live view goes by.
THEOREM SharedIdentityIsKept == Spec => []IdentityIsKept
<1>1. IInv => IdentityIsKept
    <2> SUFFICES ASSUME IInv, NEW i \in DOMAIN frames, NEW j \in DOMAIN frames,
                        NEW o \in DOMAIN frames[i], NEW q \in DOMAIN frames[j]
                 PROVE  frames[i][o] = frames[j][q] <=> given[i][o] = given[j][q]
        BY DEF IdentityIsKept
    <2>1. /\ frames[i][o] \in DOMAIN table /\ table[frames[i][o]] = given[i][o]
          /\ frames[j][q] \in DOMAIN table /\ table[frames[j][q]] = given[j][q]
        BY DEF IInv, ValuesReadBack
    <2> QED BY <2>1 DEF IInv, TableInv, IsInjective
<1> QED BY <1>1, Inductive, PTL

-----------------------------------------------------------------------------
(***************************************************************************)
(* A table of shared values does not keep what it saw for ever:            *)
(* TableIsRecent.                                                          *)
(*                                                                         *)
(* A sweep asks only who holds a value, and the probe and the snapshots in *)
(* flight hold some as well as the frame just written. What it keeps was   *)
(* all the same referred to by that frame, but for what a view holds. The  *)
(* other holders stand in a line from the oldest snapshot to the probe     *)
(* (Line), a value is held by a stretch of it without a gap (Gapless),     *)
(* because an address is not given out again while any of them holds it,   *)
(* and a numbered value that the line holds is held from the recorder's    *)
(* end of it (NumberedInv).                                                *)
(***************************************************************************)

\* What the holders hold, by age: the recorder's frame, the queue, the published
\* snapshot, the probe.
Places == 0..(Len(queue) + 2)
Line(i) ==
    IF i = 0 THEN Range(prev)
    ELSE IF i <= Len(queue) THEN Range(queue[i])
    ELSE IF i = Len(queue) + 1 THEN Range(latest)
    ELSE Range(current)

Gapless ==
    \A i, j, k \in Places : i <= j /\ j <= k => Line(i) \cap Line(k) \subseteq Line(j)
NumberedInv ==
    \A k \in Places : DOMAIN ids \cap Line(k) \subseteq Range(prev)

RecentInv == Gapless /\ NumberedInv /\ TableIsRecent

-----------------------------------------------------------------------------
(* The line                                                                 *)

\* A queue has a length, and its elements are those up to it.
LEMMA QueueLength == ASSUME TypeOK PROVE Len(queue) \in Nat /\ DOMAIN queue = 1..Len(queue)
<1> QED BY DEF TypeOK

\* Everyone in the line is a holder.
LEMMA LineIsHeldElsewhere ==
    ASSUME TypeOK
    PROVE  \A i \in Places : Line(i) \subseteq HeldElsewhere
<1> SUFFICES ASSUME NEW i \in Places PROVE Line(i) \subseteq HeldElsewhere
    OBVIOUS
<1>1. CASE i \in DOMAIN queue
    <2>1. Line(i) = Range(queue[i]) BY <1>1, QueueLength DEF Line
    <2>2. Range(queue[i]) \subseteq Queued(queue) BY <1>1 DEF Queued
    <2> QED BY <2>1, <2>2 DEF HeldElsewhere
<1>2. CASE i \notin DOMAIN queue
    <2>1. i \in {0, Len(queue) + 1, Len(queue) + 2} BY <1>2, QueueLength DEF Places
    <2>2. Line(i) \in {Range(prev), Range(latest), Range(current)}
        BY <2>1, QueueLength DEF Line
    <2> QED BY <2>2 DEF HeldElsewhere
<1> QED BY <1>1, <1>2

\* A step that lets the probe hold less, or something nobody held.
LEMMA ProbeStep ==
    ASSUME RecentInv, TypeOK, NEW X, X \cap Held = {},
           Range(current') \subseteq Range(current) \cup X,
           UNCHANGED <<latest, queue, prev, ids, frames, kept>>
    PROVE  RecentInv'
<1> DEFINE end == Len(queue) + 2
<1>1. /\ Len(queue) \in Nat /\ Places' = Places
    BY QueueLength DEF Places
<1>2. \A i \in Places : Line(i) \cap X = {}
    BY LineIsHeldElsewhere DEF Held
<1>3. \A i \in Places \ {end} : Line(i)' = Line(i)
    BY <1>1 DEF Line, Places
<1>4. Line(end) = Range(current) /\ Line(end)' = Range(current')
    BY <1>1 DEF Line
<1>5. \A i \in Places : Line(i)' \subseteq Line(i) \cup X
    BY <1>3, <1>4
<1>6. end \in Places /\ \A i \in Places : i <= end
    BY <1>1 DEF Places
<1> HIDE DEF end
<1>7. ASSUME NEW i \in Places, NEW j \in Places, NEW k \in Places, i <= j, j <= k,
             NEW a \in Line(i)' \cap Line(k)'
      PROVE  a \in Line(j)'
    <2>1. CASE j = end
        <3>1. k = end BY <1>1, <1>6, <1>7, <2>1 DEF Places
        <3> QED BY <1>7, <2>1, <3>1
    <2>2. CASE j # end
        <3>1. i # end BY <1>1, <1>6, <1>7, <2>2 DEF Places
        <3>2. a \in Line(i) /\ a \notin X BY <1>2, <1>3, <1>7, <3>1
        <3>3. a \in Line(k) BY <1>5, <1>7, <3>2
        <3>4. a \in Line(j) BY <1>7, <3>2, <3>3 DEF RecentInv, Gapless
        <3> QED BY <1>3, <2>2, <3>4
    <2> QED BY <2>1, <2>2
<1>8. Gapless' BY <1>1, <1>7 DEF Gapless
<1>9. NumberedInv'
    <2> SUFFICES ASSUME NEW k \in Places, NEW a \in DOMAIN ids \cap Line(k)'
                 PROVE  a \in Range(prev)
        BY <1>1 DEF NumberedInv
    <2>1. a \in Line(k) BY <1>5 DEF Held
    <2> QED BY <2>1 DEF RecentInv, NumberedInv
<1>10. TableIsRecent' BY DEF RecentInv, TableIsRecent
<1> QED BY <1>8, <1>9, <1>10 DEF RecentInv

\* Allocating opens no gap in the line of holders.
LEMMA AllocateRecent ==
    ASSUME IInv, RecentInv, NEW o \in Owners, NEW a \in Addresses, Allocate(o, a)
    PROVE  RecentInv'
<1>1. /\ a \notin Held /\ current' = With(current, o, a)
      /\ UNCHANGED <<latest, queue, prev, ids, frames, kept>>
    BY DEF Allocate, writer
<1>2. Range(current') \subseteq Range(current) \cup {a}
    BY <1>1 DEF With, Range
<1>3. {a} \cap Held = {} BY <1>1
<1> QED BY <1>1, <1>2, <1>3, ProbeStep DEF IInv

\* An exit opens no gap in the line of holders.
LEMMA ExitRecent ==
    ASSUME IInv, RecentInv, NEW o \in Owners, Exit(o)
    PROVE  RecentInv'
<1>1. /\ current' = Without(current, o)
      /\ UNCHANGED <<latest, queue, prev, ids, frames, kept>>
    BY DEF Exit, writer
<1>2. Range(current') \subseteq Range(current) \cup {}
    BY <1>1 DEF Without, Range
<1>3. {} \cap Held = {} OBVIOUS
<1> QED BY <1>1, <1>2, <1>3, ProbeStep DEF IInv

\* A pass opens no gap in the line of holders.
LEMMA PassRecent ==
    ASSUME IInv, RecentInv, Pass
    PROVE  RecentInv'
<1> DEFINE end == Len(queue) + 2
           at(i) == IF i <= Len(queue) THEN i ELSE end
<1>1. /\ queue \in Seq(Snapshots) /\ current \in Snapshots /\ Len(queue) \in Nat
      /\ queue' = IF Len(queue) < QueueLen THEN Append(queue, current) ELSE queue
      /\ latest' = current
      /\ UNCHANGED <<current, prev, ids, frames, kept>>
    BY QueueLength DEF Pass, IInv, TypeOK, writer
<1>2. /\ Len(queue') \in {Len(queue), Len(queue) + 1}
      /\ \A i \in 1..Len(queue) : queue'[i] = queue[i]
      /\ Len(queue') = Len(queue) + 1 => queue'[Len(queue) + 1] = current
    <2>1. CASE Len(queue) < QueueLen
        <3>1. queue' = Append(queue, current) BY <1>1, <2>1
        <3> QED BY <1>1, <3>1
    <2>2. CASE ~(Len(queue) < QueueLen) BY <1>1, <2>2
    <2> QED BY <2>1, <2>2
<1>3. ASSUME NEW i \in Places' PROVE at(i) \in Places /\ Line(i)' = Line(at(i))
    <2>1. i \in Nat /\ i <= Len(queue') + 2 BY <1>1, <1>2 DEF Places
    <2>2. CASE i = 0 BY <1>1, <2>2 DEF Places, Line
    <2>3. CASE i \in 1..Len(queue)
        <3>1. at(i) = i /\ i \in Places BY <1>1, <2>3 DEF Places
        <3>2. Line(i) = Range(queue[i]) BY <1>1, <2>3 DEF Line
        <3>3. Line(i)' = Range(queue'[i]) BY <1>1, <1>2, <2>3 DEF Line
        <3> QED BY <1>2, <2>3, <3>1, <3>2, <3>3
    <2>4. CASE i > Len(queue)
        <3>1. at(i) = end /\ end \in Places /\ Line(end) = Range(current)
            BY <1>1, <2>1, <2>4 DEF Places, Line
        <3>2. Line(i)' = Range(current)
            <4>1. CASE i <= Len(queue')
                <5>1. i = Len(queue) + 1 /\ Len(queue') = Len(queue) + 1
                    BY <1>1, <1>2, <2>1, <2>4, <4>1
                <5>2. queue'[i] = current BY <1>2, <5>1
                <5>3. Line(i)' = Range(queue'[i]) BY <1>1, <2>4, <4>1, <5>1 DEF Line
                <5> QED BY <5>2, <5>3
            <4>2. CASE ~(i <= Len(queue')) BY <1>1, <2>1, <2>4, <4>2 DEF Line
            <4> QED BY <4>1, <4>2
        <3> HIDE DEF at, end
        <3> QED BY <3>1, <3>2
    <2> QED BY <1>1, <2>1, <2>2, <2>3, <2>4
<1>4. \A i, j \in Places' : i <= j => at(i) <= at(j)
    BY <1>1, <1>2 DEF Places
<1> HIDE DEF at, end
<1>5. Gapless'
    <2> SUFFICES ASSUME NEW i \in Places', NEW j \in Places', NEW k \in Places',
                        i <= j, j <= k
                 PROVE  Line(i)' \cap Line(k)' \subseteq Line(j)'
        BY DEF Gapless
    <2>1. Line(at(i)) \cap Line(at(k)) \subseteq Line(at(j))
        BY <1>3, <1>4 DEF RecentInv, Gapless
    <2> QED BY <1>3, <2>1
<1>6. NumberedInv'
    <2> SUFFICES ASSUME NEW k \in Places'
                 PROVE  DOMAIN ids' \cap Line(k)' \subseteq Range(prev')
        BY DEF NumberedInv
    <2>1. DOMAIN ids \cap Line(at(k)) \subseteq Range(prev)
        BY <1>3 DEF RecentInv, NumberedInv
    <2> QED BY <1>1, <1>3, <2>1
<1>7. TableIsRecent' BY <1>1 DEF RecentInv, TableIsRecent
<1> QED BY <1>5, <1>6, <1>7 DEF RecentInv

\* A view opens no gap in the line of holders, which it is not in.
LEMMA ViewRecent ==
    ASSUME IInv, RecentInv, View
    PROVE  RecentInv'
<1>1. UNCHANGED <<current, latest, queue, prev, ids, frames, kept>>
    BY DEF View, writer
<1>2. Range(current') \subseteq Range(current) \cup {} /\ {} \cap Held = {}
    BY <1>1
<1> QED BY <1>1, <1>2, ProbeStep DEF IInv

\* A number is its quotient and remainder in one way only.
LEMMA RemainderIsUnique ==
    ASSUME NEW n \in Nat, NEW s \in Nat \ {0}, NEW q \in Nat, NEW r \in 0..(s - 1),
           n = s * q + r
    PROVE  n % s = r
<1> QED BY ONLY n \in Nat, s \in Nat \ {0}, q \in Nat, r \in 0..(s - 1), n = s * q + r

\* The last multiple of s up to m is that up to the number before, unless it is m.
LEMMA MultiplesAreApart ==
    ASSUME NEW n \in Nat, NEW m \in Nat, m = n + 1, NEW s \in Nat \ {0}, m % s # 0
    PROVE  m - (m % s) = n - (n % s)
<1> DEFINE q == n \div s
           r == n % s
<1>1. q \in Nat BY ONLY n \in Nat, s \in Nat \ {0}
<1>2. r \in 0..(s - 1) BY ONLY n \in Nat, s \in Nat \ {0}
<1>3. n = s * q + r BY ONLY n \in Nat, s \in Nat \ {0}
<1> HIDE DEF q, r
<1>4. CASE r + 1 < s
    <2>1. r + 1 \in 0..(s - 1) BY ONLY <1>2, <1>4, s \in Nat \ {0}
    <2>2. m = s * q + (r + 1) BY ONLY <1>1, <1>2, <1>3, s \in Nat \ {0}, m = n + 1
    <2>3. m % s = r + 1
        <3>1. q \in Int /\ m \in Int BY ONLY <1>1, m \in Nat
        <3>2. PICK p : p = r + 1 OBVIOUS
        <3>3. p \in 0..(s - 1) /\ m = s * q + p BY <2>1, <2>2, <3>2
        <3>4. m % s = p BY ONLY <3>1, <3>3, s \in Nat \ {0}, RemainderIsUnique
        <3> QED BY <3>2, <3>4
    <2>4. m - (r + 1) = n - r BY ONLY <1>2, n \in Nat, s \in Nat \ {0}, m = n + 1
    <2> QED BY <2>3, <2>4 DEF r
<1>5. CASE ~(r + 1 < s)
    <2>1. r + 1 = s BY ONLY <1>2, <1>5, s \in Nat \ {0}
    <2>2. q + 1 \in Nat /\ m = s * (q + 1) + 0
        BY ONLY <1>1, <1>2, <1>3, <2>1, s \in Nat \ {0}, m = n + 1
    <2>3. 0 \in 0..(s - 1) BY ONLY s \in Nat \ {0}
    <2>4. m % s = 0
        <3>1. q + 1 \in Int /\ m \in Int BY ONLY <2>2, m \in Nat
        <3> QED BY ONLY <2>2, <2>3, <3>1, s \in Nat \ {0}, RemainderIsUnique
    <2> QED BY <2>4
<1> QED BY <1>4, <1>5

\* A remainder is a natural number.
LEMMA RemainderIsNat == ASSUME NEW n \in Nat, NEW s \in Nat \ {0} PROVE n % s \in Nat
<1> QED BY ONLY n \in Nat, s \in Nat \ {0}

\* A write opens no gap in the line, and keeps in the table what the new frame refers to
\* or a view holds.
LEMMA WriteRecent ==
    ASSUME IInv, RecentInv, queue # << >>,
           NEW numbering \in Numberings(Head(queue)), Write(numbering)
    PROVE  RecentInv'
<1> DEFINE snap == Head(queue)
           new == Range(snap) \ DOMAIN ids
           numbered == Merge(ids, numbering)
           last == Len(frames) + 1
<1>1. /\ queue \in Seq(Snapshots) /\ Len(queue) \in Nat \ {0}
      /\ Len(Tail(queue)) = Len(queue) - 1
      /\ \A i \in 1..(Len(queue) - 1) : Tail(queue)[i] = queue[i + 1]
      /\ queue[1] = snap
      /\ DOMAIN Tail(queue) = 1..(Len(queue) - 1)
    BY DEF IInv, TypeOK
<1>2. DOMAIN numbering = new
    BY DEF Numberings, Bijection, Injection
<1>3. /\ queue' = Tail(queue) /\ prev' = snap
      /\ frames' = Append(frames, [o \in DOMAIN snap |-> numbered[snap[o]]])
      /\ ids' = IF Len(frames') % SweepEvery = 0 THEN Sweep(numbered, snap) ELSE numbered
      /\ kept' = IF Len(frames') % SweepEvery = 0 THEN views \cap DOMAIN ids' ELSE kept
      /\ UNCHANGED <<current, latest>>
    BY DEF Write
<1>4. /\ Len(frames) \in Nat /\ Len(frames') = last
      /\ DOMAIN frames = 1..Len(frames) /\ DOMAIN frames' = 1..last
      /\ \A i \in 1..Len(frames) : frames'[i] = frames[i]
      /\ frames'[last] = [o \in DOMAIN snap |-> numbered[snap[o]]]
    BY <1>3 DEF IInv, TypeOK
<1>5. /\ DOMAIN numbered = DOMAIN ids \cup Range(snap)
      /\ \A a \in DOMAIN ids : a \notin new /\ numbered[a] = ids[a]
    BY <1>2 DEF Merge
<1>6. /\ DOMAIN ids' \subseteq DOMAIN numbered
      /\ \A a \in DOMAIN ids' : ids'[a] = numbered[a]
    BY <1>3 DEF Sweep, Restricted
<1>7. \A a \in Range(snap) : numbered[a] \in Range(frames'[last])
    BY <1>4 DEF Range
<1>8. Line(1) = Range(snap) /\ 1 \in Places /\ 0 \in Places /\ Line(0) = Range(prev)
    BY <1>1 DEF Line, Places
<1> HIDE DEF snap, numbered, new
<1>9. ASSUME NEW i \in Places' PROVE i + 1 \in Places /\ Line(i)' = Line(i + 1)
    <2>1. i \in 0..(Len(queue) + 1) /\ Len(queue') = Len(queue) - 1
        BY <1>1, <1>3 DEF Places
    <2>2. i + 1 \in Places BY <1>1, <2>1 DEF Places
    <2>3. CASE i = 0 BY <1>3, <1>8, <2>3 DEF Line
    <2>4. CASE i \in 1..(Len(queue) - 1)
        <3>1. queue'[i] = queue[i + 1] BY <1>1, <1>3, <2>4
        <3>2. Line(i)' = Range(queue'[i]) BY <1>1, <2>1, <2>4 DEF Line
        <3>3. Line(i + 1) = Range(queue[i + 1]) BY <1>1, <2>4 DEF Line
        <3> QED BY <2>2, <3>1, <3>2, <3>3
    <2>5. CASE i = Len(queue) BY <1>1, <1>3, <2>1, <2>2, <2>5 DEF Line
    <2>6. CASE i = Len(queue) + 1
        <3> DEFINE len == Len(queue)
        <3>1. len \in Nat \ {0} /\ Len(queue') = len - 1 /\ i = len + 1
            BY <1>1, <2>1, <2>6
        <3> HIDE DEF len
        <3>2. ~(i = 0) /\ ~(i <= len - 1) /\ ~(i = len - 1 + 1)
            BY ONLY <3>1
        <3>3. ~(i + 1 = 0) /\ ~(i + 1 <= len) /\ ~(i + 1 = len + 1)
            BY ONLY <3>1
        <3>4. Line(i)' = Range(current)
            BY <1>3, <3>1, <3>2 DEF Line
        <3>5. Line(i + 1) = Range(current)
            BY <3>3 DEF Line, len
        <3> QED BY <2>2, <3>4, <3>5
    <2>7. \/ i = 0 \/ i \in 1..(Len(queue) - 1) \/ i = Len(queue) \/ i = Len(queue) + 1
        <3> DEFINE len == Len(queue)
        <3>1. len \in Nat \ {0} BY <1>1
        <3>2. i \in 0..(len + 1) BY <2>1
        <3> HIDE DEF len
        <3>3. \/ i = 0 \/ i \in 1..(len - 1) \/ i = len \/ i = len + 1
            BY ONLY <3>1, <3>2
        <3> QED BY <3>3 DEF len
    <2> QED BY <2>3, <2>4, <2>5, <2>6, <2>7

\* A numbered value that somebody younger holds is in the snapshot just written.
<1>10. ASSUME NEW k \in Places, k >= 1, NEW a \in Line(k), a \in DOMAIN numbered
       PROVE  a \in Range(snap)
    <2>1. CASE a \in DOMAIN ids
        <3>1. a \in Line(0) BY <1>8, <2>1 DEF RecentInv, NumberedInv
        <3>2. Line(0) \cap Line(k) \subseteq Line(1)
            BY <1>8, <1>10 DEF RecentInv, Gapless
        <3> QED BY <1>8, <1>10, <3>1, <3>2
    <2>2. CASE a \notin DOMAIN ids BY <1>5, <1>10, <2>2
    <2> QED BY <2>1, <2>2
<1>11. Gapless'
    <2> SUFFICES ASSUME NEW i \in Places', NEW j \in Places', NEW k \in Places',
                        i <= j, j <= k
                 PROVE  Line(i)' \cap Line(k)' \subseteq Line(j)'
        BY DEF Gapless
    <2>1. i + 1 <= j + 1 /\ j + 1 <= k + 1
        BY <1>1, <1>3 DEF Places
    <2>2. Line(i + 1) \cap Line(k + 1) \subseteq Line(j + 1)
        BY <1>9, <2>1 DEF RecentInv, Gapless
    <2> QED BY <1>9, <2>2
<1>12. NumberedInv'
    <2> SUFFICES ASSUME NEW k \in Places', NEW a \in DOMAIN ids' \cap Line(k)'
                 PROVE  a \in Range(prev')
        BY DEF NumberedInv
    <2>1. k + 1 \in Places /\ k + 1 >= 1 /\ a \in Line(k + 1)
        BY <1>1, <1>3, <1>9 DEF Places
    <2> QED BY <1>3, <1>6, <1>10, <2>1
<1>13. CASE Len(frames') % SweepEvery = 0
    <2>1. ASSUME NEW a \in DOMAIN ids' PROVE a \in Range(snap) \cup kept'
        <3>1. a \in Range(current) \cup Range(latest) \cup Range(snap)
                        \cup Queued(Tail(queue)) \cup views
            BY <1>3, <1>13 DEF Sweep, Restricted
        <3>2. CASE a \in Range(snap) BY <3>2
        <3>3. CASE a \in Queued(Tail(queue))
            <4>1. PICK i \in DOMAIN Tail(queue) : a \in Range(Tail(queue)[i])
                BY <3>3 DEF Queued
            <4>2. i + 1 \in 1..Len(queue) /\ Tail(queue)[i] = queue[i + 1] BY <1>1, <4>1
            <4>3. i + 1 \in Places /\ i + 1 >= 1 /\ Line(i + 1) = Range(queue[i + 1])
                BY <1>1, <4>2 DEF Places, Line
            <4> QED BY <1>6, <1>10, <4>1, <4>2, <4>3
        <3>4. CASE a \in Range(latest)
            <4>1. /\ Len(queue) + 1 \in Places /\ Len(queue) + 1 >= 1
                  /\ Line(Len(queue) + 1) = Range(latest)
                BY <1>1 DEF Places, Line
            <4> QED BY <1>6, <1>10, <3>4, <4>1
        <3>5. CASE a \in Range(current)
            <4>1. /\ Len(queue) + 2 \in Places /\ Len(queue) + 2 >= 1
                  /\ Line(Len(queue) + 2) = Range(current)
                BY <1>1 DEF Places, Line
            <4> QED BY <1>6, <1>10, <3>5, <4>1
        <3>6. CASE a \in views BY <1>3, <1>13, <3>6
        <3> QED BY <3>1, <3>2, <3>3, <3>4, <3>5, <3>6
    <2>2. last \in DOMAIN frames' /\ last >= Len(frames') - (Len(frames') % SweepEvery)
        BY <1>4, <1>13
    <2>3. \A a \in DOMAIN ids' : a \in kept' \/ ids'[a] \in Range(frames'[last])
        BY <1>6, <1>7, <2>1
    <2> HIDE DEF last
    <2> QED BY <1>11, <1>12, <2>2, <2>3 DEF RecentInv, TableIsRecent
<1>14. CASE Len(frames') % SweepEvery # 0
    <2> DEFINE before == Len(frames) - (Len(frames) % SweepEvery)
               after == Len(frames') - (Len(frames') % SweepEvery)
    <2>1. after = before
        <3>1. /\ Len(frames) \in Nat /\ Len(frames') \in Nat
              /\ Len(frames') = Len(frames) + 1
            BY <1>4
        <3>2. Len(frames') % SweepEvery # 0 BY <1>14
        <3> QED BY ONLY <3>1, <3>2, SweepEveryAssumption, MultiplesAreApart
    <2>2. before \in Int /\ after \in Int /\ after <= last
        <3>1. Len(frames) \in Nat /\ Len(frames') \in Nat BY <1>4
        <3>2. Len(frames) % SweepEvery \in Nat /\ Len(frames') % SweepEvery \in Nat
            BY ONLY <3>1, SweepEveryAssumption, RemainderIsNat
        <3> QED BY <1>4, <3>2
    <2>3. ASSUME NEW a \in DOMAIN ids', a \notin kept'
          PROVE  \E i \in DOMAIN frames' : i >= after /\ ids'[a] \in Range(frames'[i])
        <3>1. CASE a \in Range(snap)
            <4>1. last \in DOMAIN frames' /\ last >= after BY <1>4, <2>2
            <4>2. ids'[a] \in Range(frames'[last]) BY <1>6, <1>7, <3>1
            <4> HIDE DEF last, after
            <4> QED BY <4>1, <4>2
        <3>2. CASE a \notin Range(snap)
            <4>1. a \in DOMAIN ids /\ ids'[a] = ids[a] BY <1>5, <1>6, <3>2
            <4>2. PICK i \in DOMAIN frames : i >= before /\ ids[a] \in Range(frames[i])
                BY <1>3, <1>14, <2>3, <4>1 DEF RecentInv, TableIsRecent
            <4>3. i \in 1..Len(frames) BY <1>4
            <4>4. i \in DOMAIN frames' /\ frames'[i] = frames[i] BY <1>4, <4>3
            <4> HIDE DEF before, after, last
            <4>5. i >= after BY <2>1, <2>2, <4>2, <4>3
            <4> QED BY <4>1, <4>2, <4>4, <4>5
        <3> QED BY <3>1, <3>2
    <2> QED BY <1>11, <1>12, <2>3 DEF RecentInv, TableIsRecent
<1> QED BY <1>13, <1>14

\* The line of holders is without gaps at the beginning: nobody holds anything.
LEMMA InitRecent == Init => RecentInv
<1> SUFFICES ASSUME Init PROVE RecentInv OBVIOUS
<1>1. Range(<< >>) = {} /\ Len(queue) = 0 BY DEF Range, Init
<1>2. \A i \in Places : Line(i) = {} BY <1>1 DEF Init, Line, Places
<1>3. Gapless /\ NumberedInv BY <1>2 DEF Gapless, NumberedInv
<1>4. TableIsRecent BY DEF Init, TableIsRecent
<1> QED BY <1>3, <1>4 DEF RecentInv

\* No step opens a gap in the line of holders.
LEMMA NextRecent == IInv /\ RecentInv /\ [Next]_vars => RecentInv'
<1> SUFFICES ASSUME IInv, RecentInv, [Next]_vars PROVE RecentInv' OBVIOUS
<1>1. ASSUME NEW o \in Owners, Exit(o) PROVE RecentInv' BY <1>1, ExitRecent
<1>2. ASSUME NEW o \in Owners, NEW a \in Addresses, Allocate(o, a) PROVE RecentInv'
    BY <1>2, AllocateRecent
<1>3. CASE Pass BY <1>3, PassRecent
<1>4. CASE View BY <1>4, ViewRecent
<1>5. CASE Record
    <2>1. PICK numbering \in Numberings(Head(queue)) : Write(numbering)
        BY <1>5 DEF Record
    <2> QED BY <1>5, <2>1, WriteRecent DEF Record
<1>6. CASE UNCHANGED vars
    <2>1. UNCHANGED <<current, latest, queue, prev, ids, frames, kept>>
        BY <1>6 DEF vars, memory, writer
    <2>2. Range(current') \subseteq Range(current) \cup {} /\ {} \cap Held = {}
        BY <2>1
    <2> QED BY <2>1, <2>2, ProbeStep DEF IInv
<1> QED BY <1>1, <1>2, <1>3, <1>4, <1>5, <1>6 DEF Next

-----------------------------------------------------------------------------
(* The theorem                                                              *)

\* The table holds only numbers that a frame since the last sweep referred to, or that a
\* view held at that sweep, so a long recording does not keep every value it ever saw
\* (table.rs, sweep).
THEOREM TableStaysRecent == Spec => []TableIsRecent
<1>1. Init => IInv /\ RecentInv BY InitInv, InitRecent
<1>2. IInv /\ RecentInv /\ [Next]_vars => (IInv /\ RecentInv)' BY NextInv, NextRecent
<1>3. RecentInv => TableIsRecent BY DEF RecentInv
<1> QED BY <1>1, <1>2, <1>3, PTL DEF Spec
=============================================================================
