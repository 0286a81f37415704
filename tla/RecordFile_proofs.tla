-------------------------- MODULE RecordFile_proofs --------------------------
(***************************************************************************)
(* What a recording's file keeps, for any processes, any width of a        *)
(* counter, any interval between keyframes and any number of snapshots:    *)
(* whatever write failed, wherever the file was cut and in whatever order  *)
(* frames are read, a read returns the snapshot that was written.          *)
(*                                                                         *)
(* The invariant follows the data.  The recorder's index names exactly the *)
(* frames of the stream, each written against the one before it            *)
(* (FramesAreIndexed), a keyframe is never far back (KeysAreNear), the     *)
(* tables a frame needs stand before it (TablesComeBefore), and at most    *)
(* the end of the stream is torn (EndsOnce).  So what open lists, by the   *)
(* index or by a scan, are the first frames that were written and at most  *)
(* a torn one after them (OpenedWell), and what is read from those, from a *)
(* keyframe on or from the frame kept, is what was written (ReadWell).     *)
(*                                                                         *)
(* Runs of frames and increasing sequences are reasoned about by induction *)
(* on natural numbers, which is stated for sets (NatSetInduction).         *)
(***************************************************************************)
EXTENDS RecordFile, FiniteSetTheorems, SequenceTheorems, WellFoundedInduction, TLAPS

-----------------------------------------------------------------------------
(* Natural numbers                                                          *)

\* Natural numbers are well founded.
LEMMA LeastNatural ==
    ASSUME NEW S, S \subseteq Nat, S # {}
    PROVE  \E n \in S : \A m \in S : n <= m
<1> DEFINE Less == OpToRel(<, Nat)
<1>1. IsWellFoundedOn(Less, Nat) BY NatLessThanWellFounded
<1>2. \A x, y \in Nat : x < y => <<x, y>> \in Less BY DEF OpToRel
<1> HIDE DEF Less
<1>3. PICK n \in S : \A m \in S : <<m, n>> \notin Less BY <1>1, WFMin
<1>4. ASSUME NEW m \in S PROVE n <= m
    <2>1. m \in Nat /\ n \in Nat OBVIOUS
    <2>2. ~(m < n) BY <1>2, <1>3, <2>1
    <2> QED BY <2>1, <2>2
<1> QED BY <1>4

\* Induction over the natural numbers, with a set for the property.
LEMMA NatSetInduction ==
    ASSUME NEW S, 0 \in S, \A n \in Nat : n \in S => n + 1 \in S
    PROVE  \A n \in Nat : n \in S
<1> DEFINE T == {n \in Nat : n \notin S}
<1> SUFFICES ASSUME T # {} PROVE FALSE OBVIOUS
<1>1. PICK n \in T : \A m \in T : n <= m BY LeastNatural
<1>2. n # 0 /\ n - 1 \in Nat OBVIOUS
<1>3. n - 1 \in S BY <1>1, <1>2
<1> QED BY <1>2, <1>3

\* A bounded set of integers that is not empty has a greatest and a least element, which
\* Max and Min choose.
LEMMA MaxIsGreatest ==
    ASSUME NEW S, S # {}, NEW low \in Int, NEW high \in Int, S \subseteq low..high
    PROVE  Max(S) \in S /\ \A x \in S : x <= Max(S)
<1> DEFINE Gaps == {n \in Nat : \E x \in S : n = high - x}
<1>1. PICK x \in S : TRUE OBVIOUS
<1>2. high - x \in Gaps BY <1>1
<1>3. PICK n \in Gaps : \A m \in Gaps : n <= m BY <1>2, LeastNatural
<1>4. PICK y \in S : n = high - y BY <1>3
<1>5. \A z \in S : z <= y
    <2> SUFFICES ASSUME NEW z \in S PROVE z <= y OBVIOUS
    <2>1. high - z \in Gaps OBVIOUS
    <2>2. n <= high - z BY <1>3, <2>1
    <2> QED BY <1>4, <2>2
<1>6. \E z \in S : \A w \in S : z >= w BY <1>5
<1>7. Max(S) = CHOOSE z \in S : \A w \in S : z >= w BY DEF Max
<1>8. Max(S) \in S /\ \A w \in S : Max(S) >= w BY <1>6, <1>7
<1> QED BY <1>8

\* The same of the least.
LEMMA MinIsLeast ==
    ASSUME NEW S, S # {}, NEW low \in Int, NEW high \in Int, S \subseteq low..high
    PROVE  Min(S) \in S /\ \A x \in S : Min(S) <= x
<1> DEFINE Gaps == {n \in Nat : \E x \in S : n = x - low}
<1>1. PICK x \in S : TRUE OBVIOUS
<1>2. x - low \in Gaps BY <1>1
<1>3. PICK n \in Gaps : \A m \in Gaps : n <= m BY <1>2, LeastNatural
<1>4. PICK y \in S : n = y - low BY <1>3
<1>5. \A z \in S : y <= z
    <2> SUFFICES ASSUME NEW z \in S PROVE y <= z OBVIOUS
    <2>1. z - low \in Gaps OBVIOUS
    <2>2. n <= z - low BY <1>3, <2>1
    <2> QED BY <1>4, <2>2
<1>6. \E z \in S : \A w \in S : z <= w BY <1>5
<1>7. Min(S) = CHOOSE z \in S : \A w \in S : z <= w BY DEF Min
<1>8. Min(S) \in S /\ \A w \in S : Min(S) <= w BY <1>6, <1>7
<1> QED BY <1>8

\* A number is its quotient and remainder in one way only.
LEMMA RemainderIsUnique ==
    ASSUME NEW n \in Int, NEW s \in Nat \ {0}, NEW q \in Int, NEW r \in 0..(s - 1),
           n = s * q + r
    PROVE  n % s = r
<1> QED BY ONLY n \in Int, s \in Nat \ {0}, q \in Int, r \in 0..(s - 1), n = s * q + r

\* Counters wrap: a change modulo Width gives the value back.
LEMMA ApplyTakesDifferenceBack ==
    ASSUME NEW cur \in Counters, NEW was \in Counters
    PROVE  Difference(cur, was) \in Counters /\ Apply(was, Difference(cur, was)) = cur
<1>1. Width \in Nat \ {0} BY WidthAssumption
<1>2. cur \in 0..(Width - 1) /\ was \in 0..(Width - 1) BY DEF Counters
<1>3. PICK m : m = cur - was OBVIOUS
<1>4. m \in Int BY <1>1, <1>2, <1>3
<1>5. CASE cur >= was
    <2>1. m \in 0..(Width - 1) /\ m = Width * 0 + m BY <1>1, <1>2, <1>3, <1>5
    <2>2. m % Width = m BY ONLY <1>1, <1>4, <2>1, RemainderIsUnique
    <2>3. cur = Width * 0 + cur /\ was + m = cur BY <1>1, <1>2, <1>3
    <2>4. cur % Width = cur BY ONLY <1>1, <1>2, <2>3, RemainderIsUnique
    <2> QED BY <1>3, <2>1, <2>2, <2>3, <2>4 DEF Difference, Apply, Counters
<1>6. CASE ~(cur >= was)
    <2>1. PICK r : r = m + Width OBVIOUS
    <2>2. r \in 0..(Width - 1) /\ m = Width * (-1) + r BY <1>1, <1>2, <1>3, <1>6, <2>1
    <2>3. m % Width = r BY ONLY <1>1, <1>4, <2>2, RemainderIsUnique
    <2>4. PICK t : t = was + r OBVIOUS
    <2>5. t \in Int /\ t = Width * 1 + cur BY <1>1, <1>2, <1>3, <2>1, <2>4
    <2>6. t % Width = cur BY ONLY <1>1, <1>2, <2>5, RemainderIsUnique
    <2> QED BY <1>3, <2>2, <2>3, <2>4, <2>6 DEF Difference, Apply, Counters
<1> QED BY <1>5, <1>6

-----------------------------------------------------------------------------
(* Positions in order, and runs of frames                                   *)

\* There is one increasing sequence of all members of a set of positions.
LEMMA InOrderIsUnique ==
    ASSUME NEW S, S \subseteq Nat, NEW n \in Nat, NEW f \in [1..n -> S],
           \A k, l \in 1..n : k < l => f[k] < f[l],
           \A x \in S : \E k \in 1..n : f[k] = x
    PROVE  InOrder(S) = f
<1>1. f \in Bijection(1..n, S)
    <2>1. \A k, l \in 1..n : f[k] = f[l] => k = l
        <3> SUFFICES ASSUME NEW k \in 1..n, NEW l \in 1..n, f[k] = f[l], k # l PROVE FALSE
            OBVIOUS
        <3>1. k < l \/ l < k OBVIOUS
        <3>2. f[k] \in Nat /\ f[l] \in Nat OBVIOUS
        <3> QED BY <3>1, <3>2
    <2> QED BY <2>1 DEF Bijection, Injection, Surjection, IsInjective
<1>2. IsFiniteSet(S) /\ Cardinality(S) = n
    BY <1>1, FS_NatBijection, FS_CountingElements DEF ExistsBijection
<1>3. PICK g : g = InOrder(S) OBVIOUS
<1>4. g \in [1..n -> S] /\ \A k, l \in 1..n : k < l => g[k] < g[l]
    <2>1. g = CHOOSE ats \in [1..n -> S] : \A k, l \in DOMAIN ats : k < l => ats[k] < ats[l]
        BY <1>2, <1>3 DEF InOrder
    <2>2. \E ats \in [1..n -> S] : \A k, l \in DOMAIN ats : k < l => ats[k] < ats[l] OBVIOUS
    <2> QED BY <2>1, <2>2
<1>5. \A x \in S : \E k \in 1..n : g[k] = x
    <2>1. \A k, l \in 1..n : g[k] = g[l] => k = l
        <3> SUFFICES ASSUME NEW k \in 1..n, NEW l \in 1..n, g[k] = g[l], k # l PROVE FALSE
            OBVIOUS
        <3>1. k < l \/ l < k OBVIOUS
        <3>2. g[k] \in Nat /\ g[l] \in Nat BY <1>4
        <3> QED BY <1>4, <3>1, <3>2
    <2>2. g \in Injection(1..n, S) BY <1>4, <2>1 DEF Injection, IsInjective
    <2>3. ExistsBijection(1..n, S) BY <1>1 DEF ExistsBijection
    <2>4. IsFiniteSet(1..n) /\ Cardinality(1..n) = n
        <3>1. 1 \in Int /\ n \in Int OBVIOUS
        <3> QED BY <3>1, FS_Interval
    <2>5. g \in Surjection(1..n, S) BY <1>2, <2>2, <2>4, FS_Injection
    <2> QED BY <2>5 DEF Surjection
<1>6. \A m \in Nat : m \in {l \in Nat : \A k \in 1..n : k <= l => f[k] = g[k]}
    <2> DEFINE Same == {m \in Nat : \A k \in 1..n : k <= m => f[k] = g[k]}
    <2>1. 0 \in Same OBVIOUS
    <2>2. ASSUME NEW m \in Nat, m \in Same PROVE m + 1 \in Same
        <3> SUFFICES ASSUME m + 1 \in 1..n PROVE f[m + 1] = g[m + 1] BY <2>2
        <3>1. \A k \in 1..m : f[k] = g[k] BY <2>2
        <3>2. PICK j \in 1..n : f[j] = g[m + 1] BY <1>4
        <3>3. PICK l \in 1..n : g[l] = f[m + 1] BY <1>5
        <3>4. j > m
            <4> SUFFICES ASSUME j <= m PROVE FALSE OBVIOUS
            <4>1. g[j] = g[m + 1] BY <3>1, <3>2
            <4>2. g[j] < g[m + 1] BY <1>4
            <4>3. g[j] \in Nat BY <1>4
            <4> QED BY <4>1, <4>2, <4>3
        <3>5. l > m
            <4> SUFFICES ASSUME l <= m PROVE FALSE OBVIOUS
            <4>1. f[l] = f[m + 1] BY <3>1, <3>3
            <4>2. f[l] < f[m + 1] OBVIOUS
            <4>3. f[l] \in Nat OBVIOUS
            <4> QED BY <4>1, <4>2, <4>3
        <3>6. f[m + 1] <= f[j] /\ g[m + 1] <= g[l]
            <4>1. f[m + 1] \in Nat /\ g[m + 1] \in Nat BY <1>4
            <4>2. j = m + 1 \/ f[m + 1] < f[j] BY <3>4
            <4>3. l = m + 1 \/ g[m + 1] < g[l] BY <1>4, <3>5
            <4> QED BY <4>1, <4>2, <4>3, <3>2, <3>3
        <3>7. f[m + 1] \in Nat /\ g[m + 1] \in Nat BY <1>4
        <3> QED BY <3>2, <3>3, <3>6, <3>7
    <2> HIDE DEF Same
    <2> QED BY <2>1, <2>2, NatSetInduction DEF Same
<1>7. \A k \in 1..n : f[k] = g[k]
    <2> SUFFICES ASSUME NEW k \in 1..n PROVE f[k] = g[k] OBVIOUS
    <2>1. k \in Nat OBVIOUS
    <2> QED BY <1>6, <2>1
<1> QED BY <1>3, <1>4, <1>7

\* The recursion of Run is well founded.
IsRun(g, start, top, base) ==
    g = [k \in (start - 1)..top |-> IF k = start - 1 THEN base ELSE DecodeAt(k, g[k - 1])]

\* However far it goes, a run of decoded frames exists.
LEMMA RunUpTo ==
    ASSUME NEW start \in Int, NEW base, NEW m \in Nat
    PROVE  \E g : IsRun(g, start, start - 1 + m, base)
<1> DEFINE Runs == {j \in Nat : \E g : IsRun(g, start, start - 1 + j, base)}
<1>1. 0 \in Runs
    <2>1. (start - 1)..(start - 1 + 0) = {start - 1} OBVIOUS
    <2>2. IsRun([k \in {start - 1} |-> base], start, start - 1 + 0, base) BY <2>1 DEF IsRun
    <2> QED BY <2>2
<1>2. ASSUME NEW j \in Nat, j \in Runs PROVE j + 1 \in Runs
    <2>1. PICK g : IsRun(g, start, start - 1 + j, base) BY <1>2
    <2> DEFINE top == start + j
               more == [k \in (start - 1)..top |->
                            IF k = top THEN DecodeAt(top, g[top - 1]) ELSE g[k]]
    <2>2. top = start - 1 + (j + 1) /\ top - 1 = start - 1 + j OBVIOUS
    <2>3. ASSUME NEW k \in (start - 1)..top
          PROVE  more[k] = IF k = start - 1 THEN base ELSE DecodeAt(k, more[k - 1])
        <3>1. CASE k = top
            <4>1. k - 1 \in (start - 1)..top /\ k - 1 # top /\ k # start - 1 BY <3>1
            <4>2. more[k - 1] = g[k - 1] BY <4>1
            <4> QED BY <3>1, <4>1, <4>2
        <3>2. CASE k # top
            <4>1. k \in (start - 1)..(start - 1 + j) BY <3>2
            <4>2. more[k] = g[k] BY <3>2
            <4>3. g[k] = IF k = start - 1 THEN base ELSE DecodeAt(k, g[k - 1])
                BY <2>1, <4>1 DEF IsRun
            <4>4. k # start - 1 => k - 1 \in (start - 1)..top /\ k - 1 # top BY <4>1
            <4>5. k # start - 1 => more[k - 1] = g[k - 1] BY <4>4
            <4> QED BY <4>2, <4>3, <4>5
        <3> QED BY <3>1, <3>2
    <2>4. more = [k \in (start - 1)..top |-> more[k]] OBVIOUS
    <2> HIDE DEF more
    <2>5. IsRun(more, start, start - 1 + (j + 1), base) BY <2>2, <2>3, <2>4 DEF IsRun
    <2> QED BY <2>5
<1> HIDE DEF Runs
<1>3. m \in Runs BY <1>1, <1>2, NatSetInduction
<1> QED BY <1>3 DEF Runs

\* What a run returns, if each frame decodes to the value given for it.
LEMMA RunReturns ==
    ASSUME NEW start \in Int, NEW i \in Int, start <= i, NEW base, NEW value,
           DecodeAt(start, base) = value[start],
           \A k \in (start + 1)..i : DecodeAt(k, value[k - 1]) = value[k]
    PROVE  Run(start, i, base) = value[i]
<1>1. \E g : IsRun(g, start, i, base)
    <2>1. PICK m \in Nat : start - 1 + m = i
        <3>1. i - (start - 1) \in Nat /\ start - 1 + (i - (start - 1)) = i OBVIOUS
        <3> QED BY <3>1
    <2> QED BY <2>1, RunUpTo
<1>2. PICK up : up = CHOOSE g : IsRun(g, start, i, base) OBVIOUS
<1>3. IsRun(up, start, i, base) BY <1>1, <1>2
<1>4. Run(start, i, base) = up[i] BY <1>2 DEF Run, IsRun
<1> DEFINE Good == {j \in Nat : start + j <= i => up[start + j] = value[start + j]}
<1>5. 0 \in Good
    <2>1. start \in (start - 1)..i /\ start - 1 \in (start - 1)..i /\ start # start - 1 OBVIOUS
    <2>2. up[start] = DecodeAt(start, up[start - 1]) /\ up[start - 1] = base
        BY <1>3, <2>1 DEF IsRun
    <2> QED BY <2>2
<1>6. ASSUME NEW j \in Nat, j \in Good PROVE j + 1 \in Good
    <2> SUFFICES ASSUME start + (j + 1) <= i
                 PROVE  up[start + (j + 1)] = value[start + (j + 1)] BY <1>6
    <2> DEFINE k == start + (j + 1)
    <2>1. k \in (start + 1)..i /\ k \in (start - 1)..i /\ k # start - 1 /\ k - 1 = start + j
        OBVIOUS
    <2>2. up[k - 1] = value[k - 1] BY <1>6, <2>1
    <2>3. up[k] = DecodeAt(k, up[k - 1]) BY <1>3, <2>1 DEF IsRun
    <2> QED BY <2>1, <2>2, <2>3
<1> HIDE DEF Good
<1>7. i - start \in Good
    <2>1. i - start \in Nat OBVIOUS
    <2> QED BY <1>5, <1>6, <2>1, NatSetInduction
<1>8. start + (i - start) = i OBVIOUS
<1> QED BY <1>4, <1>7, <1>8 DEF Good

-----------------------------------------------------------------------------
(* The invariant                                                            *)

Entries == [at : Nat, key : BOOLEAN]
Positions == Nat \ {0}
Indexes == [frames : Seq(Entries), tables : Seq(Positions)]
ProcessRows == UNION {[shown -> Rows] : shown \in SUBSET Processes}
Records ==
    [kind : {"table"}, defs : SUBSET Processes] \cup [kind : {"key", "delta"}, rows : ProcessRows]
    \cup [kind : {"torn table", "torn index"}] \cup [kind : {"torn frame"}, key : BOOLEAN]
    \cup [kind : {"index"}, index : Indexes]

Types ==
    /\ stream \in Seq(Records) /\ written \in Seq(Snapshots) /\ index \in Indexes
    /\ prev = IF written = << >> THEN None ELSE Some(written[Len(written)])
    /\ known \subseteq Processes /\ readers \subseteq Processes
    /\ rec \in {"open", "failed", "finished", "dead"}
    /\ disk \in 0..Len(stream)
    /\ open \in {"closed", "ok", "error"} /\ hadIndex \in BOOLEAN
    /\ frames \in Seq(Entries) /\ fileLen \in Nat

\* The frame at an index entry is that of a snapshot of a sequence.
IsWritten(i, e, records, snaps) ==
    /\ e.at \in 1..Len(records)
    /\ records[e.at] = Frame(e.key, Encode(snaps[i], IF e.key THEN None ELSE Some(snaps[i - 1])))

\* The index names the frames of the stream in their order and nothing else, one for
\* each snapshot written; a frame holds its snapshot, or the change from the one before.
FramesAreIndexed ==
    /\ Len(index.frames) = Len(written)
    /\ \A i \in 1..Len(written) : IsWritten(i, index.frames[i], stream, written)
    /\ \A i, j \in 1..Len(written) : i < j => index.frames[i].at < index.frames[j].at
    /\ \A p \in 1..Len(stream) : IsFrame(p) => \E i \in 1..Len(written) : index.frames[i].at = p

\* No frame is further than KeyEvery from the keyframe it starts from, and sinceKey
\* says how far the next one would be.
KeysAreNear ==
    /\ IF written = << >> THEN sinceKey = 0
       ELSE /\ sinceKey \in 1..KeyEvery /\ sinceKey <= Len(written)
            /\ index.frames[Len(written) - sinceKey + 1].key
    /\ \A i \in 1..Len(written) : \E k \in 1..i : index.frames[k].key /\ i - k < KeyEvery

\* What the tables before a position hold.
TablesBefore(records, end) ==
    UNION {records[t].defs : t \in {t \in 1..(end - 1) : records[t].kind = "table"}}

\* The facts of every process a frame lists stand in tables before it, the index names
\* every table, and what the recorder thinks known has been put there, until it fails.
TablesComeBefore ==
    /\ \A i \in 1..Len(written) : DOMAIN written[i] \subseteq TablesBefore(stream, index.frames[i].at)
    /\ rec = "open" => known \subseteq TablesBefore(stream, Len(stream) + 1)
    /\ \A t \in 1..Len(stream) : stream[t].kind = "table" => \E i \in DOMAIN index.tables : index.tables[i] = t

\* The index is the last record, and the same as the recorder's; of the others only the
\* last can be torn.
EndsOnce ==
    \A p \in 1..Len(stream) :
        /\ stream[p].kind \in {"index", "torn index"} => rec = "finished" /\ p = Len(stream)
        /\ stream[p].kind = "index" => stream[p].index = index
        /\ IsTorn(p) => /\ rec # "open"
                        /\ \A q \in (p + 1)..Len(stream) : stream[q].kind \in {"index", "torn index"}
        /\ stream[p].kind = "torn frame" => stream[p].key = IsKey

RecorderInv == FramesAreIndexed /\ KeysAreNear /\ TablesComeBefore /\ EndsOnce

\* How many of the frames listed are whole: all but a torn one at the end.
Whole == IF frames # << >> /\ Torn(Len(frames)) THEN Len(frames) - 1 ELSE Len(frames)

\* The frames open has listed are the first that were written, as far as the file went.
OpenedWell ==
    IF open = "ok"
    THEN /\ fileLen <= disk
         /\ \A i \in DOMAIN frames : frames[i].at \in 1..fileLen
         /\ Whole <= Len(written)
         /\ \A i \in 1..Whole : frames[i] = index.frames[i] /\ DOMAIN written[i] \subseteq readers
         /\ \A i \in 1..Len(written) : index.frames[i].at <= fileLen => i <= Whole
         /\ Len(frames) > Whole =>
                frames[Len(frames)].key = stream[frames[Len(frames)].at].key /\ Whole = Len(written)
    ELSE frames = << >>

ReadWell ==
    /\ decoded \in 0..KeyEvery
    /\ cache # None => The(cache).at \in 1..Whole /\ The(cache).snap = written[The(cache).at]
    /\ result # None => The(result).at \in DOMAIN frames /\ ReadsWhatWasWritten

IInv == Types /\ RecorderInv /\ OpenedWell /\ ReadWell

\* It holds before anything is written.
LEMMA InitIInv == Init => IInv
<1> SUFFICES ASSUME Init PROVE IInv OBVIOUS
<1> USE DEF Init
<1>0. Len(stream) = 0 /\ 1..Len(stream) = {} /\ Len(written) = 0 OBVIOUS
<1>1. Types
    <2>1. << >> \in Seq(Records) /\ << >> \in Seq(Snapshots) /\ << >> \in Seq(Entries)
          /\ << >> \in Seq(Positions)
        OBVIOUS
    <2>2. index \in Indexes BY <2>1 DEF Indexes
    <2>3. disk \in 0..Len(stream) BY <1>0
    <2>4. stream = << >> /\ written = << >> /\ frames = << >> /\ prev = None OBVIOUS
    <2>5. /\ known \subseteq Processes /\ readers \subseteq Processes /\ rec = "open"
          /\ open = "closed" /\ hadIndex = FALSE /\ fileLen = 0
        OBVIOUS
    <2> HIDE DEF Init
    <2> QED BY <2>1, <2>2, <2>3, <2>4, <2>5 DEF Types
<1>2. FramesAreIndexed BY DEF FramesAreIndexed
<1>3. KeysAreNear BY DEF KeysAreNear
<1>4. TablesComeBefore BY DEF TablesComeBefore
<1>5. EndsOnce BY <1>0 DEF EndsOnce
<1>6. OpenedWell BY DEF OpenedWell
<1>7. ReadWell BY KeyEveryAssumption DEF ReadWell
<1> QED BY <1>1, <1>2, <1>3, <1>4, <1>5, <1>6, <1>7 DEF IInv, RecorderInv

-----------------------------------------------------------------------------
(* The recorder                                                             *)

\* One list after another.
LEMMA Longer ==
    ASSUME NEW T, NEW s \in Seq(T), NEW t \in Seq(T)
    PROVE  /\ s \o t \in Seq(T) /\ Len(s \o t) = Len(s) + Len(t)
           /\ \A p \in 1..Len(s) : (s \o t)[p] = s[p]
           /\ \A p \in 1..Len(t) : (s \o t)[Len(s) + p] = t[p]
           /\ \A p \in (Len(s) + 1)..(Len(s) + Len(t)) : (s \o t)[p] = t[p - Len(s)]
<1>1. Len(s) \in Nat /\ Len(t) \in Nat OBVIOUS
<1>2. s \o t \in Seq(T) /\ Len(s \o t) = Len(s) + Len(t)
      /\ \A p \in 1..(Len(s) + Len(t)) : (s \o t)[p] = IF p <= Len(s) THEN s[p] ELSE t[p - Len(s)]
    BY ConcatProperties
<1>3. \A p \in 1..Len(t) : Len(s) + p \in 1..(Len(s) + Len(t)) /\ ~(Len(s) + p <= Len(s))
                            /\ Len(s) + p - Len(s) = p
    BY <1>1
<1>4. \A p \in (Len(s) + 1)..(Len(s) + Len(t)) : p \in 1..(Len(s) + Len(t)) /\ ~(p <= Len(s))
    BY <1>1
<1> QED BY <1>1, <1>2, <1>3, <1>4

\* A list of one.
LEMMA One == ASSUME NEW T, NEW x \in T PROVE <<x>> \in Seq(T) /\ Len(<<x>>) = 1 /\ <<x>>[1] = x
OBVIOUS

\* A frame holds a row for each process it lists.
LEMMA EncodeIsRows ==
    ASSUME NEW snap \in Snapshots, NEW base, base = None \/ The(base) \in Snapshots
    PROVE  Encode(snap, base) \in ProcessRows
<1>1. PICK shown \in SUBSET Processes : snap \in [shown -> Counters] BY DEF Snapshots
<1>2. DOMAIN snap = shown BY <1>1
<1>3. ASSUME NEW p \in shown
      PROVE  (IF base # None /\ p \in DOMAIN The(base)
                THEN Row(FALSE, Difference(snap[p], The(base)[p]))
                ELSE Row(TRUE, snap[p])) \in Rows
    <2>1. snap[p] \in Counters BY <1>1
    <2>2. CASE base # None /\ p \in DOMAIN The(base)
        <3>1. PICK other \in SUBSET Processes : The(base) \in [other -> Counters]
            BY <2>2 DEF Snapshots
        <3>2. The(base)[p] \in Counters BY <2>2, <3>1
        <3>3. Difference(snap[p], The(base)[p]) \in Counters
            BY <2>1, <3>2, ApplyTakesDifferenceBack
        <3> QED BY <2>2, <3>3 DEF Row, Rows
    <2>3. CASE ~(base # None /\ p \in DOMAIN The(base)) BY <2>1, <2>3 DEF Row, Rows
    <2> QED BY <2>2, <2>3
<1>4. Encode(snap, base) \in [shown -> Rows] BY <1>2, <1>3 DEF Encode
<1> QED BY <1>4 DEF ProcessRows

\* What is put in the stream before a frame, and what of it reaches it with the frame.
LEMMA NewTablesAre ==
    ASSUME NEW snap \in Snapshots
    PROVE  /\ NewTables(snap) \in Seq(Records) /\ Len(NewTables(snap)) \in {0, 1}
           /\ Len(NewTables(snap)) = 0 => DOMAIN snap \subseteq known
           /\ Len(NewTables(snap)) = 1 => NewTables(snap)[1] = Table(DOMAIN snap \ known)
           /\ DOMAIN snap \subseteq Processes
<1>1. DOMAIN snap \subseteq Processes BY DEF Snapshots
<1>2. Table(DOMAIN snap \ known) \in Records BY <1>1 DEF Table, Records
<1>3. PICK t : t = Table(DOMAIN snap \ known) OBVIOUS
<1>4. CASE DOMAIN snap \subseteq known
    <2>1. NewTables(snap) = << >> BY <1>4 DEF NewTables
    <2>2. << >> \in Seq(Records) /\ Len(<< >>) = 0 OBVIOUS
    <2> QED BY <1>1, <1>4, <2>1, <2>2
<1>5. CASE ~(DOMAIN snap \subseteq known)
    <2>1. NewTables(snap) = <<t>> BY <1>3, <1>5 DEF NewTables
    <2>2. <<t>> \in Seq(Records) /\ Len(<<t>>) = 1 /\ <<t>>[1] = t BY <1>2, <1>3
    <2> QED BY <1>1, <1>3, <2>1, <2>2
<1> QED BY <1>4, <1>5

\* Before a table is written its place is put in the index, and nothing else changes there.
LEMMA TablesAreNoted ==
    ASSUME NEW n \in {0, 1}, index \in Indexes, Len(stream) \in Nat
    PROVE  /\ TablesNoted(n) \in Indexes /\ TablesNoted(n).frames = index.frames
           /\ \A i \in DOMAIN index.tables :
                i \in DOMAIN TablesNoted(n).tables /\ TablesNoted(n).tables[i] = index.tables[i]
           /\ n = 1 => \E i \in DOMAIN TablesNoted(n).tables : TablesNoted(n).tables[i] = Len(stream) + 1
<1> DEFINE more == [i \in 1..n |-> Len(stream) + i]
<1>1. index.tables \in Seq(Positions) /\ index.frames \in Seq(Entries)
      /\ index = [frames |-> index.frames, tables |-> index.tables]
    BY DEF Indexes
<1>2. more \in Seq(Positions) /\ Len(more) = n
    <2>1. \A i \in 1..n : Len(stream) + i \in Positions BY DEF Positions
    <2> QED BY <2>1
<1>3. n = 1 => more[1] = Len(stream) + 1 OBVIOUS
<1>4. TablesNoted(n) = [frames |-> index.frames, tables |-> index.tables \o more]
    <2>1. TablesNoted(n) = [index EXCEPT !.tables = index.tables \o more] BY DEF TablesNoted
    <2> HIDE DEF more
    <2>2. PICK t : t = index.tables \o more OBVIOUS
    <2>3. PICK f, g : index = [frames |-> f, tables |-> g] BY <1>1
    <2>4. [index EXCEPT !.tables = t] = [frames |-> f, tables |-> t] BY <2>3
    <2>5. index.frames = f BY <2>3
    <2> QED BY <2>1, <2>2, <2>4, <2>5
<1> HIDE DEF more
<1>5. PICK ts : ts = index.tables OBVIOUS
<1>6. /\ ts \o more \in Seq(Positions) /\ Len(ts \o more) = Len(ts) + n
      /\ \A p \in 1..Len(ts) : (ts \o more)[p] = ts[p]
      /\ \A p \in 1..n : (ts \o more)[Len(ts) + p] = more[p]
    BY <1>1, <1>2, <1>5, Longer
<1>7. DOMAIN ts = 1..Len(ts) /\ DOMAIN (ts \o more) = 1..(Len(ts) + n) /\ Len(ts) \in Nat
    BY <1>1, <1>5, <1>6
<1>8. TablesNoted(n) \in Indexes BY <1>1, <1>4, <1>5, <1>6 DEF Indexes
<1>9. TablesNoted(n).frames = index.frames /\ TablesNoted(n).tables = ts \o more
    BY <1>4, <1>5
<1>10. n = 1 => Len(ts) + 1 \in DOMAIN (ts \o more) /\ (ts \o more)[Len(ts) + 1] = Len(stream) + 1
    BY <1>3, <1>6, <1>7
<1>11. \A i \in DOMAIN ts : i \in DOMAIN (ts \o more) /\ (ts \o more)[i] = ts[i]
    BY <1>6, <1>7
<1> HIDE DEF more
<1>12. n = 1 => \E i \in DOMAIN (ts \o more) : (ts \o more)[i] = Len(stream) + 1 BY <1>10
<1> QED BY <1>5, <1>8, <1>9, <1>11, <1>12

\* Facts about the stream and the index that every step needs.
LEMMA Lengths ==
    ASSUME Types, FramesAreIndexed
    PROVE  /\ Len(stream) \in Nat /\ DOMAIN stream = 1..Len(stream)
           /\ Len(written) \in Nat /\ DOMAIN written = 1..Len(written)
           /\ index.frames \in Seq(Entries) /\ DOMAIN index.frames = 1..Len(written)
           /\ Len(frames) \in Nat /\ DOMAIN frames = 1..Len(frames)
           /\ \A i \in 1..Len(written) : /\ index.frames[i] \in Entries
                                         /\ index.frames[i].at \in 1..Len(stream)
                                         /\ index.frames[i].key \in BOOLEAN
                                         /\ written[i] \in Snapshots
<1>1. Len(stream) \in Nat /\ DOMAIN stream = 1..Len(stream) BY DEF Types
<1>2. Len(written) \in Nat /\ DOMAIN written = 1..Len(written)
      /\ \A i \in 1..Len(written) : written[i] \in Snapshots
    BY DEF Types
<1>3. index.frames \in Seq(Entries) BY DEF Types, Indexes
<1>4. Len(index.frames) = Len(written) BY DEF FramesAreIndexed
<1>5. DOMAIN index.frames = 1..Len(written)
      /\ \A i \in 1..Len(written) : index.frames[i] \in Entries
    BY <1>3, <1>4
<1>6. Len(frames) \in Nat /\ DOMAIN frames = 1..Len(frames) BY DEF Types
<1>7. \A i \in 1..Len(written) : index.frames[i].key \in BOOLEAN BY <1>5 DEF Entries
<1>8. \A i \in 1..Len(written) : index.frames[i].at \in 1..Len(stream)
    BY DEF FramesAreIndexed, IsWritten
<1> QED BY <1>1, <1>2, <1>3, <1>5, <1>6, <1>7, <1>8

\* The frames listed are those before Whole, which are whole, and at most a torn one.
LEMMA WholeIs ==
    ASSUME Types, FramesAreIndexed, OpenedWell
    PROVE  /\ Whole \in Nat /\ Whole <= Len(frames) /\ Whole <= Len(written)
           /\ Whole < Len(frames) => Whole = Len(frames) - 1
           /\ \A i \in 1..Len(frames) : Torn(i) <=> i > Whole
<1>1. PICK n, w, c : n = Len(frames) /\ w = Len(written) /\ c = Whole OBVIOUS
<1>2. n \in Nat /\ w \in Nat BY <1>1, Lengths
<1>3. frames = << >> <=> n = 0 BY <1>1, EmptySeq DEF Types
<1>4. c = (IF n # 0 /\ Torn(n) THEN n - 1 ELSE n) BY <1>1, <1>3 DEF Whole
<1>5. c \in Nat /\ c <= n /\ (c < n => c = n - 1 /\ Torn(n)) /\ (c = n /\ n # 0 => ~Torn(n))
    <2>1. CASE n # 0 /\ Torn(n) BY <1>2, <1>4, <2>1
    <2>2. CASE ~(n # 0 /\ Torn(n)) BY <1>2, <1>4, <2>2
    <2> QED BY <2>1, <2>2
<1>6. c <= w
    <2>1. CASE open = "ok" BY <1>1, <2>1 DEF OpenedWell
    <2>2. CASE open # "ok"
        <3>1. n = 0 BY <1>3, <2>2 DEF OpenedWell
        <3> QED BY <1>2, <1>5, <3>1
    <2> QED BY <2>1, <2>2
<1>7. ASSUME NEW i \in 1..c PROVE ~Torn(i)
    <2>1. open = "ok"
        <3>1. n # 0 BY <1>2, <1>5
        <3> QED BY <1>3, <3>1 DEF OpenedWell
    <2>2. frames[i] = index.frames[i] BY <1>1, <2>1 DEF OpenedWell
    <2>3. i \in 1..w BY <1>2, <1>5, <1>6
    <2>4. IsWritten(i, frames[i], stream, written) BY <1>1, <2>2, <2>3 DEF FramesAreIndexed
    <2>5. stream[frames[i].at].kind \in {"key", "delta"} BY <2>4 DEF IsWritten, Frame
    <2> QED BY <2>5 DEF Torn
<1>8. ASSUME NEW i \in 1..n PROVE Torn(i) <=> i > c
    <2>1. CASE i <= c
        <3>1. i \in 1..c BY <1>5, <2>1
        <3> QED BY <1>5, <1>7, <2>1, <3>1
    <2>2. CASE i > c
        <3>1. i = n /\ Torn(n) BY <1>2, <1>5, <2>2
        <3> QED BY <2>2, <3>1
    <2> QED BY <1>2, <1>5, <2>1, <2>2
<1> QED BY <1>1, <1>5, <1>6, <1>8

\* What the recorder and the disk do to a file that is open.
LEMMA ReadingStays ==
    ASSUME Types, RecorderInv, OpenedWell, ReadWell, UNCHANGED recording,
           NEW n, n = Len(stream), NEW w, w = Len(written), NEW v, v = Len(written'),
           v \in Nat, w <= v, disk' \in Nat, disk <= disk',
           \A p \in 1..n : stream'[p] = stream[p],
           \A i \in 1..w : index'.frames[i] = index.frames[i] /\ written'[i] = written[i],
           \A i \in (w + 1)..v : index'.frames[i].at \in Nat /\ index'.frames[i].at > n,
           rec # "open" => v = w
    PROVE  OpenedWell' /\ ReadWell'
<1> USE DEF RecorderInv
<1>1. /\ open' = open /\ fileLen' = fileLen /\ frames' = frames /\ readers' = readers
      /\ cache' = cache /\ result' = result /\ decoded' = decoded
    BY DEF recording
<1>2. PICK c, l : c = Whole /\ l = Len(frames) OBVIOUS
<1>3. /\ n \in Nat /\ w \in Nat /\ l \in Nat /\ c \in Nat /\ c <= l /\ c <= w
      /\ \A i \in 1..l : Torn(i) <=> i > c
      /\ DOMAIN frames = 1..l
    BY <1>2, Lengths, WholeIs
<1>4. \A i \in 1..l : stream'[frames[i].at] = stream[frames[i].at] /\ open = "ok"
    <2> SUFFICES ASSUME NEW i \in 1..l
                 PROVE  stream'[frames[i].at] = stream[frames[i].at] /\ open = "ok"
        OBVIOUS
    <2>1. l # 0 BY <1>3
    <2>2. open = "ok" BY <1>2, <2>1 DEF OpenedWell
    <2>3. PICK p : p = frames[i].at OBVIOUS
    <2>4. p \in 1..fileLen /\ fileLen <= disk BY <1>3, <2>2, <2>3 DEF OpenedWell
    <2>5. fileLen \in Nat /\ disk \in 0..n BY DEF Types
    <2>6. p \in 1..n BY <2>4, <2>5, <1>3
    <2> QED BY <2>2, <2>3, <2>6
<1>5. \A i \in 1..l : Torn(i)' = Torn(i) BY <1>1, <1>4 DEF Torn
<1>6. Whole' = c
    <2>1. frames = << >> <=> l = 0 BY <1>2, EmptySeq DEF Types
    <2>2. l # 0 => l \in 1..l BY <1>3
    <2>3. l # 0 => (Torn(Len(frames))' <=> Torn(l)) BY <1>1, <1>2, <1>5, <2>2
    <2> QED BY <1>1, <1>2, <2>1, <2>3 DEF Whole
<1>7. OpenedWell'
    <2>1. CASE open = "ok"
        <3>1. fileLen <= disk BY <2>1 DEF OpenedWell
        <3>2. fileLen' <= disk'
            <4>1. fileLen \in Nat /\ disk \in Nat BY DEF Types
            <4> QED BY ONLY <1>1, <3>1, <4>1, disk' \in Nat, disk <= disk'
        <3>3. \A i \in DOMAIN frames' : frames'[i].at \in 1..fileLen' BY <1>1, <2>1 DEF OpenedWell
        <3>4. c <= v BY <1>3
        <3>5. \A i \in 1..c : frames'[i] = index'.frames[i] /\ DOMAIN written'[i] \subseteq readers'
            <4> SUFFICES ASSUME NEW i \in 1..c
                         PROVE  frames'[i] = index'.frames[i] /\ DOMAIN written'[i] \subseteq readers'
                OBVIOUS
            <4>1. i \in 1..w BY <1>3
            <4>2. frames[i] = index.frames[i] /\ DOMAIN written[i] \subseteq readers
                BY <1>2, <2>1 DEF OpenedWell
            <4> QED BY <1>1, <4>1, <4>2
        <3>6. ASSUME NEW i \in 1..v, index'.frames[i].at <= fileLen' PROVE i <= c
            <4>1. CASE i \in 1..w
                <5>1. index.frames[i].at <= fileLen BY <1>1, <3>6, <4>1
                <5> QED BY <1>2, <2>1, <4>1, <5>1 DEF OpenedWell
            <4>2. CASE i \in (w + 1)..v
                <5>1. fileLen \in Nat /\ disk \in 0..n BY DEF Types
                <5>2. index'.frames[i].at \in Nat /\ index'.frames[i].at > n BY <4>2
                <5>3. PICK p : p = index'.frames[i].at OBVIOUS
                <5>4. p \in Nat /\ p > n /\ p <= fileLen BY <1>1, <3>6, <5>2, <5>3
                <5>5. FALSE BY ONLY <1>3, <3>1, <5>1, <5>4
                <5> QED BY <5>5
            <4> QED BY <1>3, <4>1, <4>2
        <3>7. ASSUME l > c
              PROVE  frames'[l].key = stream'[frames'[l].at].key /\ c = v
            <4>1. frames[l].key = stream[frames[l].at].key /\ c = w
                BY <1>2, <2>1, <3>7 DEF OpenedWell
            <4>2. l \in 1..l /\ Torn(l) BY <1>3, <3>7
            <4>3. PICK p : p = frames[l].at OBVIOUS
            <4>4. p \in 1..fileLen BY <1>3, <2>1, <4>2, <4>3 DEF OpenedWell
            <4>5. fileLen \in Nat /\ disk \in 0..n BY DEF Types
            <4>6. p \in 1..n BY <3>1, <4>4, <4>5, <1>3
            <4>7. IsTorn(p) BY <4>2, <4>3 DEF Torn, IsTorn
            <4>8. rec # "open" BY <4>6, <4>7 DEF EndsOnce
            <4> QED BY <1>1, <1>4, <4>1, <4>2, <4>8
        <3>8. open' = "ok" /\ Len(frames') = l /\ Len(written') = v BY <1>1, <1>2, <2>1
        <3> QED BY ONLY <1>6, <3>2, <3>3, <3>4, <3>5, <3>6, <3>7, <3>8 DEF OpenedWell
    <2>2. CASE open # "ok" BY <1>1, <2>2 DEF OpenedWell
    <2> QED BY <2>1, <2>2
<1>8. ReadWell'
    <2>1. decoded' \in 0..KeyEvery BY <1>1 DEF ReadWell
    <2>2. ASSUME cache # None
          PROVE  The(cache).at \in 1..c /\ The(cache).snap = written'[The(cache).at]
        <3>1. PICK i : i = The(cache).at OBVIOUS
        <3>2. i \in 1..c /\ The(cache).snap = written[i] BY <1>2, <2>2, <3>1 DEF ReadWell
        <3>3. i \in 1..w BY <1>3, <3>2
        <3> QED BY <3>1, <3>2, <3>3
    <2>3. ASSUME result # None
          PROVE  /\ The(result).at \in DOMAIN frames
                 /\ The(result).snap = IF Torn(The(result).at)' THEN None
                                       ELSE Some(written'[The(result).at])
        <3>1. PICK i : i = The(result).at OBVIOUS
        <3>2. /\ i \in 1..l
              /\ The(result).snap = IF Torn(i) THEN None ELSE Some(written[i])
            BY <1>3, <2>3, <3>1 DEF ReadWell, ReadsWhatWasWritten
        <3>3. Torn(i)' = Torn(i) BY <1>5, <3>2
        <3>4. ~Torn(i) => i \in 1..w BY <1>3, <3>2
        <3>5. ~Torn(i) => written'[i] = written[i] BY <3>4
        <3>6. Torn(The(result).at)' <=> stream'[frames'[i].at].kind = "torn frame"
            BY <1>1, <3>1 DEF Torn
        <3>7. Torn(i)' <=> stream'[frames'[i].at].kind = "torn frame" BY DEF Torn
        <3> QED BY <1>3, <3>1, <3>2, <3>3, <3>5, <3>6, <3>7
    <2> QED BY <1>1, <1>6, <2>1, <2>2, <2>3 DEF ReadWell, ReadsWhatWasWritten, Torn
<1> QED BY <1>7, <1>8

\* What the recorder's steps keep.
LEMMA WriteKeepsRecorder ==
    ASSUME Types, RecorderInv, OpenedWell, ReadWell, NEW snap \in Snapshots, Write(snap)
    PROVE  Types' /\ RecorderInv' /\ OpenedWell' /\ ReadWell'
<1>0. PICK n, w, k, at :
          n = Len(stream) /\ w = Len(written) /\ k = Len(NewTables(snap)) /\ at = n + k + 1
    OBVIOUS
<1> DEFINE tables == NewTables(snap)
           base == IF IsKey THEN None ELSE prev
           frame == Frame(IsKey, Encode(snap, base))
           e == Entry(at, IsKey)
<1> USE DEF RecorderInv
<1>1. /\ n \in Nat /\ w \in Nat /\ k \in {0, 1} /\ at \in Nat /\ n < at /\ at = n + k + 1
      /\ n = Len(stream) /\ w = Len(written) /\ k = Len(tables)
    <2>1. n \in Nat /\ w \in Nat BY <1>0, Lengths
    <2>2. k \in {0, 1} BY <1>0, NewTablesAre
    <2> QED BY <1>0, <2>1, <2>2
<1>2. /\ stream' = stream \o tables \o <<frame>>
      /\ index' = [TablesNoted(k) EXCEPT !.frames = Append(@, e)]
      /\ known' = known \cup DOMAIN snap /\ prev' = Some(snap)
      /\ sinceKey' = IF IsKey THEN 1 ELSE sinceKey + 1
      /\ written' = Append(written, snap)
      /\ rec = "open" /\ rec' = "open" /\ disk' = disk
      /\ UNCHANGED recording
    BY <1>0 DEF Write
<1>3. base = None \/ The(base) \in Snapshots
    <2>1. prev = IF written = << >> THEN None ELSE Some(written[w]) BY <1>1 DEF Types
    <2>2. written # << >> => written[w] \in Snapshots BY <1>1, Lengths, EmptySeq DEF Types
    <2> QED BY <2>1, <2>2 DEF Some, The
<1>4. frame \in Records
    <2>1. Encode(snap, base) \in ProcessRows BY <1>3, EncodeIsRows
    <2> QED BY <2>1 DEF Frame, Records
<1>5. frame = [kind |-> IF IsKey THEN "key" ELSE "delta", rows |-> Encode(snap, base)]
    BY DEF Frame
<1>6. e \in Entries /\ e.at = at /\ e.key = IsKey
    BY <1>1 DEF Entry, Entries, IsKey
<1> HIDE DEF frame, e, base, tables
<1>7. /\ stream' \in Seq(Records) /\ Len(stream') = at
      /\ \A p \in 1..n : stream'[p] = stream[p]
      /\ \A p \in (n + 1)..at : p = at \/ (k = 1 /\ p = n + 1)
      /\ k = 1 => stream'[n + 1] = Table(DOMAIN snap \ known)
      /\ stream'[at] = frame
    <2>1. stream \in Seq(Records) /\ tables \in Seq(Records) /\ <<frame>> \in Seq(Records)
        <3>1. stream \in Seq(Records) BY DEF Types
        <3>2. tables \in Seq(Records) BY NewTablesAre DEF tables
        <3>3. <<frame>> \in Seq(Records) BY <1>4
        <3> QED BY <3>1, <3>2, <3>3
    <2>2. Len(<<frame>>) = 1 /\ <<frame>>[1] = frame OBVIOUS
    <2>3. PICK both : both = stream \o tables OBVIOUS
    <2>4. /\ both \in Seq(Records) /\ Len(both) = n + k
          /\ \A p \in 1..n : both[p] = stream[p]
          /\ \A p \in 1..k : both[n + p] = tables[p]
        BY <1>1, <2>1, <2>3, Longer
    <2>5. PICK f : f = <<frame>> OBVIOUS
    <2>6. /\ both \o f \in Seq(Records) /\ Len(both \o f) = n + k + 1
          /\ \A p \in 1..(n + k) : (both \o f)[p] = both[p]
          /\ \A p \in 1..1 : (both \o f)[n + k + p] = f[p]
        BY <2>1, <2>2, <2>4, <2>5, Longer
    <2>7. stream' = both \o f BY <1>2, <2>3, <2>5
    <2>8. stream'[at] = frame BY <1>1, <2>2, <2>5, <2>6, <2>7
    <2>9. \A p \in 1..n : stream'[p] = stream[p] BY <1>1, <2>4, <2>6, <2>7
    <2>10. k = 1 => stream'[n + 1] = Table(DOMAIN snap \ known)
        <3> SUFFICES ASSUME k = 1 PROVE stream'[n + 1] = Table(DOMAIN snap \ known) OBVIOUS
        <3>1. tables[1] = Table(DOMAIN snap \ known) BY <1>1, NewTablesAre DEF tables
        <3>2. both[n + 1] = tables[1] BY <2>4
        <3>3. n + 1 \in 1..(n + k) BY <1>1
        <3>4. stream'[n + 1] = both[n + 1] BY <2>6, <2>7, <3>3
        <3> QED BY <3>1, <3>2, <3>4
    <2>11. \A p \in (n + 1)..at : p = at \/ (k = 1 /\ p = n + 1)
        <3>1. CASE k = 0 BY <1>1, <3>1
        <3>2. CASE k = 1 BY <1>1, <3>2
        <3> QED BY <1>1, <3>1, <3>2
    <2> QED BY <1>1, <2>6, <2>7, <2>8, <2>9, <2>10, <2>11
<1>8. /\ index' \in Indexes
      /\ Len(index'.frames) = w + 1
      /\ \A i \in 1..w : index'.frames[i] = index.frames[i]
      /\ index'.frames[w + 1] = e
      /\ \A i \in DOMAIN index.tables :
            i \in DOMAIN index'.tables /\ index'.tables[i] = index.tables[i]
      /\ k = 1 => \E i \in DOMAIN index'.tables : index'.tables[i] = n + 1
    <2>1. PICK noted : noted = TablesNoted(k) OBVIOUS
    <2>2. /\ noted \in Indexes /\ noted.frames = index.frames
          /\ \A i \in DOMAIN index.tables :
                i \in DOMAIN noted.tables /\ noted.tables[i] = index.tables[i]
          /\ k = 1 => \E i \in DOMAIN noted.tables : noted.tables[i] = n + 1
        BY <1>1, <2>1, TablesAreNoted DEF Types
    <2>3. index.frames \in Seq(Entries) /\ Len(index.frames) = w
        BY <1>1, Lengths DEF FramesAreIndexed
    <2>4. PICK longer : longer = Append(index.frames, e) OBVIOUS
    <2>5. /\ longer \in Seq(Entries) /\ Len(longer) = w + 1
          /\ \A i \in 1..w : longer[i] = index.frames[i]
          /\ longer[w + 1] = e
        BY <1>6, <2>3, <2>4, AppendProperties
    <2>6. index' = [noted EXCEPT !.frames = longer] BY <1>2, <2>1, <2>2, <2>4
    <2>7. index' = [frames |-> longer, tables |-> noted.tables] BY <2>2, <2>6 DEF Indexes
    <2>8. noted.tables \in Seq(Positions) BY <2>2 DEF Indexes
    <2>9. index' \in Indexes BY <2>5, <2>7, <2>8 DEF Indexes
    <2>10. index'.frames = longer /\ index'.tables = noted.tables BY <2>7
    <2> QED BY <2>2, <2>5, <2>9, <2>10
<1>9. /\ written' \in Seq(Snapshots) /\ Len(written') = w + 1
      /\ \A i \in 1..w : written'[i] = written[i]
      /\ written'[w + 1] = snap
    BY <1>1, <1>2, AppendProperties DEF Types
<1>10. Types'
    <2>1. prev' = IF written' = << >> THEN None ELSE Some(written'[Len(written')])
        BY <1>1, <1>2, <1>9
    <2>2. known' \subseteq Processes BY <1>2, NewTablesAre DEF Types
    <2>3. disk' \in 0..Len(stream') BY <1>1, <1>2, <1>7 DEF Types
    <2>4. /\ open' \in {"closed", "ok", "error"} /\ hadIndex' \in BOOLEAN
          /\ frames' \in Seq(Entries) /\ fileLen' \in Nat /\ readers' \subseteq Processes
        BY <1>2 DEF Types, recording
    <2>5. rec' \in {"open", "failed", "finished", "dead"} BY <1>2
    <2>6. stream' \in Seq(Records) /\ index' \in Indexes /\ written' \in Seq(Snapshots)
        BY <1>7, <1>8, <1>9
    <2> QED BY ONLY <2>1, <2>2, <2>3, <2>4, <2>5, <2>6 DEF Types
<1>11. FramesAreIndexed'
    <2>1. Len(index'.frames) = Len(written') BY <1>8, <1>9
    <2>2. ASSUME NEW i \in 1..(w + 1)
          PROVE  IsWritten(i, index'.frames[i], stream', written')
        <3>1. CASE i \in 1..w
            <4>1. index'.frames[i] = index.frames[i] BY <1>8, <3>1
            <4>2. PICK f : f = index.frames[i] OBVIOUS
            <4>3. IsWritten(i, f, stream, written) BY <1>1, <3>1, <4>2 DEF FramesAreIndexed
            <4>4. f.at \in 1..n /\ stream'[f.at] = stream[f.at] BY <1>1, <1>7, <4>3 DEF IsWritten
            <4>5. written'[i] = written[i] BY <1>9, <3>1
            <4>6. ~f.key => written'[i - 1] = written[i - 1]
                <5>1. CASE i = 1
                    <6>1. PICK j \in 1..i : index.frames[j].key BY <1>1, <3>1 DEF KeysAreNear
                    <6>2. j = 1 BY <5>1, <6>1
                    <6> QED BY <4>2, <5>1, <6>1, <6>2
                <5>2. CASE i # 1
                    <6>1. i - 1 \in 1..w BY <1>1, <3>1, <5>2
                    <6> QED BY <1>9, <6>1
                <5> QED BY <5>1, <5>2
            <4>7. f.at \in 1..Len(stream') BY <1>1, <1>7, <4>4
            <4>8. CASE f.key BY <4>1, <4>2, <4>3, <4>4, <4>5, <4>7, <4>8 DEF IsWritten
            <4>9. CASE ~f.key BY <4>1, <4>2, <4>3, <4>4, <4>5, <4>6, <4>7, <4>9 DEF IsWritten
            <4> QED BY <4>8, <4>9
        <3>2. CASE i = w + 1
            <4>1. index'.frames[i] = e /\ written'[i] = snap BY <1>8, <1>9, <3>2
            <4>2. at \in 1..Len(stream') BY <1>1, <1>7
            <4>3. base = IF IsKey THEN None ELSE Some(written'[i - 1])
                <5>1. CASE IsKey BY <5>1 DEF base
                <5>2. CASE ~IsKey
                    <6>1. prev = Some(written[w]) /\ w \in 1..w
                        BY <1>1, <5>2, EmptySeq DEF Types, IsKey
                    <6>2. written'[i - 1] = written[w] BY <1>1, <1>9, <3>2, <6>1
                    <6> QED BY <5>2, <6>1, <6>2 DEF base
                <5> QED BY <5>1, <5>2
            <4>4. frame = Frame(IsKey, Encode(snap, base)) BY DEF frame
            <4> QED BY <1>6, <1>7, <4>1, <4>2, <4>3, <4>4 DEF IsWritten
        <3>3. i \in 1..w \/ i = w + 1 BY <1>1
        <3> QED BY <3>1, <3>2, <3>3
    <2>3. ASSUME NEW i \in 1..(w + 1), NEW j \in 1..(w + 1), i < j
          PROVE  index'.frames[i].at < index'.frames[j].at
        <3>1. i \in 1..w BY <1>1, <2>3
        <3>2. CASE j \in 1..w
            <4>1. index.frames[i].at < index.frames[j].at BY <1>1, <2>3, <3>1, <3>2 DEF FramesAreIndexed
            <4> QED BY <1>8, <3>1, <3>2, <4>1
        <3>3. CASE j = w + 1
            <4>1. index.frames[i].at \in 1..n BY <1>1, <3>1, Lengths
            <4>2. index.frames[i].at < at BY <1>1, <4>1
            <4> QED BY <1>6, <1>8, <3>1, <3>3, <4>2
        <3> QED BY <1>1, <3>2, <3>3
    <2>4. ASSUME NEW p \in 1..at, stream'[p].kind \in {"key", "delta"}
          PROVE  \E i \in 1..(w + 1) : index'.frames[i].at = p
        <3>1. CASE p \in 1..n
            <4>1. IsFrame(p) BY <1>7, <2>4, <3>1 DEF IsFrame
            <4>2. PICK i \in 1..w : index.frames[i].at = p BY <1>1, <3>1, <4>1 DEF FramesAreIndexed
            <4>3. i \in 1..(w + 1) BY <1>1
            <4> QED BY <1>8, <4>2, <4>3
        <3>2. CASE p = at
            <4>1. w + 1 \in 1..(w + 1) BY <1>1
            <4> QED BY <1>6, <1>8, <3>2, <4>1
        <3>3. CASE k = 1 /\ p = n + 1 /\ p # at
            <4>1. stream'[p].kind = "table" BY <1>7, <3>3 DEF Table
            <4> QED BY <2>4, <4>1
        <3>4. p \in 1..n \/ p \in (n + 1)..at BY <1>1
        <3> QED BY <1>7, <3>1, <3>2, <3>3, <3>4
    <2>5. \A i \in 1..Len(written') : IsWritten(i, index'.frames[i], stream', written')
        BY <1>9, <2>2
    <2>6. \A i, j \in 1..Len(written') : i < j => index'.frames[i].at < index'.frames[j].at
        BY <1>9, <2>3
    <2>7. \A p \in 1..Len(stream') : stream'[p].kind \in {"key", "delta"} =>
                \E i \in 1..Len(written') : index'.frames[i].at = p
        BY <1>7, <1>9, <2>4
    <2> QED BY ONLY <2>1, <2>5, <2>6, <2>7 DEF FramesAreIndexed, IsFrame
<1>12. KeysAreNear'
    <2>1. index'.frames[(w + 1) - sinceKey' + 1].key /\ sinceKey' \in 1..KeyEvery /\ sinceKey' <= w + 1
        <3>1. CASE IsKey
            <4>1. sinceKey' = 1 /\ (w + 1) - sinceKey' + 1 = w + 1 BY <1>1, <1>2, <3>1
            <4>2. e.key BY <1>6, <3>1
            <4>3. index'.frames[(w + 1) - sinceKey' + 1] = e BY <1>8, <4>1
            <4>4. 1 \in 1..KeyEvery /\ 1 <= w + 1 BY <1>1, KeyEveryAssumption
            <4> QED BY <4>1, <4>2, <4>3, <4>4
        <3>2. CASE ~IsKey
            <4>1. written # << >> /\ sinceKey < KeyEvery BY <3>2, KeyEveryAssumption DEF IsKey, Types, KeysAreNear
            <4>2. sinceKey \in 1..KeyEvery /\ sinceKey <= w /\ index.frames[w - sinceKey + 1].key
                BY <1>1, <4>1 DEF KeysAreNear
            <4>3. sinceKey' = sinceKey + 1 BY <1>2, <3>2
            <4>4. (w + 1) - sinceKey' + 1 = w - sinceKey + 1 /\ w - sinceKey + 1 \in 1..w
                BY <1>1, <4>2, <4>3, KeyEveryAssumption
            <4>5. sinceKey' \in 1..KeyEvery /\ sinceKey' <= w + 1
                BY <1>1, <4>1, <4>2, <4>3, KeyEveryAssumption
            <4> QED BY <1>8, <4>2, <4>4, <4>5
        <3> QED BY <3>1, <3>2
    <2>2. ASSUME NEW i \in 1..(w + 1)
          PROVE  \E j \in 1..i : index'.frames[j].key /\ i - j < KeyEvery
        <3>1. CASE i \in 1..w
            <4>1. PICK j \in 1..i : index.frames[j].key /\ i - j < KeyEvery BY <1>1, <3>1 DEF KeysAreNear
            <4>2. j \in 1..w BY <1>1, <3>1
            <4> QED BY <1>8, <4>1, <4>2
        <3>2. CASE i = w + 1
            <4> DEFINE j == (w + 1) - sinceKey' + 1
            <4>1. j \in 1..i /\ i - j < KeyEvery BY <1>1, <2>1, <3>2, KeyEveryAssumption
            <4> QED BY <2>1, <4>1
        <3>3. i \in 1..w \/ i = w + 1 BY <1>1
        <3> QED BY <3>1, <3>2, <3>3
    <2>3. written' # << >> BY <1>1, <1>9, EmptySeq
    <2>4. /\ sinceKey' \in 1..KeyEvery /\ sinceKey' <= Len(written')
          /\ index'.frames[Len(written') - sinceKey' + 1].key
        BY <1>9, <2>1
    <2>5. \A i \in 1..Len(written') : \E j \in 1..i : index'.frames[j].key /\ i - j < KeyEvery
        BY <1>9, <2>2
    <2> QED BY ONLY <2>3, <2>4, <2>5 DEF KeysAreNear
<1>13. \A p \in 1..(n + 1) : \A x : x \in TablesBefore(stream, p) => x \in TablesBefore(stream', p)
    <2> SUFFICES ASSUME NEW p \in 1..(n + 1), NEW x, x \in TablesBefore(stream, p)
                 PROVE  x \in TablesBefore(stream', p)
        OBVIOUS
    <2>1. PICK t \in 1..(p - 1) : stream[t].kind = "table" /\ x \in stream[t].defs
        BY DEF TablesBefore
    <2>2. t \in 1..n BY <1>1
    <2>3. stream'[t] = stream[t] BY <1>7, <2>2
    <2> QED BY <2>1, <2>3 DEF TablesBefore
<1>14. known' \subseteq TablesBefore(stream', at)
    <2> SUFFICES ASSUME NEW x \in known' PROVE x \in TablesBefore(stream', at) OBVIOUS
    <2>1. CASE x \in known
        <3>1. n + 1 \in 1..(n + 1) BY <1>1
        <3>2. x \in TablesBefore(stream, n + 1) BY <1>1, <1>2, <2>1 DEF TablesComeBefore
        <3>3. x \in TablesBefore(stream', n + 1) BY <1>13, <3>1, <3>2
        <3>4. PICK t \in 1..(n + 1 - 1) : stream'[t].kind = "table" /\ x \in stream'[t].defs
            BY <1>1, <3>3 DEF TablesBefore
        <3>5. t \in 1..(at - 1) BY <1>1
        <3> QED BY <3>4, <3>5 DEF TablesBefore
    <2>2. CASE x \notin known
        <3>1. x \in DOMAIN snap BY <1>2, <2>2
        <3>2. k = 1 BY <1>1, <2>2, <3>1, NewTablesAre DEF tables
        <3>3. stream'[n + 1].kind = "table" /\ x \in stream'[n + 1].defs
            BY <1>7, <2>2, <3>1, <3>2 DEF Table
        <3>4. n + 1 \in 1..(at - 1) BY <1>1, <3>2
        <3> QED BY <3>3, <3>4 DEF TablesBefore
    <2> QED BY <2>1, <2>2
<1>15. TablesComeBefore'
    <2>1. ASSUME NEW i \in 1..(w + 1)
          PROVE  DOMAIN written'[i] \subseteq TablesBefore(stream', index'.frames[i].at)
        <3>1. CASE i \in 1..w
            <4>1. DOMAIN written[i] \subseteq TablesBefore(stream, index.frames[i].at)
                BY <1>1, <3>1 DEF TablesComeBefore
            <4>2. PICK p : p = index.frames[i].at OBVIOUS
            <4>3. p \in 1..(n + 1) BY <1>1, <3>1, <4>2, Lengths
            <4>4. index'.frames[i].at = p /\ written'[i] = written[i] BY <1>8, <1>9, <3>1, <4>2
            <4> QED BY <1>13, <4>1, <4>2, <4>3, <4>4
        <3>2. CASE i = w + 1
            <4>1. index'.frames[i].at = at /\ written'[i] = snap BY <1>6, <1>8, <1>9, <3>2
            <4>2. DOMAIN snap \subseteq known' BY <1>2
            <4> QED BY <1>14, <4>1, <4>2
        <3>3. i \in 1..w \/ i = w + 1 BY <1>1
        <3> QED BY <3>1, <3>2, <3>3
    <2>2. known' \subseteq TablesBefore(stream', at + 1)
        <3> SUFFICES ASSUME NEW x \in known' PROVE x \in TablesBefore(stream', at + 1) OBVIOUS
        <3>1. PICK t \in 1..(at - 1) : stream'[t].kind = "table" /\ x \in stream'[t].defs
            BY <1>14 DEF TablesBefore
        <3>2. t \in 1..(at + 1 - 1) BY <1>1
        <3> QED BY <1>1, <3>1, <3>2 DEF TablesBefore
    <2>3. ASSUME NEW t \in 1..at, stream'[t].kind = "table"
          PROVE  \E i \in DOMAIN index'.tables : index'.tables[i] = t
        <3>1. CASE t \in 1..n
            <4>1. stream[t].kind = "table" BY <1>7, <2>3, <3>1
            <4>2. PICK i \in DOMAIN index.tables : index.tables[i] = t
                BY <1>1, <3>1, <4>1 DEF TablesComeBefore
            <4> QED BY <1>8, <4>2
        <3>2. CASE t = at
            <4>1. stream'[t].kind \in {"key", "delta"} BY <1>5, <1>7, <3>2
            <4> QED BY <2>3, <4>1
        <3>3. CASE k = 1 /\ t = n + 1 BY <1>8, <3>3
        <3>4. t \in 1..n \/ t \in (n + 1)..at BY <1>1
        <3> QED BY <1>7, <3>1, <3>2, <3>3, <3>4
    <2>4. \A i \in 1..Len(written') : DOMAIN written'[i] \subseteq TablesBefore(stream', index'.frames[i].at)
        BY <1>9, <2>1
    <2>5. TablesBefore(stream', Len(stream') + 1) = TablesBefore(stream', at + 1) BY <1>7
    <2>6. \A t \in 1..Len(stream') : stream'[t].kind = "table" =>
                \E i \in DOMAIN index'.tables : index'.tables[i] = t
        BY <1>7, <2>3
    <2> QED BY ONLY <2>2, <2>4, <2>5, <2>6 DEF TablesComeBefore
<1>16. EndsOnce'
    <2> SUFFICES ASSUME NEW p \in 1..at PROVE stream'[p].kind \in {"key", "delta", "table"}
        BY <1>7 DEF EndsOnce, IsTorn
    <2>1. CASE p \in 1..n
        <3>1. stream[p].kind \notin {"index", "torn index", "torn table", "torn frame"}
            BY <1>1, <1>2, <2>1 DEF EndsOnce, IsTorn
        <3>2. stream[p] \in Records BY <1>1, <2>1 DEF Types
        <3>3. stream[p].kind \in {"key", "delta", "table"} BY <3>1, <3>2 DEF Records
        <3> QED BY <1>7, <2>1, <3>3
    <2>2. CASE p = at BY <1>5, <1>7, <2>2
    <2>3. CASE k = 1 /\ p = n + 1 BY <1>7, <2>3 DEF Table
    <2>4. p \in 1..n \/ p \in (n + 1)..at BY <1>1
    <2> QED BY <1>7, <2>1, <2>2, <2>3, <2>4
<1>17. OpenedWell' /\ ReadWell'
    <2>1. disk' \in Nat /\ disk <= disk' BY <1>2 DEF Types
    <2>2. \A i \in (w + 1)..(w + 1) : index'.frames[i].at \in Nat /\ index'.frames[i].at > n
        <3>1. \A i \in (w + 1)..(w + 1) : i = w + 1 BY <1>1
        <3> QED BY <1>1, <1>6, <1>8, <3>1
    <2>3. w + 1 = Len(written') /\ w + 1 \in Nat /\ w <= w + 1 BY <1>1, <1>9
    <2>4. n = Len(stream) /\ w = Len(written) /\ UNCHANGED recording /\ rec = "open" BY <1>1, <1>2
    <2> QED BY <1>7, <1>8, <1>9, <2>1, <2>2, <2>3, <2>4, ReadingStays
<1> QED BY <1>10, <1>11, <1>12, <1>15, <1>16, <1>17

\* A step that writes no frame and leaves the recorder unable to write another.
LEMMA RecorderEnds ==
    ASSUME Types, RecorderInv, UNCHANGED <<written, prev, sinceKey>>, rec' # "open",
           NEW n, NEW m, n = Len(stream), m = Len(stream'), m \in Nat, n <= m,
           \A p \in 1..n : stream'[p] = stream[p],
           \A p \in (n + 1)..m : stream'[p].kind \notin {"key", "delta"},
           index'.frames = index.frames,
           \A i \in DOMAIN index.tables :
                i \in DOMAIN index'.tables /\ index'.tables[i] = index.tables[i],
           \A p \in (n + 1)..m : stream'[p].kind = "table" =>
                \E i \in DOMAIN index'.tables : index'.tables[i] = p
    PROVE  FramesAreIndexed' /\ KeysAreNear' /\ TablesComeBefore'
<1> USE DEF RecorderInv
<1>1. PICK w : w = Len(written) OBVIOUS
<1>2. n \in Nat /\ w \in Nat /\ written' = written /\ \A i \in 1..w : index.frames[i].at \in 1..n
    BY <1>1, Lengths
<1>3. FramesAreIndexed'
    <2>1. Len(index'.frames) = Len(written') BY <1>2 DEF FramesAreIndexed
    <2>2. ASSUME NEW i \in 1..w PROVE IsWritten(i, index'.frames[i], stream', written')
        <3>1. IsWritten(i, index.frames[i], stream, written) BY <1>1 DEF FramesAreIndexed
        <3>2. PICK f : f = index.frames[i] OBVIOUS
        <3>3. f.at \in 1..n /\ stream'[f.at] = stream[f.at] /\ f.at \in 1..m BY <1>2, <3>2
        <3> QED BY <1>2, <3>1, <3>2, <3>3 DEF IsWritten
    <2>3. \A i \in 1..Len(written') : IsWritten(i, index'.frames[i], stream', written')
        BY <1>1, <1>2, <2>2
    <2>4. \A i, j \in 1..Len(written') : i < j => index'.frames[i].at < index'.frames[j].at
        BY <1>2 DEF FramesAreIndexed
    <2>5. ASSUME NEW p \in 1..m, stream'[p].kind \in {"key", "delta"}
          PROVE  \E i \in 1..w : index'.frames[i].at = p
        <3>1. p \in 1..n
            <4>1. p \notin (n + 1)..m BY <2>5
            <4> QED BY <1>2, <4>1
        <3>2. IsFrame(p) BY <2>5, <3>1 DEF IsFrame
        <3> QED BY <1>1, <3>1, <3>2 DEF FramesAreIndexed
    <2>6. \A p \in 1..Len(stream') : stream'[p].kind \in {"key", "delta"} =>
                \E i \in 1..Len(written') : index'.frames[i].at = p
        BY <1>1, <1>2, <2>5
    <2> QED BY ONLY <2>1, <2>3, <2>4, <2>6 DEF FramesAreIndexed, IsFrame
<1>4. KeysAreNear' BY DEF KeysAreNear
<1>5. TablesComeBefore'
    <2>1. ASSUME NEW i \in 1..w, NEW x \in DOMAIN written[i]
          PROVE  x \in TablesBefore(stream', index'.frames[i].at)
        <3>1. x \in TablesBefore(stream, index.frames[i].at) BY <1>1, <2>1 DEF TablesComeBefore
        <3>2. PICK p : p = index.frames[i].at OBVIOUS
        <3>3. PICK t \in 1..(p - 1) : stream[t].kind = "table" /\ x \in stream[t].defs
            BY <3>1, <3>2 DEF TablesBefore
        <3>4. t \in 1..n /\ stream'[t] = stream[t] BY <1>2, <3>2, <3>3
        <3> QED BY <3>2, <3>3, <3>4 DEF TablesBefore
    <2>2. \A i \in 1..Len(written') : DOMAIN written'[i] \subseteq TablesBefore(stream', index'.frames[i].at)
        BY <1>1, <1>2, <2>1
    <2>3. ASSUME NEW t \in 1..m, stream'[t].kind = "table"
          PROVE  \E i \in DOMAIN index'.tables : index'.tables[i] = t
        <3>1. CASE t \in 1..n
            <4>1. PICK i \in DOMAIN index.tables : index.tables[i] = t
                BY <2>3, <3>1 DEF TablesComeBefore
            <4> QED BY <4>1
        <3>2. CASE t \in (n + 1)..m BY <2>3, <3>2
        <3> QED BY <1>2, <3>1, <3>2
    <2>4. \A t \in 1..Len(stream') : stream'[t].kind = "table" =>
                \E i \in DOMAIN index'.tables : index'.tables[i] = t
        BY <2>3
    <2>5. rec' # "open" OBVIOUS
    <2> QED BY ONLY <2>2, <2>4, <2>5 DEF TablesComeBefore
<1> QED BY <1>3, <1>4, <1>5

\* Finishing leaves what was written in order.
LEMMA FinishKeepsRecorder ==
    ASSUME Types, RecorderInv, OpenedWell, ReadWell, Finish \/ FinishFails
    PROVE  Types' /\ RecorderInv' /\ OpenedWell' /\ ReadWell'
<1> USE DEF RecorderInv
<1>1. PICK n, m, last :
          /\ n = Len(stream) /\ m = n + 1
          /\ last = IF Finish THEN IndexRecord(index) ELSE TornIndex
    OBVIOUS
<1>2. /\ stream' = Append(stream, last) /\ rec \in {"open", "failed"} /\ rec' = "finished"
      /\ UNCHANGED <<prev, sinceKey, known, index, written, recording>>
    BY <1>1 DEF Finish, FinishFails
<1>3. last \in Records
    <2>1. IndexRecord(index) \in Records BY DEF IndexRecord, Records, Types
    <2>2. TornIndex \in Records BY DEF TornIndex, Records
    <2> QED BY <1>1, <2>1, <2>2
<1>4. /\ last.kind \in {"index", "torn index"}
      /\ last.kind = "index" => last.index = index
    <2>1. CASE Finish BY <1>1, <2>1 DEF IndexRecord
    <2>2. CASE ~Finish BY <1>1, <2>2 DEF TornIndex
    <2> QED BY <2>1, <2>2
<1>5. /\ n \in Nat /\ m \in Nat /\ n <= m
      /\ stream' \in Seq(Records) /\ Len(stream') = m
      /\ \A p \in 1..n : stream'[p] = stream[p]
      /\ stream'[m] = last
    BY <1>1, <1>2, <1>3, Lengths, AppendProperties DEF Types
<1>6. \A p \in (n + 1)..m : p = m BY <1>1, <1>5
<1>7. FramesAreIndexed' /\ KeysAreNear' /\ TablesComeBefore'
    BY <1>1, <1>2, <1>4, <1>5, <1>6, RecorderEnds
<1>8. disk' \in 0..Len(stream')
    <2>1. CASE Finish BY <1>1, <1>5, <2>1 DEF Finish
    <2>2. CASE FinishFails BY <1>1, <1>5, <2>2 DEF FinishFails, Types
    <2> QED BY <2>1, <2>2
<1>9. Types' BY <1>2, <1>5, <1>8 DEF Types, recording
<1>10. EndsOnce'
    <2>1. ASSUME NEW p \in 1..n
          PROVE  /\ stream'[p].kind \notin {"index", "torn index"}
                 /\ stream'[p].kind = "torn frame" => stream'[p].key = IsKey
                 /\ stream'[p].kind \in {"torn table", "torn frame"} =>
                        \A q \in (p + 1)..n : stream'[q].kind \in {"index", "torn index"}
        <3>1. /\ stream[p].kind \notin {"index", "torn index"}
              /\ stream[p].kind = "torn frame" => stream[p].key = IsKey
              /\ stream[p].kind \in {"torn table", "torn frame"} =>
                    \A q \in (p + 1)..n : stream[q].kind \in {"index", "torn index"}
            BY <1>1, <1>2 DEF EndsOnce, IsTorn
        <3>2. \A q \in (p + 1)..n : stream'[q] = stream[q] BY <1>5
        <3> QED BY <1>5, <3>1, <3>2
    <2>2. IsKey' = IsKey BY <1>2 DEF IsKey
    <2>3. index' = index BY <1>2
    <2> SUFFICES ASSUME NEW p \in 1..m
                 PROVE  /\ stream'[p].kind \in {"index", "torn index"} => p = m
                        /\ stream'[p].kind = "index" => stream'[p].index = index
                        /\ stream'[p].kind \in {"torn table", "torn frame"} =>
                                \A q \in (p + 1)..m : stream'[q].kind \in {"index", "torn index"}
                        /\ stream'[p].kind = "torn frame" => stream'[p].key = IsKey
        BY <1>2, <1>5, <2>2, <2>3 DEF EndsOnce, IsTorn
    <2>4. CASE p \in 1..n
        <3>1. ASSUME NEW q \in (p + 1)..m PROVE q \in (p + 1)..n \/ q = m BY <1>1, <1>5
        <3> QED BY <1>4, <1>5, <2>1, <2>4, <3>1
    <2>5. CASE p = m
        <3>1. (p + 1)..m = {} BY <1>5, <2>5
        <3> QED BY <1>4, <1>5, <2>5, <3>1
    <2>6. p \in 1..n \/ p = m BY <1>1, <1>5
    <2> QED BY <2>4, <2>5, <2>6
<1>11. OpenedWell' /\ ReadWell'
    <2>1. PICK w : w = Len(written) OBVIOUS
    <2>2. w = Len(written') /\ w \in Nat /\ w <= w BY <1>2, <2>1, Lengths
    <2>3. /\ \A i \in 1..w : index'.frames[i] = index.frames[i] /\ written'[i] = written[i]
          /\ UNCHANGED recording
        BY <1>2
    <2>4. \A i \in (w + 1)..w : FALSE BY <2>2
    <2>5. disk' \in Nat /\ disk <= disk'
        <3>1. disk \in 0..n BY <1>1 DEF Types
        <3>2. CASE Finish BY <1>1, <1>5, <3>1, <3>2 DEF Finish
        <3>3. CASE FinishFails BY <1>1, <1>5, <3>1, <3>3 DEF FinishFails
        <3> QED BY <3>2, <3>3
    <2>6. n = Len(stream) BY <1>1
    <2> QED BY <1>5, <2>1, <2>2, <2>3, <2>4, <2>5, <2>6, ReadingStays
<1> QED BY <1>7, <1>9, <1>10, <1>11

\* A failed write: none or a part of what was to be written is in the stream.
LEMMA FailureKeepsRecorder ==
    ASSUME Types, RecorderInv, OpenedWell, ReadWell, NEW snap \in Snapshots, TableFails(snap) \/ FrameFails(snap)
    PROVE  Types' /\ RecorderInv' /\ OpenedWell' /\ ReadWell'
<1> USE DEF RecorderInv
<1>1. PICK n, k, torn, tables :
          /\ n = Len(stream) /\ stream' = stream \o tables \o torn
          /\ index' = TablesNoted(k) /\ k \in {0, 1}
          /\ tables \in Seq(Records) /\ Len(tables) \in {0, k}
          /\ Len(tables) = 1 => tables[1].kind = "table"
          /\ torn \in {<< >>, <<TornTable>>, <<TornFrame(IsKey)>>}
    <2>1. CASE TableFails(snap)
        <3>1. PICK torn \in {<< >>, <<TornTable>>} : stream' = stream \o torn
            BY <2>1 DEF TableFails
        <3>2. PICK none : none = << >> OBVIOUS
        <3>3. none \in Seq(Records) /\ Len(none) = 0 BY <3>2
        <3>4. stream \o none = stream BY <3>2, ConcatEmptySeq DEF Types
        <3>5. index' = TablesNoted(1) BY <2>1 DEF TableFails
        <3>6. PICK n : n = Len(stream) OBVIOUS
        <3>7. /\ n = Len(stream) /\ stream' = stream \o none \o torn
              /\ index' = TablesNoted(1) /\ 1 \in {0, 1}
              /\ none \in Seq(Records) /\ Len(none) \in {0, 1}
              /\ Len(none) = 1 => none[1].kind = "table"
              /\ torn \in {<< >>, <<TornTable>>, <<TornFrame(IsKey)>>}
            BY <3>1, <3>3, <3>4, <3>5, <3>6
        <3> QED BY <3>7
    <2>2. CASE FrameFails(snap)
        <3>1. PICK torn \in {<< >>, <<TornFrame(IsKey)>>} :
                  stream' = stream \o NewTables(snap) \o torn
            BY <2>2 DEF FrameFails
        <3>2. PICK k, tables : tables = NewTables(snap) /\ k = Len(tables) OBVIOUS
        <3>3. /\ tables \in Seq(Records) /\ k \in {0, 1}
              /\ k = 1 => tables[1].kind = "table"
            <4>1. Table(DOMAIN snap \ known).kind = "table" BY DEF Table
            <4> QED BY <3>2, <4>1, NewTablesAre
        <3>4. index' = TablesNoted(k) BY <2>2, <3>2 DEF FrameFails
        <3>5. PICK n : n = Len(stream) OBVIOUS
        <3> QED BY <3>1, <3>2, <3>3, <3>4, <3>5
    <2> QED BY <2>1, <2>2
<1>2. /\ rec = "open" /\ rec' = "failed" /\ known' = known \cup DOMAIN snap
      /\ UNCHANGED <<prev, sinceKey, written, disk, recording>>
    BY DEF TableFails, FrameFails
<1>3. /\ torn \in Seq(Records) /\ Len(torn) \in {0, 1}
      /\ Len(torn) = 1 => /\ torn[1].kind \in {"torn table", "torn frame"}
                          /\ torn[1].kind = "torn frame" => torn[1].key = IsKey
    <2>1. TornTable \in Records /\ TornTable.kind = "torn table" BY DEF TornTable, Records
    <2>2. /\ TornFrame(IsKey) \in Records /\ TornFrame(IsKey).kind = "torn frame"
          /\ TornFrame(IsKey).key = IsKey
        BY DEF TornFrame, Records, IsKey
    <2>3. PICK t, f : t = TornTable /\ f = TornFrame(IsKey) OBVIOUS
    <2>4. CASE torn = << >>
        <3>1. << >> \in Seq(Records) /\ Len(<< >>) = 0 OBVIOUS
        <3> QED BY <2>4, <3>1
    <2>5. CASE torn = <<t>>
        <3>1. t \in Records /\ t.kind = "torn table" BY <2>1, <2>3
        <3>2. <<t>> \in Seq(Records) /\ Len(<<t>>) = 1 /\ <<t>>[1] = t BY <3>1, One
        <3> QED BY <2>5, <3>1, <3>2
    <2>6. CASE torn = <<f>>
        <3>1. f \in Records /\ f.kind = "torn frame" /\ f.key = IsKey BY <2>2, <2>3
        <3>2. <<f>> \in Seq(Records) /\ Len(<<f>>) = 1 /\ <<f>>[1] = f BY <3>1, One
        <3> QED BY <2>6, <3>1, <3>2
    <2> QED BY <1>1, <2>3, <2>4, <2>5, <2>6
<1>4. PICK l, o : l = Len(tables) /\ o = Len(torn) OBVIOUS
<1>sum. PICK m : m = n + l + o OBVIOUS
<1>5. n \in Nat /\ l \in {0, 1} /\ o \in {0, 1} /\ m \in Nat /\ n <= m
    <2>1. n \in Nat BY <1>1, Lengths
    <2>2. l \in {0, 1} BY <1>1, <1>4
    <2>3. o \in {0, 1} BY <1>3, <1>4
    <2> QED BY ONLY <1>sum, <2>1, <2>2, <2>3
<1>6. /\ stream' \in Seq(Records) /\ Len(stream') = m
      /\ \A p \in 1..n : stream'[p] = stream[p]
      /\ l = 1 => stream'[n + 1] = tables[1]
      /\ o = 1 => stream'[m] = torn[1]
    <2>1. PICK both, all : both = stream \o tables /\ all = both \o torn OBVIOUS
    <2>2. /\ both \in Seq(Records) /\ Len(both) = n + l
          /\ \A p \in 1..n : both[p] = stream[p]
          /\ \A p \in 1..l : both[n + p] = tables[p]
        BY <1>1, <1>4, <1>5, <2>1, Longer DEF Types
    <2>3. PICK b : b = Len(both) OBVIOUS
    <2>4. b = n + l BY <2>2, <2>3
    <2>in. both \in Seq(Records) /\ torn \in Seq(Records) BY <1>3, <2>2
    <2>5. /\ both \o torn \in Seq(Records) /\ Len(both \o torn) = Len(both) + Len(torn)
          /\ \A p \in 1..Len(both) : (both \o torn)[p] = both[p]
          /\ \A p \in 1..Len(torn) : (both \o torn)[Len(both) + p] = torn[p]
        BY ONLY <2>in, Longer
    <2>6. /\ all \in Seq(Records) /\ Len(all) = b + o
          /\ \A p \in 1..b : all[p] = both[p]
          /\ \A p \in 1..o : all[b + p] = torn[p]
        BY <1>4, <2>1, <2>3, <2>5
    <2>7. stream' = all BY <1>1, <2>1
    <2>8. b + o = m /\ (\A p \in 1..n : p \in 1..b) /\ (l = 1 => n + 1 \in 1..b /\ 1 \in 1..l)
          /\ (o = 1 => b + 1 = m /\ 1 \in 1..o)
        BY ONLY <1>5, <1>sum, <2>4
    <2>9. \A p \in 1..n : stream'[p] = stream[p] BY <2>2, <2>6, <2>7, <2>8
    <2>10. l = 1 => stream'[n + 1] = tables[1] BY <2>2, <2>6, <2>7, <2>8
    <2>11. o = 1 => stream'[m] = torn[1] BY <2>6, <2>7, <2>8
    <2> QED BY <2>6, <2>7, <2>8, <2>9, <2>10, <2>11
<1>7. \A p \in (n + 1)..m : (p = m /\ o = 1) \/ (l = 1 /\ p = n + 1)
    <2>1. CASE l = 0 BY ONLY <1>sum, <1>5, <2>1
    <2>2. CASE l = 1
        <3>1. CASE o = 0 BY ONLY <1>sum, <1>5, <2>2, <3>1
        <3>2. CASE o = 1 BY ONLY <1>sum, <1>5, <2>2, <3>2
        <3> QED BY <1>5, <3>1, <3>2
    <2> QED BY <1>5, <2>1, <2>2
<1>8. /\ index' \in Indexes /\ index'.frames = index.frames
      /\ \A i \in DOMAIN index.tables :
            i \in DOMAIN index'.tables /\ index'.tables[i] = index.tables[i]
      /\ k = 1 => \E i \in DOMAIN index'.tables : index'.tables[i] = n + 1
    BY <1>1, <1>5, TablesAreNoted DEF Types
<1>9. FramesAreIndexed' /\ KeysAreNear' /\ TablesComeBefore'
    <2>1. \A p \in (n + 1)..m : stream'[p].kind \notin {"key", "delta"} 
        BY <1>1, <1>3, <1>4, <1>6, <1>7
    <2>2. ASSUME NEW p \in (n + 1)..m, stream'[p].kind = "table"
          PROVE  \E i \in DOMAIN index'.tables : index'.tables[i] = p
        <3>1. l = 1 /\ p = n + 1 BY <1>3, <1>4, <1>6, <1>7, <2>2
        <3>2. k = 1 BY <1>1, <1>4, <3>1
        <3> QED BY <1>8, <3>1, <3>2
    <2>3. UNCHANGED <<written, prev, sinceKey>> /\ rec' # "open" /\ n = Len(stream) BY <1>1, <1>2
    <2>4. m = Len(stream') /\ m \in Nat /\ n <= m /\ \A p \in 1..n : stream'[p] = stream[p]
        BY <1>5, <1>6
    <2>5. index'.frames = index.frames
          /\ \A i \in DOMAIN index.tables :
                i \in DOMAIN index'.tables /\ index'.tables[i] = index.tables[i]
        BY <1>8
    <2> QED BY ONLY Types, RecorderInv, <2>1, <2>2, <2>3, <2>4, <2>5, RecorderEnds
<1>10. Types'
    <2>1. known' \subseteq Processes BY <1>2, NewTablesAre DEF Types
    <2>2. disk' \in 0..Len(stream')
        <3>1. disk' = disk /\ disk \in 0..n BY <1>1, <1>2 DEF Types
        <3> QED BY ONLY <1>5, <1>6, <3>1
    <2>3. rec' \in {"open", "failed", "finished", "dead"} BY <1>2
    <2>4. /\ open' \in {"closed", "ok", "error"} /\ hadIndex' \in BOOLEAN
          /\ frames' \in Seq(Entries) /\ fileLen' \in Nat /\ readers' \subseteq Processes
        BY <1>2 DEF Types, recording
    <2>5. /\ stream' \in Seq(Records) /\ index' \in Indexes /\ written' \in Seq(Snapshots)
          /\ prev' = IF written' = << >> THEN None ELSE Some(written'[Len(written')])
        BY <1>2, <1>6, <1>8 DEF Types
    <2> QED BY ONLY <2>1, <2>2, <2>3, <2>4, <2>5 DEF Types
<1>11. EndsOnce'
    <2>1. ASSUME NEW p \in 1..n PROVE stream'[p].kind \notin {"index", "torn index", "torn table", "torn frame"}
        <3>1. stream[p].kind \notin {"index", "torn index", "torn table", "torn frame"}
            BY <1>1, <1>2 DEF EndsOnce, IsTorn
        <3> QED BY <1>6, <3>1
    <2>2. IsKey' = IsKey BY <1>2 DEF IsKey
    <2> SUFFICES ASSUME NEW p \in 1..m
                 PROVE  /\ stream'[p].kind \notin {"index", "torn index"}
                        /\ stream'[p].kind \in {"torn table", "torn frame"} => p = m
                        /\ stream'[p].kind = "torn frame" => stream'[p].key = IsKey
        <3>1. \A p \in 1..m : \A q \in (p + 1)..m : p # m BY ONLY <1>5
        <3> QED BY <1>2, <1>6, <2>2, <3>1 DEF EndsOnce, IsTorn
    <2>3. CASE p \in 1..n BY <2>1, <2>3
    <2>4. CASE p = m /\ o = 1 BY <1>3, <1>4, <1>6, <2>4
    <2>5. CASE l = 1 /\ p = n + 1 BY <1>1, <1>4, <1>6, <2>5
    <2>6. p \in 1..n \/ p \in (n + 1)..m BY <1>5
    <2> QED BY <1>7, <2>3, <2>4, <2>5, <2>6
<1>12. OpenedWell' /\ ReadWell'
    <2>1. PICK w : w = Len(written) OBVIOUS
    <2>2. w = Len(written') /\ w \in Nat /\ w <= w BY <1>2, <2>1, Lengths
    <2>3. /\ \A i \in 1..w : index'.frames[i] = index.frames[i] /\ written'[i] = written[i]
          /\ UNCHANGED recording
        BY <1>2, <1>8
    <2>4. \A i \in (w + 1)..w : FALSE BY <2>2
    <2>5. disk' \in Nat /\ disk <= disk' BY <1>2 DEF Types
    <2>6. n = Len(stream) /\ \A p \in 1..n : stream'[p] = stream[p] BY <1>1, <1>6
    <2> QED BY ONLY Types, RecorderInv, OpenedWell, ReadWell, <2>1, <2>2, <2>3, <2>4, <2>5, <2>6, ReadingStays
<1> QED BY <1>9, <1>10, <1>11, <1>12

\* The BufWriter is written out, or lost.
LEMMA LossKeepsRecorder ==
    ASSUME Types, RecorderInv, OpenedWell, ReadWell,
           Die \/ \E n \in 1..Len(stream) : Flush(n)
    PROVE  Types' /\ RecorderInv' /\ OpenedWell' /\ ReadWell'
<1>1. /\ UNCHANGED <<stream, prev, sinceKey, known, index, written, recording>>
      /\ rec' \in {rec, "dead"} /\ rec # "finished"
      /\ disk' \in 0..Len(stream) /\ disk <= disk'
    <2>1. disk \in 0..Len(stream) /\ Len(stream) \in Nat BY Lengths DEF Types, RecorderInv
    <2>2. CASE Die BY <2>1, <2>2 DEF Die
    <2>3. ASSUME NEW n \in 1..Len(stream), Flush(n)
          PROVE  /\ UNCHANGED <<recorder, recording>> /\ disk' = n /\ n \in (disk + 1)..Len(stream)
                 /\ rec # "finished"
        BY <2>3 DEF Flush
    <2>4. CASE \E n \in 1..Len(stream) : Flush(n)
        <3>1. PICK n \in 1..Len(stream) : Flush(n) BY <2>4
        <3>2. disk' = n /\ n \in (disk + 1)..Len(stream) BY <2>3, <3>1
        <3>3. disk' \in 0..Len(stream) /\ disk <= disk' BY <2>1, <3>2
        <3> QED BY <2>3, <3>1, <3>3 DEF recorder
    <2> QED BY <2>2, <2>4
<1>2. Types' BY <1>1 DEF Types, recording
<1>3. RecorderInv'
    <2>1. FramesAreIndexed' /\ KeysAreNear'
        BY <1>1 DEF RecorderInv, FramesAreIndexed, KeysAreNear, IsFrame
    <2>2. TablesComeBefore'
        <3>1. rec' = "open" => rec = "open" BY <1>1
        <3> QED BY <1>1, <3>1 DEF RecorderInv, TablesComeBefore
    <2>3. EndsOnce'
        <3>1. rec' = "open" => rec = "open" BY <1>1
        <3>2. IsKey' = IsKey BY <1>1 DEF IsKey
        <3> QED BY <1>1, <3>1, <3>2 DEF RecorderInv, EndsOnce, IsTorn
    <2> QED BY <2>1, <2>2, <2>3 DEF RecorderInv
<1>4. OpenedWell' /\ ReadWell'
    <2>1. PICK n, w : n = Len(stream) /\ w = Len(written) OBVIOUS
    <2>2. w = Len(written') /\ w \in Nat /\ w <= w BY <1>1, <2>1, Lengths DEF RecorderInv
    <2>3. /\ \A i \in 1..w : index'.frames[i] = index.frames[i] /\ written'[i] = written[i]
          /\ \A p \in 1..n : stream'[p] = stream[p]
          /\ UNCHANGED recording
        BY <1>1
    <2>4. \A i \in (w + 1)..w : FALSE BY <2>2
    <2>5. disk' \in Nat /\ disk <= disk' BY <1>1
    <2> QED BY <2>1, <2>2, <2>3, <2>4, <2>5, ReadingStays
<1> QED BY <1>2, <1>3, <1>4

-----------------------------------------------------------------------------
(* Opening                                                                  *)

\* A reader that has read nothing has read it well.
LEMMA NothingRead ==
    ASSUME Types, OpenedWell, ReadWell, open # "ok"
    PROVE  frames = << >> /\ cache = None /\ result = None
<1>1. frames = << >> /\ DOMAIN frames = {} BY DEF OpenedWell
<1>2. Whole = 0 BY <1>1 DEF Whole
<1>3. 1..Whole = {} BY <1>2
<1> QED BY <1>1, <1>3 DEF ReadWell

\* What the index lists are the frames that were written.
LEMMA IndexedIsOpenedWell ==
    ASSUME Types, RecorderInv, OpenedWell, ReadWell, OpenByIndex
    PROVE  Types' /\ OpenedWell' /\ ReadWell'
<1> USE DEF RecorderInv
<1>1. PICK n, w : n = Len(stream) /\ w = Len(written) OBVIOUS
<1>2. /\ n \in Nat /\ w \in Nat /\ disk \in 0..n
      /\ index.frames \in Seq(Entries) /\ DOMAIN index.frames = 1..w
    BY <1>1, Lengths DEF Types
<1>3. /\ open = "closed" /\ disk > 0 /\ stream[disk].kind = "index"
      /\ open' = "ok" /\ frames' = stream[disk].index.frames /\ fileLen' = disk
      /\ readers' = UNION {stream[at].defs : at \in IndexedTables} /\ hadIndex' = TRUE
      /\ UNCHANGED <<recorder, disk, cache, result, decoded>>
      /\ \A at \in IndexedTables : stream[at].kind = "table"
    BY DEF OpenByIndex, Plausible, TablesLoad
<1>4. disk \in 1..n BY <1>2, <1>3
<1>5. stream[disk].index = index /\ disk = n BY <1>1, <1>3, <1>4 DEF EndsOnce
<1>6. frames' = index.frames /\ UNCHANGED <<stream, index, written>>
    BY <1>3, <1>5 DEF recorder
<1>7. Len(frames') = w BY <1>1, <1>6 DEF FramesAreIndexed
<1>8. \A i \in 1..w : ~Torn(i)'
    <2> SUFFICES ASSUME NEW i \in 1..w PROVE ~Torn(i)' OBVIOUS
    <2>1. IsWritten(i, index.frames[i], stream, written) BY <1>1 DEF FramesAreIndexed
    <2>2. PICK f : f = index.frames[i] OBVIOUS
    <2>3. stream[f.at].kind \in {"key", "delta"} BY <2>1, <2>2 DEF IsWritten, Frame
    <2> QED BY <1>6, <2>2, <2>3 DEF Torn
<1>9. Whole' = w
    <2>1. CASE w = 0
        <3>1. frames' = << >> BY <1>2, <1>6, <1>7, <2>1, EmptySeq
        <3> QED BY <2>1, <3>1 DEF Whole
    <2>2. CASE w # 0
        <3>1. ~Torn(w)' BY <1>2, <1>8, <2>2
        <3>2. ~Torn(Len(frames))' BY <1>7, <3>1 DEF Torn
        <3> QED BY <1>7, <3>2 DEF Whole
    <2> QED BY <2>1, <2>2
<1>10. readers' \subseteq Processes
    <2> SUFFICES ASSUME NEW at \in IndexedTables PROVE stream[at].defs \subseteq Processes
        BY <1>3
    <2>1. stream[at].kind = "table" BY <1>3
    <2>2. PICK i \in DOMAIN index.tables : at = index.tables[i] BY <1>5 DEF IndexedTables
    <2>3. at \in 1..n
        <3>1. at \in Nat \ {0} BY <2>2 DEF Types, Indexes, Positions
        <3>2. at < n BY <1>5, <2>2 DEF OpenByIndex, Plausible
        <3> QED BY <1>2, <3>1, <3>2
    <2>4. stream[at] \in Records BY <1>1, <2>3 DEF Types
    <2> QED BY <2>1, <2>4 DEF Records
<1>11. ASSUME NEW i \in 1..w PROVE DOMAIN written[i] \subseteq readers'
    <2> SUFFICES ASSUME NEW x \in DOMAIN written[i] PROVE x \in readers' OBVIOUS
    <2>1. PICK p : p = index.frames[i].at OBVIOUS
    <2>2. p \in 1..n BY <1>1, <2>1, Lengths
    <2>3. x \in TablesBefore(stream, p) BY <1>1, <2>1 DEF TablesComeBefore
    <2>4. PICK t \in 1..(p - 1) : stream[t].kind = "table" /\ x \in stream[t].defs
        BY <2>3 DEF TablesBefore
    <2>5. t \in 1..n BY <1>2, <2>2
    <2>6. t \in IndexedTables BY <1>1, <1>5, <2>4, <2>5 DEF TablesComeBefore, IndexedTables
    <2> QED BY <1>3, <2>4, <2>6
<1>12. Types' BY <1>2, <1>3, <1>6, <1>10 DEF Types, recorder
<1>13. OpenedWell'
    <2>1. fileLen' <= disk' BY <1>2, <1>3
    <2>2. \A i \in DOMAIN frames' : frames'[i].at \in 1..fileLen'
        BY <1>1, <1>2, <1>3, <1>5, <1>6, Lengths
    <2>3. Len(written') = w BY <1>1, <1>6
    <2> QED BY <1>2, <1>3, <1>6, <1>7, <1>9, <1>11, <2>1, <2>2, <2>3 DEF OpenedWell
<1>14. ReadWell'
    <2>1. cache = None /\ result = None BY <1>3, NothingRead
    <2> QED BY <1>3, <2>1 DEF ReadWell
<1> QED BY <1>12, <1>13, <1>14

\* Where a scan stops: before it nothing is torn, and after it no frame is whole on disk.
LEMMA ScanEndIs ==
    ASSUME Types, RecorderInv
    PROVE  /\ ScanEnd \in 1..(disk + 1)
           /\ ScanEnd <= disk => IsTorn(ScanEnd) \/ stream[ScanEnd].kind = "index"
           /\ \A p \in 1..(ScanEnd - 1) : ~IsTorn(p) /\ stream[p].kind # "index"
           /\ \A i \in 1..Len(written) : index.frames[i].at <= disk => index.frames[i].at < ScanEnd
<1>1. PICK n, w, e, S :
          /\ n = Len(stream) /\ w = Len(written) /\ e = ScanEnd
          /\ S = {disk + 1} \cup {i \in 1..disk : IsTorn(i) \/ stream[i].kind = "index"}
    OBVIOUS
<1>2. n \in Nat /\ w \in Nat /\ disk \in 0..n
    BY <1>1, Lengths DEF Types, RecorderInv
<1>3. S # {} /\ S \subseteq 1..(disk + 1) BY <1>1, <1>2
<1>4. e \in S /\ \A x \in S : e <= x
    <2>1. 1 \in Int /\ disk + 1 \in Int BY <1>2
    <2>2. Min(S) \in S /\ \A x \in S : Min(S) <= x BY <1>3, <2>1, MinIsLeast
    <2> QED BY <1>1, <2>2 DEF ScanEnd
<1>5. e \in 1..(disk + 1) BY <1>3, <1>4
<1>6. e <= disk => IsTorn(e) \/ stream[e].kind = "index"
    <2>1. e <= disk => e # disk + 1 BY <1>2, <1>5
    <2> QED BY <1>1, <1>4, <2>1
<1>7. ASSUME NEW p \in 1..(e - 1) PROVE ~IsTorn(p) /\ stream[p].kind # "index"
    <2>1. p \in 1..disk /\ p < e BY <1>2, <1>5
    <2>2. p \notin S
        <3>1. p \in S => e <= p BY <1>4
        <3> QED BY <1>5, <2>1, <3>1
    <2> QED BY <1>1, <2>1, <2>2
<1>8. ASSUME NEW i \in 1..w, index.frames[i].at <= disk PROVE index.frames[i].at < e
    <2>1. PICK p : p = index.frames[i].at OBVIOUS
    <2>2. p \in 1..n BY <1>1, <2>1, Lengths DEF RecorderInv
    <2>3. IsWritten(i, index.frames[i], stream, written)
        BY <1>1 DEF RecorderInv, FramesAreIndexed
    <2>4. stream[p].kind \in {"key", "delta"} BY <2>1, <2>3 DEF IsWritten, Frame
    <2> SUFFICES ASSUME p >= e PROVE FALSE BY <1>5, <2>1, <2>2, <1>2
    <2>5. e <= disk /\ e \in 1..n BY <1>2, <1>5, <1>8, <2>1, <2>2
    <2>6. p # e BY <1>6, <2>4, <2>5 DEF IsTorn
    <2>7. p \in (e + 1)..n BY <1>5, <2>2, <2>6
    <2>8. CASE IsTorn(e)
        <3>1. stream[p].kind \in {"index", "torn index"}
            BY <1>1, <2>5, <2>7, <2>8 DEF RecorderInv, EndsOnce
        <3> QED BY <2>4, <3>1
    <2>9. CASE stream[e].kind = "index"
        <3>1. e = n BY <1>1, <2>5, <2>9 DEF RecorderInv, EndsOnce
        <3> QED BY <1>2, <2>7, <3>1
    <2> QED BY <1>6, <2>5, <2>8, <2>9
<1> QED BY <1>1, <1>5, <1>6, <1>7, <1>8

\* What a scan lists up to a position that is not torn before it: the first frames that
\* were written, as the index has them.
LEMMA ScannedAre ==
    ASSUME Types, RecorderInv, NEW e, e \in 1..(Len(stream) + 1)
    PROVE  \E n \in 0..Len(written) :
              /\ Scanned(e) \in Seq(Entries) /\ Len(Scanned(e)) = n
              /\ \A i \in 1..n : Scanned(e)[i] = index.frames[i]
              /\ \A i \in 1..Len(written) : index.frames[i].at < e <=> i <= n
<1> USE DEF RecorderInv
<1>1. PICK m, w : m = Len(stream) /\ w = Len(written) OBVIOUS
<1>2. m \in Nat /\ w \in Nat /\ e \in 1..(m + 1) BY <1>1, Lengths
<1>3. PICK at : at = [i \in 1..w |-> index.frames[i].at] OBVIOUS
<1>4. /\ \A i \in 1..w : at[i] = index.frames[i].at /\ at[i] \in 1..m
      /\ \A i, j \in 1..w : i < j => at[i] < at[j]
      /\ \A p \in 1..m : IsFrame(p) => \E i \in 1..w : at[i] = p
    <2>1. \A i \in 1..w : at[i] = index.frames[i].at BY <1>3
    <2>2. \A i \in 1..w : index.frames[i].at \in 1..m BY <1>1, Lengths
    <2>3. \A i, j \in 1..w : i < j => index.frames[i].at < index.frames[j].at
        BY <1>1 DEF FramesAreIndexed
    <2>4. \A p \in 1..m : IsFrame(p) => \E i \in 1..w : index.frames[i].at = p
        BY <1>1 DEF FramesAreIndexed
    <2> QED BY <2>1, <2>2, <2>3, <2>4
<1>5. \A i \in 1..w : /\ IsFrame(at[i]) /\ index.frames[i].key = (stream[at[i]].kind = "key")
                      /\ index.frames[i] \in Entries
    <2> SUFFICES ASSUME NEW i \in 1..w
                 PROVE  /\ IsFrame(at[i]) /\ index.frames[i].key = (stream[at[i]].kind = "key")
                        /\ index.frames[i] \in Entries
        OBVIOUS
    <2>1. IsWritten(i, index.frames[i], stream, written) BY <1>1 DEF FramesAreIndexed
    <2>2. PICK f : f = index.frames[i] OBVIOUS
    <2>3. f \in Entries /\ f.key \in BOOLEAN /\ f.at = at[i] BY <1>1, <1>4, <2>2, Lengths
    <2>4. stream[f.at].kind = IF f.key THEN "key" ELSE "delta" BY <2>1, <2>2 DEF IsWritten, Frame
    <2> QED BY <2>2, <2>3, <2>4 DEF IsFrame
<1>6. PICK n \in 0..w : \A i \in 1..w : at[i] < e <=> i <= n
    <2> DEFINE Beyond == {i \in 1..w : ~(at[i] < e)}
    <2>1. CASE Beyond = {}
        <3>1. w \in 0..w /\ \A i \in 1..w : at[i] < e /\ i <= w BY <1>2, <2>1
        <3> QED BY <3>1
    <2>2. CASE Beyond # {}
        <3>1. Beyond \subseteq Nat OBVIOUS
        <3>2. PICK b \in Beyond : \A i \in Beyond : b <= i
            <4> HIDE DEF Beyond
            <4> QED BY <2>2, <3>1, LeastNatural
        <3>3. b - 1 \in 0..w /\ b \in 1..w BY <1>2
        <3>4. ASSUME NEW i \in 1..w PROVE at[i] < e <=> i <= b - 1
            <4>1. CASE i < b
                <5>1. i \notin Beyond BY <3>2, <3>3, <4>1
                <5>2. i <= b - 1 BY <3>3, <4>1
                <5> QED BY <5>1, <5>2
            <4>2. CASE i >= b
                <5>1. ~(i <= b - 1) BY <3>3, <4>2
                <5>2. i = b \/ b < i BY <3>3, <4>2
                <5>3. i = b \/ at[b] < at[i] BY <1>4, <3>3, <5>2
                <5>4. at[b] \in 1..m /\ at[i] \in 1..m /\ ~(at[b] < e) BY <1>4, <3>3
                <5>5. ~(at[i] < e) BY <1>2, <5>3, <5>4
                <5> QED BY <5>1, <5>5
            <4> QED BY <3>3, <4>1, <4>2
        <3> QED BY <3>3, <3>4
    <2> QED BY <2>1, <2>2
<1>7. PICK first : first = FirstKey(e) OBVIOUS
<1>8. first \in 1..e /\ (n # 0 => first = at[1]) /\ (n = 0 => first = e)
    <2>1. PICK S : S = {e} \cup {i \in 1..(e - 1) : stream[i].kind = "key"} OBVIOUS
    <2>2. S # {} /\ S \subseteq 1..e BY <1>2, <2>1
    <2>3. first \in S /\ \A x \in S : first <= x
        <3>1. 1 \in Int /\ e \in Int BY <1>2
        <3>2. Min(S) \in S /\ \A x \in S : Min(S) <= x BY <2>2, <3>1, MinIsLeast
        <3> QED BY <1>7, <2>1, <3>2 DEF FirstKey
    <2>4. first \in 1..e BY <2>2, <2>3
    <2>5. ASSUME first # e PROVE \E i \in 1..n : at[i] = first
        <3>1. first \in 1..(e - 1) /\ stream[first].kind = "key" BY <2>1, <2>3, <2>5
        <3>2. first \in 1..m /\ first < e BY <1>2, <3>1
        <3>3. PICK i \in 1..w : at[i] = first BY <1>4, <3>1, <3>2 DEF IsFrame
        <3>4. i <= n BY <1>6, <3>2, <3>3
        <3>5. i \in 1..n BY <1>2, <1>6, <3>4
        <3> QED BY <3>3, <3>5
    <2>6. ASSUME n # 0 PROVE first = at[1]
        <3>1. 1 \in 1..w /\ 1 <= n BY <1>2, <1>6, <2>6
        <3>2. at[1] < e /\ at[1] \in 1..m BY <1>4, <1>6, <3>1
        <3>3. index.frames[1].key
            <4>1. PICK k \in 1..1 : index.frames[k].key BY <1>1, <3>1 DEF KeysAreNear
            <4>2. k = 1 OBVIOUS
            <4> QED BY <4>1, <4>2
        <3>4. stream[at[1]].kind = "key" BY <1>5, <3>1, <3>3
        <3>5. at[1] \in 1..(e - 1) BY <1>2, <3>2
        <3>6. at[1] \in S BY <2>1, <3>4, <3>5
        <3>7. first <= at[1] BY <2>3, <3>6
        <3>8. first # e BY <1>2, <3>2, <3>7
        <3>9. PICK i \in 1..n : at[i] = first BY <2>5, <3>8
        <3>10. i \in 1..w /\ (i = 1 \/ 1 < i) BY <1>2, <1>6
        <3>11. i = 1 \/ at[1] < at[i] BY <1>4, <3>1, <3>10
        <3> QED BY <2>4, <3>2, <3>7, <3>9, <3>11
    <2>7. ASSUME n = 0 PROVE first = e
        <3>1. \A i \in 1..n : FALSE BY <2>7
        <3> QED BY <2>5, <3>1
    <2> QED BY <2>4, <2>6, <2>7
<1>9. PICK S : S = {p \in first..(e - 1) : IsFrame(p)} OBVIOUS
<1>10. PICK f : f = [i \in 1..n |-> at[i]] OBVIOUS
<1>11. \A i \in 1..n : i \in 1..w /\ i <= n BY <1>2, <1>6
<1>12. f \in [1..n -> S]
    <2> SUFFICES ASSUME NEW i \in 1..n PROVE at[i] \in S BY <1>10
    <2>1. at[i] < e /\ at[i] \in 1..m BY <1>4, <1>6, <1>11
    <2>2. n # 0 /\ 1 \in 1..w /\ (i = 1 \/ 1 < i) BY <1>2, <1>6
    <2>3. i = 1 \/ at[1] < at[i] BY <1>4, <1>11, <2>2
    <2>4. at[1] \in 1..m BY <1>4, <2>2
    <2>5. at[i] \in first..(e - 1) BY <1>2, <1>8, <2>1, <2>2, <2>3, <2>4
    <2> QED BY <1>5, <1>9, <1>11, <2>5
<1>13. \A i, j \in 1..n : i < j => f[i] < f[j] BY <1>4, <1>10, <1>11
<1>14. ASSUME NEW x \in S PROVE \E i \in 1..n : f[i] = x
    <2>1. x \in first..(e - 1) /\ IsFrame(x) BY <1>9
    <2>2. x \in 1..m /\ x < e BY <1>2, <1>8, <2>1
    <2>3. PICK i \in 1..w : at[i] = x BY <1>4, <2>1, <2>2
    <2>4. i <= n BY <1>6, <2>2, <2>3
    <2>5. i \in 1..n BY <1>6, <2>4
    <2> QED BY <1>10, <2>3, <2>5
<1>15. InOrder(S) = f
    <2>1. S \subseteq Nat BY <1>2, <1>8, <1>9
    <2>2. n \in Nat BY <1>2, <1>6
    <2> QED BY ONLY <1>12, <1>13, <1>14, <2>1, <2>2, InOrderIsUnique
<1>16. Scanned(e) = [k \in DOMAIN f |-> Entry(f[k], stream[f[k]].kind = "key")]
    BY <1>7, <1>9, <1>15 DEF Scanned
<1>17. DOMAIN f = 1..n BY <1>10
<1>18. ASSUME NEW k \in 1..n PROVE Entry(f[k], stream[f[k]].kind = "key") = index.frames[k]
    <2>1. f[k] = at[k] BY <1>10
    <2>2. PICK g : g = index.frames[k] OBVIOUS
    <2>3. g \in Entries /\ g.at = at[k] /\ g.key = (stream[at[k]].kind = "key")
        BY <1>4, <1>5, <1>11, <2>2
    <2>4. g = [at |-> g.at, key |-> g.key] BY <2>3 DEF Entries
    <2> QED BY <2>1, <2>2, <2>3, <2>4 DEF Entry
<1>19. Scanned(e) = [k \in 1..n |-> index.frames[k]] BY <1>16, <1>17, <1>18
<1>20. \A k \in 1..n : index.frames[k] \in Entries BY <1>5, <1>11
<1>21. n \in Nat BY <1>2, <1>6
<1>22. Scanned(e) \in Seq(Entries) /\ Len(Scanned(e)) = n
      /\ \A i \in 1..n : Scanned(e)[i] = index.frames[i]
    BY <1>19, <1>20, <1>21
<1>23. \A i \in 1..w : index.frames[i].at < e <=> i <= n BY <1>4, <1>6
<1> QED BY <1>1, <1>6, <1>22, <1>23

\* What a scan lists are the frames that are whole, and at most a torn one after them.
LEMMA ScannedIsOpenedWell ==
    ASSUME Types, RecorderInv, OpenedWell, ReadWell, NEW takes \in BOOLEAN, OpenByScan(takes)
    PROVE  Types' /\ OpenedWell' /\ ReadWell'
<1> USE DEF RecorderInv
<1>1. PICK m, w, e : m = Len(stream) /\ w = Len(written) /\ e = ScanEnd OBVIOUS
<1>2. /\ m \in Nat /\ w \in Nat /\ disk \in 0..m /\ e \in 1..(m + 1) /\ e \in 1..(disk + 1)
      /\ e <= disk => IsTorn(e) \/ stream[e].kind = "index"
      /\ \A p \in 1..(e - 1) : ~IsTorn(p) /\ stream[p].kind # "index"
      /\ \A i \in 1..w : index.frames[i].at <= disk => index.frames[i].at < e
    <2>1. m \in Nat /\ w \in Nat /\ disk \in 0..m BY <1>1, Lengths DEF Types
    <2>2. e \in 1..(disk + 1) BY <1>1, ScanEndIs
    <2>3. e \in 1..(m + 1) BY <2>1, <2>2
    <2> QED BY <1>1, <2>1, <2>2, <2>3, ScanEndIs
<1>ty. m \in Nat /\ w \in Nat /\ disk \in 0..m /\ e \in 1..(m + 1) /\ e \in 1..(disk + 1)
    BY <1>2
<1>3. PICK torn : torn = IF takes THEN <<Entry(e, stream[e].key)>> ELSE << >> OBVIOUS
<1>4. /\ open = "closed" /\ open' = "ok" /\ fileLen' = disk /\ hadIndex' = FALSE
      /\ frames' = Scanned(e) \o torn /\ readers' = ScannedTables(e)
      /\ takes => MayTake("torn frame")
      /\ UNCHANGED <<recorder, disk, cache, result, decoded>>
    BY <1>1, <1>3 DEF OpenByScan
<1>5. UNCHANGED <<stream, prev, sinceKey, known, index, rec, written>> BY <1>4 DEF recorder
<1>6. PICK n \in 0..w :
          /\ Scanned(e) \in Seq(Entries) /\ Len(Scanned(e)) = n
          /\ \A i \in 1..n : Scanned(e)[i] = index.frames[i]
          /\ \A i \in 1..w : index.frames[i].at < e <=> i <= n
    BY <1>1, <1>2, ScannedAre
<1>7. \A i \in 1..n : i \in 1..w /\ i <= n /\ index.frames[i].at \in 1..m BY <1>1, <1>2, Lengths
<1>8. ASSUME NEW i \in 1..n
      PROVE  /\ index.frames[i].at \in 1..disk /\ index.frames[i].at < e
             /\ stream[index.frames[i].at].kind \in {"key", "delta"}
    <2>1. index.frames[i].at < e /\ index.frames[i].at \in 1..m BY <1>6, <1>7
    <2>2. IsWritten(i, index.frames[i], stream, written) BY <1>1, <1>7 DEF FramesAreIndexed
    <2>3. PICK f : f = index.frames[i] OBVIOUS
    <2>4. stream[f.at].kind \in {"key", "delta"} BY <2>2, <2>3 DEF IsWritten, Frame
    <2>5. f.at \in 1..disk /\ f.at < e BY <1>2, <2>1, <2>3
    <2> QED BY <2>3, <2>4, <2>5
<1>9. ASSUME takes
      PROVE  e \in 1..disk /\ stream[e].kind = "torn frame" /\ stream[e].key \in BOOLEAN /\ n = w
    <2>1. PICK i \in 1..disk : stream[i].kind = "torn frame" /\ i < m
        BY <1>1, <1>4, <1>9 DEF MayTake
    <2>2. i \notin 1..(e - 1) BY <1>2, <2>1 DEF IsTorn
    <2>3. e <= i /\ e \in 1..disk /\ e \in 1..m BY <1>2, <2>2
    <2>4. e = i
        <3> SUFFICES ASSUME e < i PROVE FALSE BY <1>2, <2>3
        <3>0. i \in 1..disk BY <2>1
        <3>1. i \in (e + 1)..m BY ONLY <1>ty, <3>0, e < i
        <3>2. ~IsTorn(e)
            <4>1. IsTorn(e) => stream[i].kind \in {"index", "torn index"}
                BY <1>1, <2>3, <3>1 DEF EndsOnce
            <4> QED BY <2>1, <4>1
        <3>3. stream[e].kind = "index" BY <1>2, <2>3, <3>2
        <3>4. e = m BY <1>1, <2>3, <3>3 DEF EndsOnce
        <3> QED BY ONLY <1>ty, <3>1, <3>4
    <2>5. stream[e].key \in BOOLEAN
        <3>1. stream[e] \in Records BY <1>1, <2>3 DEF Types
        <3> QED BY <2>1, <2>4, <3>1 DEF Records
    <2>6. \A j \in 1..w : index.frames[j].at < e
        <3> SUFFICES ASSUME NEW j \in 1..w PROVE index.frames[j].at < e OBVIOUS
        <3>1. PICK f : f = index.frames[j] OBVIOUS
        <3>2. f.at \in 1..m BY <1>1, <3>1, Lengths
        <3>3. IsWritten(j, index.frames[j], stream, written) BY <1>1 DEF FramesAreIndexed
        <3>4. stream[f.at].kind \in {"key", "delta"} BY <3>1, <3>3 DEF IsWritten, Frame
        <3>5. f.at # e BY <2>1, <2>4, <3>4
        <3>6. f.at \notin (e + 1)..m
            <4>1. IsTorn(e) BY <2>1, <2>4 DEF IsTorn
            <4>2. \A q \in (e + 1)..m : stream[q].kind \in {"index", "torn index"}
                BY <1>1, <2>3, <4>1 DEF EndsOnce
            <4> QED BY <3>4, <4>2
        <3>7. f.at < e BY <1>2, <3>2, <3>5, <3>6
        <3> QED BY <3>1, <3>7
    <2>7. n = w
        <3>1. w # 0 => w \in 1..w BY <1>2
        <3>2. w # 0 => w <= n BY <1>6, <2>6, <3>1
        <3> QED BY <1>2, <1>6, <3>2
    <2> QED BY <2>1, <2>3, <2>4, <2>5, <2>7
<1>10. PICK o : o = Len(torn) OBVIOUS
<1>11. /\ torn \in Seq(Entries) /\ o \in {0, 1} /\ o = (IF takes THEN 1 ELSE 0)
       /\ o = 1 => torn[1].at = e /\ torn[1].key = stream[e].key
    <2>1. CASE takes
        <3>1. PICK g : g = Entry(e, stream[e].key) OBVIOUS
        <3>2. g \in Entries /\ g.at = e /\ g.key = stream[e].key
            <4>1. stream[e].key \in BOOLEAN BY <1>9, <2>1
            <4>2. e \in Nat BY ONLY <1>ty
            <4> QED BY <3>1, <4>1, <4>2 DEF Entry, Entries
        <3>3. <<g>> \in Seq(Entries) /\ Len(<<g>>) = 1 /\ <<g>>[1] = g BY <3>2, One
        <3> QED BY <1>3, <1>10, <2>1, <3>1, <3>2, <3>3
    <2>2. CASE ~takes
        <3>1. << >> \in Seq(Entries) /\ Len(<< >>) = 0 OBVIOUS
        <3> QED BY <1>3, <1>10, <2>2, <3>1
    <2> QED BY <2>1, <2>2
<1>12. PICK s : s = Scanned(e) OBVIOUS
<1>13. /\ frames' \in Seq(Entries) /\ Len(frames') = n + o
       /\ \A i \in 1..n : frames'[i] = index.frames[i]
       /\ o = 1 => frames'[n + 1].at = e /\ frames'[n + 1].key = stream[e].key
    <2>1. /\ s \in Seq(Entries) /\ Len(s) = n /\ \A i \in 1..n : s[i] = index.frames[i]
        BY <1>6, <1>12
    <2>2. /\ s \o torn \in Seq(Entries) /\ Len(s \o torn) = n + o
          /\ \A p \in 1..n : (s \o torn)[p] = s[p]
          /\ \A p \in 1..o : (s \o torn)[n + p] = torn[p]
        <3>1. s \in Seq(Entries) /\ torn \in Seq(Entries) BY <1>11, <2>1
        <3>2. /\ s \o torn \in Seq(Entries) /\ Len(s \o torn) = Len(s) + Len(torn)
              /\ \A p \in 1..Len(s) : (s \o torn)[p] = s[p]
              /\ \A p \in 1..Len(torn) : (s \o torn)[Len(s) + p] = torn[p]
            BY ONLY <3>1, Longer
        <3> QED BY <1>10, <2>1, <3>2
    <2>3. frames' = s \o torn BY <1>4, <1>12
    <2>4. o = 1 => 1 \in 1..o OBVIOUS
    <2> QED BY <1>11, <2>1, <2>2, <2>3, <2>4
<1>14. n \in Nat /\ (n # 0 => n \in 1..n) /\ (o = 0 => n + o = n) /\ (o = 1 => n + o = n + 1)
    BY <1>2, <1>6
<1>15. Whole' = n
    <2>1. \A i \in 1..n : stream'[frames'[i].at].kind # "torn frame" BY <1>5, <1>8, <1>13
    <2>2. CASE o = 1
        <3>1. Len(frames') = n + 1 /\ frames' # << >> BY <1>13, <1>14, <2>2
        <3>2. stream'[frames'[Len(frames')].at].kind = "torn frame"
            <4>1. frames'[n + 1].at = e BY <1>13, <2>2
            <4>2. takes BY <1>11, <2>2
            <4>3. stream[e].kind = "torn frame" BY <1>9, <4>2
            <4> QED BY <1>5, <3>1, <4>1, <4>3
        <3>3. n + 1 - 1 = n BY <1>14
        <3>4. Torn(Len(frames))' BY <3>2 DEF Torn
        <3>5. Whole' = Len(frames') - 1 BY <3>1, <3>4 DEF Whole
        <3> QED BY <3>1, <3>3, <3>5
    <2>3. CASE o = 0 /\ n # 0
        <3>1. Len(frames') = n BY <1>13, <1>14, <2>3
        <3>2. stream'[frames'[Len(frames')].at].kind # "torn frame" BY <1>14, <2>1, <2>3, <3>1
        <3> QED BY <3>1, <3>2 DEF Whole, Torn
    <2>4. CASE o = 0 /\ n = 0
        <3>1. Len(frames') = 0 BY <1>13, <2>4
        <3>2. frames' = << >> BY <1>13, <3>1, EmptySeq
        <3> QED BY <2>4, <3>2 DEF Whole
    <2> QED BY <1>11, <2>2, <2>3, <2>4
<1>16. ASSUME NEW i \in 1..n PROVE DOMAIN written[i] \subseteq readers'
    <2> SUFFICES ASSUME NEW x \in DOMAIN written[i] PROVE x \in readers' OBVIOUS
    <2>1. PICK p : p = index.frames[i].at OBVIOUS
    <2>2. p \in 1..disk /\ p < e BY <1>8, <2>1
    <2>3. x \in TablesBefore(stream, p) BY <1>1, <1>7, <2>1 DEF TablesComeBefore
    <2>4. PICK t \in 1..(p - 1) : stream[t].kind = "table" /\ x \in stream[t].defs
        BY <2>3 DEF TablesBefore
    <2>5. t \in 1..(e - 1) BY <1>2, <2>2
    <2> QED BY <1>4, <2>4, <2>5 DEF ScannedTables
<1>17. readers' \subseteq Processes
    <2> SUFFICES ASSUME NEW t \in 1..(e - 1), stream[t].kind = "table"
                 PROVE  stream[t].defs \subseteq Processes
        BY <1>4 DEF ScannedTables
    <2>1. t \in 1..m BY <1>2
    <2>2. stream[t] \in Records BY <1>1, <2>1 DEF Types
    <2> QED BY <2>2 DEF Records
<1>18. Types'
    <2>0. fileLen' = disk BY <1>4
    <2>1. fileLen' \in Nat BY ONLY <1>ty, <2>0
    <2> QED BY <1>4, <1>5, <1>13, <1>17, <2>1 DEF Types
<1>19. OpenedWell'
    <2>0. fileLen' = disk /\ disk' = disk BY <1>4
    <2>1. fileLen' <= disk' BY ONLY <1>ty, <2>0
    <2>2. ASSUME NEW i \in 1..(n + o) PROVE frames'[i].at \in 1..fileLen'
        <3>1. CASE i \in 1..n BY <1>4, <1>8, <1>13, <3>1
        <3>2. CASE o = 1 /\ i = n + 1
            <4>1. frames'[i].at = e BY <1>13, <3>2
            <4>2. takes BY <1>11, <3>2
            <4>3. e \in 1..disk BY <1>9, <4>2
            <4> QED BY <2>0, <4>1, <4>3
        <3>3. i \in 1..n \/ (o = 1 /\ i = n + 1) BY <1>11, <1>14
        <3> QED BY <3>1, <3>2, <3>3
    <2>3. \A i \in DOMAIN frames' : frames'[i].at \in 1..fileLen'
        <3>1. DOMAIN frames' = 1..(n + o) BY <1>13
        <3> QED BY <2>2, <3>1
    <2>4. \A i \in 1..w : index'.frames[i].at <= fileLen' => i <= n BY <1>2, <1>4, <1>5, <1>6
    <2>5. \A i \in 1..n : frames'[i] = index'.frames[i] /\ DOMAIN written'[i] \subseteq readers'
        BY <1>5, <1>13, <1>16
    <2>6. ASSUME Len(frames') > n
          PROVE  /\ frames'[Len(frames')].key = stream'[frames'[Len(frames')].at].key
                 /\ n = w
        <3>1. takes /\ o = 1 /\ Len(frames') = n + 1 BY <1>11, <1>13, <1>14, <2>6
        <3> QED BY <1>5, <1>9, <1>13, <3>1
    <2>7. Len(written') = w /\ open' = "ok" /\ n <= w
        <3>1. n \in 0..w BY <1>6
        <3>2. n <= w BY ONLY <1>ty, <3>1
        <3> QED BY <1>1, <1>4, <1>5, <3>2
    <2> QED BY ONLY <1>15, <2>1, <2>3, <2>4, <2>5, <2>6, <2>7 DEF OpenedWell
<1>20. ReadWell'
    <2>1. cache = None /\ result = None BY <1>4, NothingRead
    <2> QED BY <1>4, <2>1 DEF ReadWell
<1> QED BY <1>18, <1>19, <1>20

-----------------------------------------------------------------------------
(* Reading                                                                  *)

\* A snapshot's rows decode to it, against the snapshot they were written against; rows
\* written against none decode against any.
LEMMA DecodeTakesEncodeBack ==
    ASSUME NEW snap \in Snapshots, NEW was, was = None \/ The(was) \in Snapshots,
           NEW base, was = None \/ base = was, NEW tables, DOMAIN snap \subseteq tables
    PROVE  Decode(Encode(snap, was), base, tables) = Some(snap)
<1>1. PICK shown \in SUBSET Processes : snap \in [shown -> Counters] BY DEF Snapshots
<1>2. DOMAIN snap = shown /\ snap = [p \in shown |-> snap[p]] BY <1>1
<1>3. PICK rows : rows = Encode(snap, was) OBVIOUS
<1>4. DOMAIN rows = shown /\ \A p \in shown :
          rows[p] = IF was # None /\ p \in DOMAIN The(was)
                      THEN Row(FALSE, Difference(snap[p], The(was)[p])) ELSE Row(TRUE, snap[p])
    BY <1>2, <1>3 DEF Encode
<1>5. ASSUME NEW p \in shown
      PROVE  /\ p \in tables /\ (rows[p].full \/ (base # None /\ p \in DOMAIN The(base)))
             /\ (IF rows[p].full THEN rows[p].n ELSE Apply(The(base)[p], rows[p].n)) = snap[p]
    <2>1. p \in tables /\ snap[p] \in Counters BY <1>1, <1>2
    <2>2. CASE was # None /\ p \in DOMAIN The(was)
        <3>1. base = was BY <2>2
        <3>2. rows[p].full = FALSE /\ rows[p].n = Difference(snap[p], The(was)[p])
            BY <1>4, <2>2 DEF Row
        <3>3. The(was)[p] \in Counters BY <2>2 DEF Snapshots
        <3>4. Apply(The(was)[p], Difference(snap[p], The(was)[p])) = snap[p]
            BY <2>1, <3>3, ApplyTakesDifferenceBack
        <3> QED BY <2>1, <2>2, <3>1, <3>2, <3>4
    <2>3. CASE ~(was # None /\ p \in DOMAIN The(was))
        <3>1. rows[p] = Row(TRUE, snap[p]) BY <1>4, <2>3
        <3>2. rows[p].full = TRUE /\ rows[p].n = snap[p] BY <3>1 DEF Row
        <3> QED BY <2>1, <3>2
    <2> QED BY <2>2, <2>3
<1>6. Decode(rows, base, tables) =
          Some([p \in shown |-> IF rows[p].full THEN rows[p].n ELSE Apply(The(base)[p], rows[p].n)])
    BY <1>4, <1>5 DEF Decode
<1>7. [p \in shown |-> IF rows[p].full THEN rows[p].n ELSE Apply(The(base)[p], rows[p].n)] = snap
    BY <1>2, <1>5
<1> QED BY <1>3, <1>6, <1>7

\* A whole frame decodes to its snapshot: a keyframe against anything, any other against
\* the snapshot before it. A torn one never decodes.
LEMMA FramesDecode ==
    ASSUME Types, RecorderInv, OpenedWell, open = "ok", NEW i \in 1..Len(frames)
    PROVE  /\ i <= Whole /\ frames[i].key => \A base : DecodeAt(i, base) = Some(written[i])
           /\ i <= Whole /\ ~frames[i].key =>
                i - 1 \in 1..Whole /\ DecodeAt(i, Some(written[i - 1])) = Some(written[i])
           /\ i > Whole => \A base : DecodeAt(i, base) = None
<1> USE DEF RecorderInv
<1>1. PICK c, l, w : c = Whole /\ l = Len(frames) /\ w = Len(written) OBVIOUS
<1>2. /\ c \in Nat /\ l \in Nat /\ w \in Nat /\ c <= l /\ c <= w /\ i \in 1..l
      /\ Torn(i) <=> i > c
    BY <1>1, Lengths, WholeIs
<1>3. PICK f : f = frames[i] OBVIOUS
<1>4. ASSUME i <= c
      PROVE  /\ f = index.frames[i] /\ f.key \in BOOLEAN /\ DOMAIN written[i] \subseteq readers
             /\ written[i] \in Snapshots
             /\ stream[f.at] = Frame(f.key, Encode(written[i], IF f.key THEN None ELSE Some(written[i - 1])))
    <2>1. i \in 1..c /\ i \in 1..w BY <1>2, <1>4
    <2>2. f = index.frames[i] /\ DOMAIN written[i] \subseteq readers
        BY <1>1, <1>3, <2>1 DEF OpenedWell
    <2>3. IsWritten(i, f, stream, written) BY <1>1, <2>1, <2>2 DEF FramesAreIndexed
    <2>4. f.key \in BOOLEAN /\ written[i] \in Snapshots BY <1>1, <2>1, <2>2, Lengths
    <2> QED BY <2>2, <2>3, <2>4 DEF IsWritten
<1>5. ASSUME i <= c, f.key, NEW base PROVE DecodeAt(i, base) = Some(written[i])
    <2>1. PICK rows : rows = Encode(written[i], None) OBVIOUS
    <2>2. stream[f.at] = Frame(TRUE, rows) BY <1>4, <1>5, <2>1
    <2>3. stream[f.at].kind = "key" /\ stream[f.at].rows = rows BY <2>2 DEF Frame
    <2>4. DecodeAt(i, base) = Decode(rows, base, readers)
        BY <1>3, <1>5, <2>3 DEF DecodeAt, IsFrame
    <2>5. Decode(rows, base, readers) = Some(written[i])
        BY <1>4, <1>5, <2>1, DecodeTakesEncodeBack
    <2> QED BY <2>4, <2>5
<1>6. ASSUME i <= c, ~f.key
      PROVE  i - 1 \in 1..c /\ DecodeAt(i, Some(written[i - 1])) = Some(written[i])
    <2>1. i # 1
        <3> SUFFICES ASSUME i = 1 PROVE FALSE OBVIOUS
        <3>1. i \in 1..w BY <1>2, <1>6
        <3>2. PICK k \in 1..i : index.frames[k].key BY <1>1, <3>1 DEF KeysAreNear
        <3>3. k = i BY <3>2
        <3> QED BY <1>4, <1>6, <3>2, <3>3
    <2>2. i - 1 \in 1..c /\ i - 1 \in 1..w BY <1>2, <1>6, <2>1
    <2>3. PICK was : was = Some(written[i - 1]) OBVIOUS
    <2>4. written[i - 1] \in Snapshots BY <1>1, <2>2, Lengths
    <2>5. was # None /\ The(was) \in Snapshots BY <2>3, <2>4 DEF Some, The, None
    <2>6. PICK rows : rows = Encode(written[i], was) OBVIOUS
    <2>7. stream[f.at] = Frame(FALSE, rows) BY <1>4, <1>6, <2>3, <2>6
    <2>8. stream[f.at].kind = "delta" /\ stream[f.at].rows = rows BY <2>7 DEF Frame
    <2>9. DecodeAt(i, was) = Decode(rows, was, readers)
        BY <1>3, <2>5, <2>8 DEF DecodeAt, IsFrame
    <2>10. Decode(rows, was, readers) = Some(written[i])
        BY <1>4, <1>6, <2>5, <2>6, DecodeTakesEncodeBack
    <2> QED BY <2>2, <2>3, <2>9, <2>10
<1>7. ASSUME i > c, NEW base PROVE DecodeAt(i, base) = None
    <2>1. stream[f.at].kind = "torn frame" BY <1>2, <1>3, <1>7 DEF Torn
    <2> QED BY <1>3, <2>1 DEF DecodeAt, IsFrame
<1> QED BY <1>1, <1>3, <1>5, <1>6, <1>7

\* A keyframe is close before every frame that is listed, a torn one too.
LEMMA KeyIsNear ==
    ASSUME Types, RecorderInv, OpenedWell, open = "ok", NEW i \in 1..Len(frames)
    PROVE  KeyBefore(i) \in 1..i /\ frames[KeyBefore(i)].key /\ i - KeyBefore(i) < KeyEvery
<1> USE DEF RecorderInv
<1>1. PICK c, l, w, K :
          c = Whole /\ l = Len(frames) /\ w = Len(written) /\ K = {k \in 1..i : frames[k].key}
    OBVIOUS
<1>2. /\ c \in Nat /\ l \in Nat /\ w \in Nat /\ c <= l /\ c <= w /\ i \in 1..l
      /\ c < l => c = l - 1
    BY <1>1, Lengths, WholeIs
<1>3. \A k \in 1..c : frames[k] = index.frames[k] BY <1>1 DEF OpenedWell
<1>4. \E k \in K : i - k < KeyEvery
    <2>1. CASE i <= c
        <3>1. i \in 1..w BY ONLY <1>2, <2>1
        <3>2. PICK k \in 1..i : index.frames[k].key /\ i - k < KeyEvery
            BY <1>1, <3>1 DEF KeysAreNear
        <3>3. k \in 1..c BY ONLY <1>2, <2>1, <3>2
        <3> QED BY <1>1, <1>3, <3>2, <3>3
    <2>2. CASE i > c
        <3>1. l > c /\ i = l /\ i = c + 1 BY ONLY <1>2, <2>2
        <3>2. frames[l].key = stream[frames[l].at].key /\ c = w
            BY <1>1, <3>1 DEF OpenedWell
        <3>3. i \in DOMAIN frames BY <1>1, <1>2, Lengths
        <3>4. frames[i].key = IsKey
            <4>1. PICK p : p = frames[l].at OBVIOUS
            <4>2. Torn(i) BY <1>1, <1>2, <2>2, WholeIs
            <4>3. p \in 1..fileLen /\ fileLen <= disk BY <3>1, <3>3, <4>1 DEF OpenedWell
            <4>4. fileLen \in Nat /\ disk \in 0..Len(stream) /\ Len(stream) \in Nat
                BY Lengths DEF Types
            <4>5. p \in 1..Len(stream) BY ONLY <4>3, <4>4
            <4>6. stream[p].key = IsKey BY <3>1, <4>1, <4>2, <4>5 DEF Torn, EndsOnce
            <4> QED BY <3>1, <3>2, <4>1, <4>6
        <3>5. CASE IsKey
            <4>1. i \in 1..i /\ i - i < KeyEvery BY <1>2, KeyEveryAssumption
            <4>2. i \in K BY <1>1, <3>4, <3>5, <4>1
            <4> QED BY <4>1, <4>2
        <3>6. CASE ~IsKey
            <4>1. written # << >> /\ sinceKey < KeyEvery
                BY <3>6, KeyEveryAssumption DEF IsKey, Types, KeysAreNear
            <4>2. /\ sinceKey \in 1..KeyEvery /\ sinceKey <= w
                  /\ index.frames[w - sinceKey + 1].key
                BY <1>1, <4>1 DEF KeysAreNear
            <4>3. PICK k : k = w - sinceKey + 1 OBVIOUS
            <4>4. k \in 1..c /\ k \in 1..i /\ i - k = sinceKey
                BY <1>2, <3>1, <3>2, <4>2, <4>3, KeyEveryAssumption
            <4>5. frames[k].key BY <1>3, <4>2, <4>3, <4>4
            <4> QED BY <1>1, <4>1, <4>4, <4>5
        <3> QED BY <3>5, <3>6
    <2> QED BY <1>2, <2>1, <2>2
<1>5. PICK b : b = KeyBefore(i) OBVIOUS
<1>6. b \in K /\ \A k \in K : k <= b
    <2>1. K # {} /\ K \subseteq 1..i /\ 1 \in Int /\ i \in Int BY <1>1, <1>4
    <2>2. Max(K) \in K /\ \A k \in K : k <= Max(K) BY ONLY <2>1, MaxIsGreatest
    <2> QED BY <1>1, <1>5, <2>2 DEF KeyBefore
<1>7. b \in 1..i /\ frames[b].key BY <1>1, <1>6
<1>8. i - b < KeyEvery
    <2>1. PICK k \in K : i - k < KeyEvery BY <1>4
    <2>2. k <= b /\ k \in 1..i BY <1>1, <1>6, <2>1
    <2> QED BY <1>7, <2>1, <2>2, KeyEveryAssumption
<1> QED BY <1>5, <1>7, <1>8

\* What a read returns, wherever it starts.
LEMMA RunIsWritten ==
    ASSUME Types, RecorderInv, OpenedWell, open = "ok", NEW i \in 1..Len(frames),
           NEW start \in 1..i, NEW base, frames[start].key \/ base = Some(written[start - 1])
    PROVE  Run(start, i, base) = IF i <= Whole THEN Some(written[i]) ELSE None
<1>1. PICK c, l : c = Whole /\ l = Len(frames) OBVIOUS
<1>2. c \in Nat /\ l \in Nat /\ c <= l /\ i \in 1..l /\ start \in 1..i
    BY <1>1, Lengths, WholeIs DEF RecorderInv
<1>3. PICK value : value = [k \in 1..i |-> IF k <= c THEN Some(written[k]) ELSE None] OBVIOUS
<1>4. \A k \in 1..i : value[k] = IF k <= c THEN Some(written[k]) ELSE None BY <1>3
<1>5. \A k \in 1..i :
          /\ k <= c /\ frames[k].key => \A b : DecodeAt(k, b) = Some(written[k])
          /\ k <= c /\ ~frames[k].key =>
                k - 1 \in 1..c /\ DecodeAt(k, Some(written[k - 1])) = Some(written[k])
          /\ k > c => \A b : DecodeAt(k, b) = None
    <2> SUFFICES ASSUME NEW k \in 1..i
                 PROVE  /\ k <= c /\ frames[k].key => \A b : DecodeAt(k, b) = Some(written[k])
                        /\ k <= c /\ ~frames[k].key =>
                              k - 1 \in 1..c /\ DecodeAt(k, Some(written[k - 1])) = Some(written[k])
                        /\ k > c => \A b : DecodeAt(k, b) = None
        OBVIOUS
    <2>1. k \in 1..Len(frames) BY <1>1, <1>2
    <2> QED BY <1>1, <2>1, FramesDecode
<1>6. start \in 1..i BY <1>2
<1>7. DecodeAt(start, base) = value[start]
    <2>1. CASE start <= c BY <1>4, <1>5, <1>6, <2>1
    <2>2. CASE start > c
        <3>1. DecodeAt(start, base) = None BY <1>5, <1>6, <2>2
        <3>2. ~(start <= c) BY <1>2, <2>2
        <3> QED BY <1>4, <1>6, <3>1, <3>2
    <2> QED BY <1>2, <2>1, <2>2
<1>8. ASSUME NEW k \in (start + 1)..i PROVE DecodeAt(k, value[k - 1]) = value[k]
    <2>1. k \in 1..i /\ k - 1 \in 1..i BY <1>2
    <2>2. CASE k > c
        <3>1. DecodeAt(k, value[k - 1]) = None BY <1>5, <2>1, <2>2
        <3>2. ~(k <= c) BY <1>2, <2>2
        <3> QED BY <1>4, <2>1, <3>1, <3>2
    <2>3. CASE k <= c /\ frames[k].key BY <1>4, <1>5, <2>1, <2>3
    <2>4. CASE k <= c /\ ~frames[k].key
        <3>1. k - 1 <= c BY <1>2, <2>4
        <3>2. value[k - 1] = Some(written[k - 1]) BY <1>4, <2>1, <3>1
        <3> QED BY <1>4, <1>5, <2>1, <2>4, <3>2
    <2> QED BY <1>2, <2>2, <2>3, <2>4
<1>9. Run(start, i, base) = value[i]
    <2>1. start \in Int /\ i \in Int /\ start <= i BY <1>2
    <2> QED BY ONLY <1>7, <1>8, <2>1, RunReturns
<1>10. i \in 1..i BY <1>2
<1> QED BY <1>1, <1>4, <1>9, <1>10

\* Reading a frame that open listed returns what was written there.
LEMMA ReadingIsWell ==
    ASSUME Types, RecorderInv, OpenedWell, ReadWell, NEW i \in DOMAIN frames,
           ReadCached(i) \/ Read(i)
    PROVE  Types' /\ RecorderInv' /\ OpenedWell' /\ ReadWell'
<1>1. PICK c, l, w : c = Whole /\ l = Len(frames) /\ w = Len(written) OBVIOUS
<1>2. /\ c \in Nat /\ l \in Nat /\ w \in Nat /\ c <= l /\ c <= w
      /\ \A k \in 1..l : Torn(k) <=> k > c
      /\ i \in 1..l /\ i \in 1..Len(frames)
    BY <1>1, Lengths, WholeIs DEF RecorderInv
<1>3. open = "ok" /\ UNCHANGED <<recorder, disk, open, fileLen, frames, readers, hadIndex>>
    BY DEF ReadCached, Read
<1>4. UNCHANGED <<stream, prev, sinceKey, known, index, rec, written>> BY <1>3 DEF recorder
<1>5. Types' BY <1>3, <1>4 DEF Types
<1>6. RecorderInv'
    <2>1. FramesAreIndexed' /\ KeysAreNear' /\ TablesComeBefore'
        BY <1>4 DEF RecorderInv, FramesAreIndexed, KeysAreNear, TablesComeBefore, IsFrame
    <2>2. EndsOnce' BY <1>4 DEF RecorderInv, EndsOnce, IsTorn, IsKey
    <2> QED BY <2>1, <2>2 DEF RecorderInv
<1>7. Whole' = c /\ \A k : Torn(k)' <=> Torn(k) BY <1>1, <1>3, <1>4 DEF Whole, Torn
<1>8. OpenedWell' BY <1>1, <1>3, <1>4, <1>7 DEF OpenedWell
<1>9. ASSUME cache # None
      PROVE  The(cache).at \in 1..c /\ The(cache).snap = written[The(cache).at]
    BY <1>1, <1>9 DEF ReadWell
<1>10. PICK snap : snap = IF i <= c THEN Some(written[i]) ELSE None OBVIOUS
<1>11. i <= c <=> snap # None BY <1>10 DEF Some, None
<1>12. /\ result' = Some([at |-> i, snap |-> snap])
       /\ decoded' \in 0..KeyEvery
       /\ cache' = cache \/ (i <= c /\ cache' = Some([at |-> i, snap |-> written[i]]))
    <2>1. CASE ReadCached(i)
        <3>1. /\ cache # None /\ The(cache).at = i /\ decoded' = 0 /\ cache' = cache
              /\ result' = Some([at |-> i, snap |-> Some(The(cache).snap)])
            BY <2>1 DEF ReadCached, IsCached
        <3>2. i \in 1..c /\ The(cache).snap = written[i] BY <1>9, <3>1
        <3>3. snap = Some(written[i]) BY <1>10, <3>2
        <3>4. decoded' \in 0..KeyEvery BY <3>1, KeyEveryAssumption
        <3> QED BY <3>1, <3>2, <3>3, <3>4
    <2>2. CASE Read(i)
        <3>1. PICK start, base :
                  /\ start = IF UsesCache(i) THEN i ELSE KeyBefore(i)
                  /\ base = IF UsesCache(i) THEN Some(The(cache).snap) ELSE None
            OBVIOUS
        <3>2. /\ result' = Some([at |-> i, snap |-> Run(start, i, base)])
              /\ cache' = (IF Run(start, i, base) = None THEN cache
                           ELSE Some([at |-> i, snap |-> The(Run(start, i, base))]))
              /\ decoded' = i - start + 1
            BY <2>2, <3>1 DEF Read
        <3>3. /\ start \in 1..i /\ i - start < KeyEvery
              /\ frames[start].key \/ base = Some(written[start - 1])
            <4>1. CASE UsesCache(i)
                <5>1. cache # None /\ The(cache).at + 1 = i /\ start = i BY <3>1, <4>1 DEF UsesCache
                <5>2. The(cache).at = i - 1 BY <1>2, <1>9, <5>1
                <5>3. base = Some(written[i - 1]) BY <1>9, <3>1, <4>1, <5>1, <5>2
                <5>4. i \in 1..i /\ i - i < KeyEvery BY <1>2, KeyEveryAssumption
                <5> QED BY <5>1, <5>3, <5>4
            <4>2. CASE ~UsesCache(i)
                <5>1. start = KeyBefore(i) BY <3>1, <4>2
                <5> QED BY <1>2, <1>3, <5>1, KeyIsNear
            <4> QED BY <4>1, <4>2
        <3>4. Run(start, i, base) = snap
            BY <1>1, <1>2, <1>3, <1>10, <3>3, RunIsWritten
        <3>5. decoded' \in 0..KeyEvery BY <1>2, <3>2, <3>3, KeyEveryAssumption
        <3>6. snap # None => The(snap) = written[i] BY <1>10, <1>11 DEF Some, The
        <3> QED BY <1>11, <3>2, <3>4, <3>5, <3>6
    <2> QED BY <2>1, <2>2
<1>13. ASSUME cache' # None
       PROVE  The(cache').at \in 1..c /\ The(cache').snap = written[The(cache').at]
    <2>1. CASE cache' = cache BY <1>9, <1>13, <2>1
    <2>2. CASE i <= c /\ cache' = Some([at |-> i, snap |-> written[i]])
        <3>1. The(cache') = [at |-> i, snap |-> written[i]] BY <2>2 DEF Some, The
        <3>2. i \in 1..c BY <1>2, <2>2
        <3> QED BY <3>1, <3>2
    <2> QED BY <1>12, <2>1, <2>2
<1>14. The(result').at = i /\ The(result').snap = snap BY <1>12 DEF Some, The
<1>15. The(result').snap = IF Torn(i)' THEN None ELSE Some(written'[i])
    <2>1. Torn(i)' <=> i > c BY <1>2, <1>7
    <2>2. i > c <=> ~(i <= c) BY <1>2
    <2> QED BY <1>4, <1>10, <1>14, <2>1, <2>2
<1>16. ReadWell'
    <2>1. The(result').at \in DOMAIN frames' BY <1>3, <1>14
    <2>2. Torn(The(result).at)' <=> Torn(i)' BY <1>14 DEF Torn
    <2>3. ReadsWhatWasWritten' BY <1>14, <1>15, <2>2 DEF ReadsWhatWasWritten
    <2>4. cache' # None => The(cache').at \in 1..c /\ The(cache').snap = written'[The(cache').at]
        BY <1>4, <1>13
    <2> QED BY <1>7, <1>12, <2>1, <2>3, <2>4 DEF ReadWell
<1> QED BY <1>5, <1>6, <1>8, <1>16

-----------------------------------------------------------------------------
(* The theorems                                                             *)

\* No step gives the invariant up.
LEMMA NextKeepsIInv == IInv /\ [Next]_vars => IInv'
<1> SUFFICES ASSUME Types, RecorderInv, OpenedWell, ReadWell, [Next]_vars
             PROVE  Types' /\ RecorderInv' /\ OpenedWell' /\ ReadWell'
    BY DEF IInv
<1>1. ASSUME NEW snap \in Snapshots, Write(snap)
      PROVE  Types' /\ RecorderInv' /\ OpenedWell' /\ ReadWell'
    BY <1>1, WriteKeepsRecorder
<1>2. ASSUME NEW snap \in Snapshots, TableFails(snap) \/ FrameFails(snap)
      PROVE  Types' /\ RecorderInv' /\ OpenedWell' /\ ReadWell'
    BY <1>2, FailureKeepsRecorder
<1>3. CASE Die \/ \E n \in 1..Len(stream) : Flush(n) BY <1>3, LossKeepsRecorder
<1>4. CASE Finish \/ FinishFails BY <1>4, FinishKeepsRecorder
<1>5. ASSUME UNCHANGED <<stream, prev, sinceKey, known, index, rec, written>>
      PROVE  RecorderInv'
    <2>1. FramesAreIndexed' /\ KeysAreNear' /\ TablesComeBefore'
        BY <1>5 DEF RecorderInv, FramesAreIndexed, KeysAreNear, TablesComeBefore, IsFrame
    <2>2. EndsOnce' BY <1>5 DEF RecorderInv, EndsOnce, IsTorn, IsKey
    <2> QED BY <2>1, <2>2 DEF RecorderInv
<1>6. CASE OpenByIndex
    <2>1. RecorderInv' BY <1>5, <1>6 DEF OpenByIndex, recorder
    <2> QED BY <1>6, <2>1, IndexedIsOpenedWell
<1>7. ASSUME NEW takes \in BOOLEAN, OpenByScan(takes)
      PROVE  Types' /\ RecorderInv' /\ OpenedWell' /\ ReadWell'
    <2>1. RecorderInv' BY <1>5, <1>7 DEF OpenByScan, recorder
    <2> QED BY <1>7, <2>1, ScannedIsOpenedWell
<1>8. CASE ScanFails
    <2>1. /\ open = "closed" /\ open' = "error"
          /\ UNCHANGED <<stream, prev, sinceKey, known, index, rec, written>>
          /\ UNCHANGED <<disk, fileLen, frames, readers, hadIndex, cache, result, decoded>>
        BY <1>8 DEF ScanFails, recorder
    <2>2. frames = << >> /\ cache = None /\ result = None BY <2>1, NothingRead
    <2>3. Types' BY <2>1 DEF Types
    <2>4. OpenedWell' BY <2>1, <2>2 DEF OpenedWell
    <2>5. ReadWell' BY <2>1, <2>2 DEF ReadWell
    <2> QED BY <1>5, <2>1, <2>3, <2>4, <2>5
<1>9. ASSUME NEW i \in DOMAIN frames, ReadCached(i) \/ Read(i)
      PROVE  Types' /\ RecorderInv' /\ OpenedWell' /\ ReadWell'
    BY <1>9, ReadingIsWell
<1>10. CASE Closed \/ UNCHANGED vars
    <2>1. UNCHANGED vars BY <1>10 DEF Closed
    <2>2. /\ UNCHANGED <<stream, prev, sinceKey, known, index, rec, written>>
          /\ UNCHANGED <<disk, open, fileLen, frames, readers, hadIndex, cache, result, decoded>>
        BY <2>1 DEF vars, recorder, recording
    <2>3. Types' BY <2>2 DEF Types
    <2>4. OpenedWell' BY <2>2 DEF OpenedWell, Whole, Torn
    <2>5. ReadWell' BY <2>2 DEF ReadWell, ReadsWhatWasWritten, Whole, Torn
    <2> QED BY <1>5, <2>2, <2>3, <2>4, <2>5
<1> QED BY <1>1, <1>2, <1>3, <1>4, <1>6, <1>7, <1>8, <1>9, <1>10 DEF Next

\* It always holds.
LEMMA Inductive == Spec => []IInv
<1> QED BY InitIInv, NextKeepsIInv, PTL DEF Spec

\* recorder.rs and recording.rs: every variable keeps its range.  Among them, a read
\* decodes no more than KeyEvery frames, the bound recorder.rs gives a seek, and every
\* frame listed starts within the file as it was when it was opened.
THEOREM TypeCorrect == Spec => []TypeOK
<1>1. IInv => TypeOK
    <2> SUFFICES ASSUME Types, RecorderInv, OpenedWell, ReadWell PROVE TypeOK BY DEF IInv
    <2>1. Len(written) \in Nat /\ (written # << >> => Len(written) \in 1..Len(written))
        BY EmptySeq DEF Types
    <2>2. prev = None \/ The(prev) \in Snapshots
        <3>1. written # << >> => written[Len(written)] \in Snapshots BY <2>1 DEF Types
        <3> QED BY <3>1 DEF Types, Some, The
    <2>3. sinceKey \in 0..KeyEvery BY KeyEveryAssumption DEF RecorderInv, KeysAreNear
    <2>4. decoded \in 0..KeyEvery BY DEF ReadWell
    <2>5. \A i \in DOMAIN frames : frames[i].at \in 1..fileLen BY DEF OpenedWell
    <2>6. \A i \in DOMAIN written : written[i] \in Snapshots BY DEF Types
    <2> QED BY <2>2, <2>3, <2>4, <2>5, <2>6 DEF Types, TypeOK
<1> QED BY <1>1, Inductive, PTL

\* Recording::read with what recorder.rs wrote: whatever write failed, wherever the file
\* was cut and in whatever order frames are read, a read returns the snapshot that was
\* written, and only a torn frame is an error.
THEOREM ReadsAreTrue == Spec => []ReadsWhatWasWritten
<1>1. IInv => ReadsWhatWasWritten BY DEF IInv, ReadWell, ReadsWhatWasWritten
<1> QED BY <1>1, Inductive, PTL

\* Recording::open, by the index or by scan: it lists every frame whose record was whole
\* in the file, where the recorder's index has it.
THEOREM OpenListsAll == Spec => []ListsEveryWholeFrame
<1>1. IInv => ListsEveryWholeFrame
    <2> SUFFICES ASSUME Types, RecorderInv, OpenedWell, open = "ok",
                        NEW i \in 1..Len(index.frames), index.frames[i].at <= fileLen
                 PROVE  i \in DOMAIN frames /\ frames[i] = index.frames[i]
        BY DEF IInv, ListsEveryWholeFrame
    <2>1. PICK c, l, w : c = Whole /\ l = Len(frames) /\ w = Len(written) OBVIOUS
    <2>2. c \in Nat /\ l \in Nat /\ c <= l /\ DOMAIN frames = 1..l
        BY <2>1, Lengths, WholeIs DEF RecorderInv
    <2>3. i \in 1..w BY <2>1 DEF RecorderInv, FramesAreIndexed
    <2>4. i <= c BY <2>1, <2>3 DEF OpenedWell
    <2>5. i \in 1..c /\ i \in 1..l BY <2>2, <2>3, <2>4
    <2> QED BY <2>1, <2>2, <2>5 DEF OpenedWell
<1> QED BY <1>1, Inductive, PTL
=============================================================================
