------------------------------ MODULE Timeline ------------------------------
(***************************************************************************)
(* One series of the timeline (ot-core/src/timeline.rs, history.rs): raw   *)
(* samples in a ring, and behind them tiers of fixed-width buckets, each   *)
(* in a ring of its own.  Every sample goes into the raw ring and into     *)
(* every tier; history() reads them back, each stretch of time at the      *)
(* finest resolution that still covers it.                                 *)
(*                                                                         *)
(* A sample is its time, in whole units; values and their minimum, maximum *)
(* and mean are left out, the number of samples in a bucket stays.  The    *)
(* module has no clock of its own: Histories gives it the snapshots.       *)
(***************************************************************************)
EXTENDS Integers, FiniteSets, SequencesExt

CONSTANTS
    RAW_SAMPLES,   \* raw samples kept
    FINE_MS,       \* bucket width of the finer tier
    FINE_SPAN_MS,  \* and how much of a span it covers
    COARSE_MS      \* bucket width of the coarser tier, for spans past that

ASSUME RetentionAssumption ==
    /\ {RAW_SAMPLES, FINE_MS, FINE_SPAN_MS, COARSE_MS} \subseteq Nat \ {0}
    /\ FINE_MS < COARSE_MS

VARIABLES
    raw,      \* times of the raw samples held, oldest first
    tiers,    \* finest first: width, capacity, closed buckets, and the open one or none
    \* History variables
    samples,  \* times of all samples ever pushed
    since     \* the reach has asked for every sample from here on

series == <<raw, tiers>>
timelineVars == <<raw, tiers, samples, since>>

-----------------------------------------------------------------------------
(* Rings, buckets and tiers                                                 *)

\* Ring::push, set_capacity: the newest elements that fit.
Ring(s, cap) == SubSeq(s, Max({1, Len(s) - cap + 1}), Len(s))

Bucket(at) == [first |-> at, last |-> at, count |-> 1]

\* Bucket::add.
Added(b, at) == [b EXCEPT !.last = Max({@, at}), !.count = @ + 1]

\* Mutant: whichever bucket is open takes the sample.
PushTierAnyBucket(t, at) ==
    IF t.open # << >>
    THEN [t EXCEPT !.open[1] = Added(@, at)]
    ELSE [t EXCEPT !.open = <<Bucket(at)>>]

\* Mutant: a sample that starts a bucket is left for the next one to count.
PushTierSkipsFirst(t, at) ==
    IF t.open # << >> /\ Head(t.open).first \div t.width = at \div t.width
    THEN [t EXCEPT !.open[1] = Added(@, at)]
    ELSE [t EXCEPT !.closed = Ring(t.closed \o t.open, t.capacity),
                   !.open = <<[Bucket(at) EXCEPT !.count = 0]>>]

\* Tier::push. The index of a bucket is that of the sample that started it.
PushTier(t, at) ==
    IF t.open # << >> /\ Head(t.open).first \div t.width = at \div t.width
    THEN [t EXCEPT !.open[1] = Added(@, at)]
    ELSE [t EXCEPT !.closed = Ring(t.closed \o t.open, t.capacity), !.open = <<Bucket(at)>>]

PushOne(s, at) ==
    [raw |-> Ring(Append(s.raw, at), RAW_SAMPLES),
     tiers |-> [i \in DOMAIN s.tiers |-> PushTier(s.tiers[i], at)]]

-----------------------------------------------------------------------------
(* Retention                                                                *)

\* Mutant: as many buckets as the span has widths.
BucketsExactly(span, width) == span \div width

\* Buckets are aligned to the clock, hence one more; and one is being filled.
Buckets(span, width) == span \div width + 2

\* Retention::covering.
Covering(span) ==
    LET fine == [width |-> FINE_MS, capacity |-> Buckets(Min({span, FINE_SPAN_MS}), FINE_MS)]
        coarse == [width |-> COARSE_MS, capacity |-> Buckets(span, COARSE_MS)]
    IN IF span > FINE_SPAN_MS THEN <<fine, coarse>> ELSE <<fine>>

EmptyTier(r) == [width |-> r.width, capacity |-> r.capacity, closed |-> << >>, open |-> << >>]

\* Series::set_retention: a tier whose width stays keeps its buckets.
Retained(resolutions) ==
    LET Kept(r) == {t \in ToSet(tiers) : t.width = r.width}
        Resized(r, t) == [t EXCEPT !.capacity = r.capacity, !.closed = Ring(@, r.capacity)]
    IN [i \in DOMAIN resolutions |->
            LET r == resolutions[i] IN
            IF Kept(r) = {} THEN EmptyTier(r) ELSE Resized(r, CHOOSE t \in Kept(r) : TRUE)]

-----------------------------------------------------------------------------
(* Reading                                                                  *)

Everything(t) == t.closed \o t.open

\* Buckets as history() gives them: newest first, with their width.
Yielded(bs, width) ==
    [i \in DOMAIN bs |-> LET b == Reverse(bs)[i] IN
                         [first |-> b.first, last |-> b.last, count |-> b.count, width |-> width]]

\* Mutant: a bucket that began before what was yielded continues it.
BeforeOverlaps(h, b) == h # << >> => b.first < Last(h).first

\* Wholly before everything already yielded.
Before(h, b) == h # << >> => b.last < Last(h).first

\* Series::history: newest first.
History ==
    LET rawBuckets == Yielded([i \in DOMAIN raw |-> Bucket(raw[i])], 1)
        coarser == FlattenSeq([i \in DOMAIN tiers |-> Yielded(Everything(tiers[i]), tiers[i].width)])
        Yield(h, b) == IF Before(h, b) THEN Append(h, b) ELSE h
    IN FoldLeft(Yield, rawBuckets, coarser)

-----------------------------------------------------------------------------
(* Actions, taken with the snapshots                                        *)

\* Timeline::new, before the first snapshot.
TimelineInit(span) ==
    /\ raw = << >> /\ samples = {} /\ since = 0
    /\ tiers = [i \in DOMAIN Covering(span) |-> EmptyTier(Covering(span)[i])]

\* Timeline::observe: the first sample also stands at the start of its interval.
Chart(at, interval, span) ==
    LET new == IF raw = << >> THEN <<at - interval, at>> ELSE <<at>>
        pushed == FoldLeft(PushOne, [raw |-> raw, tiers |-> tiers], new)
    IN /\ raw' = pushed.raw /\ tiers' = pushed.tiers
       /\ samples' = samples \cup ToSet(new)
       /\ since' = Max({since, at - span})

\* Timeline::set_retention. A tier that is new fills from here on.
Retain(span, latest) ==
    /\ tiers' = Retained(Covering(span))
    /\ since' = IF Len(tiers') > Len(tiers) THEN latest + 1 ELSE Max({since, latest - span})
    /\ UNCHANGED <<raw, samples>>

-----------------------------------------------------------------------------
(* Properties                                                               *)

\* Types and capacities; every bucket lies within one window of its tier.
TimelineTypeOK ==
    /\ raw \in Seq(Int) /\ Len(raw) <= RAW_SAMPLES /\ ToSet(raw) \subseteq samples
    /\ \A i \in DOMAIN tiers :
        LET t == tiers[i] IN
        /\ Len(t.closed) <= t.capacity /\ Len(t.open) <= 1
        /\ \A j \in DOMAIN Everything(t) :
            LET b == Everything(t)[j] IN
            b.first <= b.last /\ b.first \div t.width = b.last \div t.width

\* timeline.rs, Series::push: whatever was evicted and resized since, a sample is
\* counted in exactly one bucket of a tier that reaches back to it, and a bucket
\* counts exactly the samples between its ends.
EachSampleOnce ==
    \A i \in DOMAIN tiers :
        LET bs == Everything(tiers[i])
            In(s, b) == b.first <= s /\ s <= b.last IN
        /\ \A j \in DOMAIN bs : bs[j].count = Cardinality({s \in samples : In(s, bs[j])})
        /\ \A s \in samples : (bs # << >> /\ s >= Head(bs).first) =>
                Cardinality({j \in DOMAIN bs : In(s, bs[j])}) = 1

\* timeline.rs, Series::history: newest first, "no instant is counted twice; at each
\* seam that leaves a gap of at most one bucket".
HistoryIsSeamless ==
    LET h == History
        coarsest == Last(tiers).width IN
    /\ \A i \in 1..(Len(h) - 1) :
        /\ h[i + 1].last < h[i].first
        /\ \A s \in samples : (h[i + 1].last < s /\ s < h[i].first) => h[i].first - s < h[i + 1].width
    /\ h # << >> => \A s \in samples : (s >= since /\ s < Last(h).first) => Last(h).first - s < coarsest

\* timeline.rs, Retention::covering: enough history for the span it was asked for:
\* a sample as young as the reach, taken since the reach last grew a tier, is held
\* raw or in a bucket.
ReachIsHeld ==
    \A s \in samples : s >= since =>
        \/ s \in ToSet(raw)
        \/ \E i \in DOMAIN tiers : \E j \in DOMAIN Everything(tiers[i]) :
            LET b == Everything(tiers[i])[j] IN b.first <= s /\ s <= b.last

\* A chart of the whole reach shows each instant once: what is held goes back as far
\* as the reach, and history walks it newest first with no overlap and, where one
\* tier takes over from another, no gap wider than a bucket.
HistoryIsWhole == HistoryIsSeamless /\ ReachIsHeld
=============================================================================
