--------------------------- MODULE Sampler_proofs ---------------------------
(***************************************************************************)
(* Proofs about Sampler, for any set of recordings, any queue capacity and *)
(* any number of passes.                                                   *)
(*                                                                         *)
(* StatsAccountForEveryPass is not inductive: it looks at a result only    *)
(* once it exists. Inv says why it comes out right: at every step a        *)
(* healthy recording has each offered tick in the file, in the writer's    *)
(* hands, in the channel or in the dropped count (CountInv), consecutive   *)
(* passes are offered as long as the sink is in place (OrderInv), and the  *)
(* owner's position says which recording can still be open (OwnerInv).     *)
(***************************************************************************)
EXTENDS Sampler, SequenceTheorems, TLAPS

\* The owner holds at most one writer, in the mutex or in its hands; the sink is
\* in place only between StoreSink and ClearSink.
OwnerInv ==
    /\ upc \in {"ready", "take"} => taken = NoRecording
    /\ upc \in {"clear", "close", "count", "join", "store", "keep"} =>
         taken \in Recordings /\ recording = NoRecording
    /\ upc \in {"spawn", "flag", "joinSampler", "stopped"} =>
         taken = NoRecording /\ recording = NoRecording
    /\ sink # NoRecording =>
         sink = recording \/ (sink = taken /\ upc \in {"clear", "keep"})
    /\ recording # NoRecording => open[recording]
    /\ upc \in {"clear", "close", "store", "keep"} => open[taken]
    /\ upc = "store" => loaded # taken /\ offered[taken] = <<>>
    /\ upc \in {"count", "join"} => ~open[taken]
    /\ upc = "join" => seen = dropped[taken]

\* A sink is held by the sampler thread only between LoadSink and Offer.
SamplerInv ==
    /\ spc = "offer" => loaded \in Recordings
    /\ spc # "offer" => loaded = NoRecording
    /\ spc \in {"load", "offer"} => tick >= 1

\* A recording that was not started has no trace anywhere.
UnusedInv(r) ==
    wpc[r] = "none" =>
        /\ r \notin {sink, loaded, recording, taken}
        /\ ~open[r] /\ ~failed[r] /\ dropped[r] = 0
        /\ queue[r] = <<>> /\ held[r] = <<>> /\ file[r] = <<>> /\ offered[r] = <<>>
        /\ wresult[r] = "none" /\ result[r].kind = "none"

\* Only the recording the owner holds is open or has a running writer.
HeldInv(r) ==
    /\ wpc[r] \notin {"none", "done"} => r \in {recording, taken}
    /\ open[r] => \/ r = recording
                  \/ r = taken /\ upc \in {"clear", "close", "store", "keep"}

\* Where the writer thread is, and what that says of its channel.
WriterInv(r) ==
    /\ wpc[r] = "write" => Len(held[r]) = 1
    /\ wpc[r] # "write" => held[r] = <<>>
    /\ wpc[r] = "finish" => ~open[r] /\ queue[r] = <<>>
    /\ failed[r] => wpc[r] \in {"abort", "done"} /\ wresult[r] # "ok"
    /\ wpc[r] = "abort" => failed[r]
    /\ wpc[r] = "done" /\ ~failed[r] => ~open[r] /\ queue[r] = <<>>
    /\ wresult[r] = "ok" => wpc[r] = "done" /\ ~failed[r]

\* Every offered tick is in the file, held, queued or counted.
CountInv(r) ==
    ~failed[r] =>
        Len(file[r]) + Len(held[r]) + Len(queue[r]) + dropped[r] = Len(offered[r])

\* Offered ticks are consecutive, and the last is as recent as the sampler's
\* position allows.
OrderInv(r) ==
    /\ \A i \in 1..Len(offered[r]) : offered[r][i] = offered[r][1] + i - 1
    /\ offered[r] # <<>> =>
         LET last == offered[r][Len(offered[r])] IN
         /\ loaded = r => last = tick - 1
         /\ sink = r /\ spc = "load" => last = tick - 1
         /\ sink = r /\ spc = "offer" => loaded = r
         /\ sink = r /\ spc \notin {"load", "offer"} => last = tick

\* What was reported stays right because the recording is closed.
ResultInv(r) ==
    result[r].kind = "ok" =>
        /\ ~open[r]
        /\ result[r].frames + result[r].dropped = Len(offered[r])

Inv ==
    /\ TypeOK
    /\ OwnerInv
    /\ SamplerInv
    /\ \A r \in Recordings :
         /\ UnusedInv(r) /\ HeldInv(r) /\ WriterInv(r)
         /\ CountInv(r) /\ OrderInv(r) /\ ResultInv(r)

\* A sequence of ticks has a length, and numbers for elements.
LEMMA TicksSeq ==
  ASSUME NEW q \in Seq(Ticks)
  PROVE  /\ Len(q) \in Nat
         /\ \A i \in 1..Len(q) : q[i] \in Nat
<1>1. Len(q) \in Nat
  BY LenProperties
<1>2. ASSUME NEW i \in 1..Len(q) PROVE q[i] \in Nat
  <2>1. q[i] \in Ticks
    BY ElementOfSeq
  <2> QED BY <2>1, BoundsAssumption DEF Ticks
<1> QED BY <1>1, <1>2

\* The invariant holds at the beginning.
LEMMA InitInv == Init => Inv
<1> SUFFICES ASSUME Init PROVE Inv
  OBVIOUS
<1>1. TypeOK
  <2>1. /\ queue \in [Recordings -> Seq(Ticks)] /\ held \in [Recordings -> Seq(Ticks)]
        /\ file \in [Recordings -> Seq(Ticks)] /\ offered \in [Recordings -> Seq(Ticks)]
    BY EmptySeq DEF Init
  <2>2. \A r \in Recordings : Len(queue[r]) <= QUEUE
    BY QueueAssumption DEF Init
  <2>3. result \in [Recordings -> Results]
    BY DEF Init, Results, NoResult
  <2>4. /\ current \in 0..MaxTick /\ tick \in 0..MaxTick /\ errors \in -1..MaxErrors
        /\ seen \in Nat
    BY BoundsAssumption DEF Init
  <2>5. /\ dropped \in [Recordings -> Nat] /\ frames \in [Recordings -> Nat]
        /\ open \in [Recordings -> BOOLEAN] /\ failed \in [Recordings -> BOOLEAN]
    BY DEF Init
  <2> QED BY <2>1, <2>2, <2>3, <2>4, <2>5 DEF Init, TypeOK, Option
<1>2. OwnerInv /\ SamplerInv
  BY DEF Init, OwnerInv, SamplerInv
<1>3. ASSUME NEW r \in Recordings
      PROVE  /\ UnusedInv(r) /\ HeldInv(r) /\ WriterInv(r)
             /\ CountInv(r) /\ OrderInv(r) /\ ResultInv(r)
  BY NoRecordingAssumption DEF Init, UnusedInv, HeldInv, WriterInv, CountInv,
     OrderInv, ResultInv, NoResult
<1> QED BY <1>1, <1>2, <1>3 DEF Inv

-----------------------------------------------------------------------------
(* The sampler thread                                                      *)

\* A step that moves only the sampler thread, outside load and offer, or the
\* published tick, the stop flag or the error count, disturbs nothing.
LEMMA QuietSamplerStep ==
  ASSUME Inv, TypeOK',
         UNCHANGED <<sink, tick, loaded, owner, channel, writer, result, offered>>,
         spc \notin {"load", "offer"}, spc' \notin {"load", "offer"}
  PROVE  Inv'
<1> USE DEF Inv, owner, channel, writer
<1>1. OwnerInv' /\ SamplerInv'
  BY DEF OwnerInv, SamplerInv
<1>2. ASSUME NEW r \in Recordings
      PROVE  UnusedInv(r)' /\ HeldInv(r)' /\ WriterInv(r)'
  BY DEF UnusedInv, HeldInv, WriterInv
<1>3. ASSUME NEW r \in Recordings
      PROVE  CountInv(r)' /\ OrderInv(r)' /\ ResultInv(r)'
  BY DEF CountInv, OrderInv, ResultInv
<1> QED BY <1>1, <1>2, <1>3

\* CheckStop keeps the invariant.
LEMMA CheckStopStep == ASSUME Inv, CheckStop PROVE Inv'
<1> USE DEF Inv, CheckStop, shared, sampler, owner, channel, writer
<1>1. TypeOK'
  BY BoundsAssumption DEF TypeOK
<1> QED BY <1>1, QuietSamplerStep

\* PassFails keeps the invariant.
LEMMA PassFailsStep == ASSUME Inv, PassFails PROVE Inv'
<1> USE DEF Inv, PassFails, shared, sampler, owner, channel, writer
<1>1. TypeOK'
  BY BoundsAssumption DEF TypeOK
<1> QED BY <1>1, QuietSamplerStep

\* PassUnsupported keeps the invariant.
LEMMA PassUnsupportedStep == ASSUME Inv, PassUnsupported PROVE Inv'
<1> USE DEF Inv, PassUnsupported, shared, sampler, owner, channel, writer, Unsupported
<1>1. TypeOK'
  BY BoundsAssumption DEF TypeOK
<1> QED BY <1>1, QuietSamplerStep

\* IdleUntilStopped keeps the invariant.
LEMMA IdleUntilStoppedStep == ASSUME Inv, IdleUntilStopped PROVE Inv'
<1> USE DEF Inv, IdleUntilStopped, shared, sampler, owner, channel, writer
<1>1. TypeOK'
  BY BoundsAssumption DEF TypeOK
<1> QED BY <1>1, QuietSamplerStep

\* Publishing keeps the invariant.
LEMMA PublishStep == ASSUME Inv, Publish PROVE Inv'
<1> USE DEF Inv, Publish, shared, sampler, owner, channel, writer
<1>1. TypeOK'
  BY BoundsAssumption DEF TypeOK
<1> QED BY <1>1, QuietSamplerStep

\* Notify keeps the invariant.
LEMMA NotifyStep == ASSUME Inv, Notify PROVE Inv'
<1> USE DEF Inv, Notify, shared, sampler, owner, channel, writer
<1>1. TypeOK'
  BY BoundsAssumption DEF TypeOK
<1> QED BY <1>1, QuietSamplerStep

\* Sleep keeps the invariant.
LEMMA SleepStep == ASSUME Inv, Sleep PROVE Inv'
<1> USE DEF Inv, Sleep, shared, sampler, owner, channel, writer
<1>1. TypeOK'
  BY BoundsAssumption DEF TypeOK
<1> QED BY <1>1, QuietSamplerStep

\* PassOk keeps the invariant.
LEMMA PassOkStep == ASSUME Inv, PassOk PROVE Inv'
<1> USE BoundsAssumption, NoRecordingAssumption
<1> USE DEF Inv, PassOk, shared, sampler, owner, channel, writer
<1>1. TypeOK'
  BY QueueAssumption DEF TypeOK, OwnerInv, SamplerInv, Option, Ticks
<1>2. OwnerInv' /\ SamplerInv'
  BY DEF TypeOK, OwnerInv, SamplerInv, UnusedInv, HeldInv, Option
<1>3. ASSUME NEW r \in Recordings PROVE UnusedInv(r)' /\ HeldInv(r)'
  BY DEF TypeOK, OwnerInv, SamplerInv, UnusedInv, HeldInv
<1>4. ASSUME NEW r \in Recordings PROVE WriterInv(r)'
  BY DEF TypeOK, UnusedInv, WriterInv
<1>5. ASSUME NEW r \in Recordings PROVE CountInv(r)' /\ ResultInv(r)'
  BY DEF TypeOK, OwnerInv, UnusedInv, CountInv, ResultInv
<1>6. ASSUME NEW r \in Recordings PROVE OrderInv(r)'
  BY DEF TypeOK, OwnerInv, SamplerInv, UnusedInv, OrderInv
<1> QED BY <1>1, <1>2, <1>3, <1>4, <1>5, <1>6

\* LoadSink keeps the invariant.
LEMMA LoadSinkStep == ASSUME Inv, LoadSink PROVE Inv'
<1> USE BoundsAssumption, NoRecordingAssumption
<1> USE DEF Inv, LoadSink, shared, sampler, owner, channel, writer
<1>1. TypeOK'
  BY QueueAssumption DEF TypeOK, OwnerInv, SamplerInv, Option, Ticks
<1>2. OwnerInv' /\ SamplerInv'
  BY DEF TypeOK, OwnerInv, SamplerInv, UnusedInv, HeldInv, Option
<1>3. ASSUME NEW r \in Recordings PROVE UnusedInv(r)' /\ HeldInv(r)'
  BY DEF TypeOK, OwnerInv, SamplerInv, UnusedInv, HeldInv
<1>4. ASSUME NEW r \in Recordings PROVE WriterInv(r)'
  BY DEF TypeOK, UnusedInv, WriterInv
<1>5. ASSUME NEW r \in Recordings PROVE CountInv(r)' /\ ResultInv(r)'
  BY DEF TypeOK, OwnerInv, UnusedInv, CountInv, ResultInv
<1>6. ASSUME NEW r \in Recordings PROVE OrderInv(r)'
  BY DEF TypeOK, OwnerInv, SamplerInv, UnusedInv, OrderInv
<1> QED BY <1>1, <1>2, <1>3, <1>4, <1>5, <1>6

\* Offer keeps the invariant.
LEMMA OfferStep == ASSUME Inv, Offer PROVE Inv'
<1> USE QueueAssumption, BoundsAssumption, NoRecordingAssumption
<1> USE DEF Inv, shared, sampler, owner, writer
<1>1. /\ loaded \in Recordings /\ tick \in Ticks
      /\ spc = "offer" /\ spc' = "publish" /\ loaded' = NoRecording
      /\ UNCHANGED <<shared, tick, owner, open, writer, result>>
  BY DEF TypeOK, SamplerInv, Offer, OfferWith, Ticks
<1>2. CASE ~open[loaded]
  <2>1. UNCHANGED <<queue, dropped, offered>>
    BY <1>2 DEF Offer, OfferWith
  <2>2. TypeOK'
    <3>1. TypeOK
      OBVIOUS
    <3>2. loaded' \in Option /\ spc' = "publish"
      BY ONLY <1>1 DEF Option
    <3> QED
      BY ONLY <1>1, <2>1, <3>1, <3>2
      DEF TypeOK, shared, owner, writer
  <2>3. OwnerInv' /\ SamplerInv'
    BY <1>1, <2>1 DEF OwnerInv, SamplerInv
  <2>4. ASSUME NEW r \in Recordings
        PROVE  UnusedInv(r)' /\ HeldInv(r)' /\ WriterInv(r)' /\ CountInv(r)' /\ ResultInv(r)'
    BY <1>1, <2>1 DEF UnusedInv, HeldInv, WriterInv, CountInv, ResultInv
  <2>5. ASSUME NEW r \in Recordings PROVE OrderInv(r)'
    <3>1. sink = r => offered[r] = <<>>
      BY <1>1, <1>2 DEF OrderInv, OwnerInv
    <3>2. offered' = offered /\ loaded' # r /\ sink' = sink
      BY <1>1, <2>1
    <3> QED BY <3>1, <3>2 DEF OrderInv
  <2> QED BY <2>2, <2>3, <2>4, <2>5
<1>3. CASE open[loaded]
  <2>1. offered' = [offered EXCEPT ![loaded] = Append(@, tick)]
    BY <1>3 DEF Offer, OfferWith
  <2>2. \/ wpc[loaded] = "done" /\ UNCHANGED <<queue, dropped>>
        \/ /\ wpc[loaded] # "done" /\ Len(queue[loaded]) < QUEUE
           /\ queue' = [queue EXCEPT ![loaded] = Append(@, tick)]
           /\ UNCHANGED dropped
        \/ /\ wpc[loaded] # "done"
           /\ dropped' = [dropped EXCEPT ![loaded] = @ + 1]
           /\ UNCHANGED queue
    BY <1>3 DEF Offer, OfferWith, Disconnected, Queued, Full
  <2>3. /\ offered' \in [Recordings -> Seq(Ticks)]
        /\ Len(offered'[loaded]) = Len(offered[loaded]) + 1
        /\ \A i \in 1..Len(offered[loaded]) : offered'[loaded][i] = offered[loaded][i]
        /\ offered'[loaded][Len(offered[loaded]) + 1] = tick
        /\ \A r \in Recordings \ {loaded} : offered'[r] = offered[r]
    BY <1>1, <2>1 DEF TypeOK
  <2>4. /\ queue' \in [Recordings -> Seq(Ticks)]
        /\ \A r \in Recordings : Len(queue'[r]) <= QUEUE
        /\ dropped' \in [Recordings -> Nat]
        /\ wpc[loaded] # "done" => Len(queue'[loaded]) + dropped'[loaded]
                                     = Len(queue[loaded]) + dropped[loaded] + 1
        /\ \A r \in Recordings \ {loaded} : queue'[r] = queue[r] /\ dropped'[r] = dropped[r]
    <3>1. CASE wpc[loaded] = "done" /\ UNCHANGED <<queue, dropped>>
      BY <3>1 DEF TypeOK
    <3>2. CASE /\ wpc[loaded] # "done" /\ Len(queue[loaded]) < QUEUE
               /\ queue' = [queue EXCEPT ![loaded] = Append(@, tick)]
               /\ UNCHANGED dropped
      <4>1. queue[loaded] \in Seq(Ticks) /\ dropped \in [Recordings -> Nat]
        BY <1>1 DEF TypeOK
      <4>2. queue'[loaded] = Append(queue[loaded], tick)
        BY <1>1, <3>2 DEF TypeOK
      <4>3. Len(queue'[loaded]) = Len(queue[loaded]) + 1
        BY ONLY <1>1, <4>1, <4>2, AppendProperties
      <4>4. Len(queue[loaded]) \in Nat
        BY ONLY <4>1, TicksSeq
      <4>5. Append(queue[loaded], tick) \in Seq(Ticks)
        BY ONLY <1>1, <4>1, AppendProperties
      <4>6. queue' \in [Recordings -> Seq(Ticks)]
        BY <1>1, <3>2, <4>5 DEF TypeOK
      <4>7. \A r \in Recordings \ {loaded} : queue'[r] = queue[r]
        BY <1>1, <3>2 DEF TypeOK
      <4>8. ASSUME NEW r \in Recordings PROVE Len(queue'[r]) <= QUEUE
        <5>1. CASE r = loaded
          BY <3>2, <4>3, <4>4, <5>1
        <5>2. CASE r # loaded
          BY <4>7, <5>2 DEF TypeOK
        <5> QED BY <5>1, <5>2
      <4>9. Len(queue'[loaded]) + dropped'[loaded] = Len(queue[loaded]) + dropped[loaded] + 1
        <5> DEFINE q == Len(queue[loaded])
                   d == dropped[loaded]
        <5>1. q \in Nat /\ d \in Nat /\ Len(queue'[loaded]) = q + 1 /\ dropped'[loaded] = d
          BY <1>1, <3>2, <4>1, <4>3, <4>4
        <5> HIDE DEF q, d
        <5>2. (q + 1) + d = q + d + 1
          BY ONLY <5>1
        <5> QED BY <5>1, <5>2 DEF q, d
      <4> QED BY <3>2, <4>1, <4>6, <4>7, <4>8, <4>9
    <3>3. CASE /\ wpc[loaded] # "done"
               /\ dropped' = [dropped EXCEPT ![loaded] = @ + 1]
               /\ UNCHANGED queue
      <4>1. dropped[loaded] \in Nat /\ dropped'[loaded] = dropped[loaded] + 1
        BY <1>1, <3>3 DEF TypeOK
      <4>2. Len(queue[loaded]) \in Nat
        BY <1>1 DEF TypeOK
      <4> QED BY <1>1, <3>3, <4>1, <4>2 DEF TypeOK
    <3> QED BY <2>2, <3>1, <3>2, <3>3
  <2>5. TypeOK'
    <3>1. TypeOK
      OBVIOUS
    <3>2. loaded' \in Option /\ spc' = "publish"
      BY ONLY <1>1 DEF Option
    <3> QED
      BY ONLY <1>1, <2>3, <2>4, <3>1, <3>2
      DEF TypeOK, shared, owner, writer
  <2>6. OwnerInv' /\ SamplerInv'
    BY <1>1, <1>3, <2>3, <2>4 DEF OwnerInv, SamplerInv, HeldInv
  <2>7. ASSUME NEW r \in Recordings PROVE UnusedInv(r)' /\ HeldInv(r)'
    BY <1>1, <1>3, <2>3, <2>4 DEF UnusedInv, HeldInv
  <2>8. ASSUME NEW r \in Recordings PROVE WriterInv(r)'
    BY <1>1, <1>3, <2>3, <2>4 DEF WriterInv, TypeOK
  <2>9. ASSUME NEW r \in Recordings PROVE CountInv(r)'
    <3>1. wpc[loaded] = "done" => failed[loaded]
      BY <1>1, <1>3 DEF WriterInv
    <3>2. CASE r = loaded
      <4> SUFFICES ASSUME ~failed[loaded]
                   PROVE  Len(file[loaded]) + Len(held[loaded])
                            + Len(queue'[loaded]) + dropped'[loaded]
                            = Len(offered'[loaded])
        BY <1>1, <3>2 DEF CountInv
      <4> DEFINE f == Len(file[loaded])
                 h == Len(held[loaded])
                 q == Len(queue[loaded])
                 d == dropped[loaded]
                 o == Len(offered[loaded])
                 newQ == Len(queue'[loaded])
                 newD == dropped'[loaded]
      <4>1. /\ f \in Nat /\ h \in Nat /\ q \in Nat /\ newQ \in Nat
            /\ d \in Nat /\ newD \in Nat /\ o \in Nat
        BY <1>1, <2>4, TicksSeq DEF TypeOK
      <4>2. f + h + q + d = o
        BY <1>1 DEF CountInv
      <4>3. newQ + newD = q + d + 1
        BY <2>4, <3>1
      <4> HIDE DEF f, h, q, d, o, newQ, newD
      <4>4. f + h + newQ + newD = o + 1
        BY ONLY <4>1, <4>2, <4>3
      <4> QED BY <2>3, <4>4 DEF f, h, o, newQ, newD
    <3>3. CASE r # loaded
      BY <1>1, <2>3, <2>4, <3>3 DEF CountInv
    <3> QED BY <3>2, <3>3
  <2>10. ASSUME NEW r \in Recordings PROVE OrderInv(r)'
    <3>1. CASE r = loaded
      <4>1. ASSUME NEW i \in 1..Len(offered'[loaded])
            PROVE  offered'[loaded][i] = offered'[loaded][1] + i - 1
        <5>1. CASE Len(offered[loaded]) = 0
          BY <1>1, <2>3, <5>1 DEF Ticks
        <5>2. CASE Len(offered[loaded]) # 0
          <6>1. /\ offered[loaded] # <<>> /\ Len(offered[loaded]) \in Nat \ {0}
                /\ offered[loaded][Len(offered[loaded])] = tick - 1
            BY <1>1, <5>2 DEF OrderInv, TypeOK
          <6>2. tick - 1 = offered[loaded][1] + Len(offered[loaded]) - 1
            BY <1>1, <6>1 DEF OrderInv
          <6>3. offered[loaded][1] \in Nat
            <7>1. offered[loaded] \in Seq(Ticks)
              BY <1>1 DEF TypeOK
            <7>2. 1 \in 1..Len(offered[loaded])
              BY ONLY <6>1
            <7> QED BY ONLY <7>1, <7>2, TicksSeq
          <6>4. offered'[loaded][1] = offered[loaded][1]
            BY <2>3, <6>1
          <6>5. CASE i = Len(offered[loaded]) + 1
            <7> DEFINE first == offered[loaded][1]
                       len == Len(offered[loaded])
            <7>1. first \in Nat /\ len \in Nat /\ tick \in Nat
                  /\ tick - 1 = first + len - 1
              BY <1>1, <6>1, <6>2, <6>3, BoundsAssumption DEF Ticks
            <7>2. /\ offered'[loaded][i] = tick /\ offered'[loaded][1] = first
                  /\ i = len + 1
              BY <2>3, <6>4, <6>5
            <7> HIDE DEF first, len
            <7>3. tick = first + i - 1
              BY ONLY <7>1, <7>2
            <7> QED BY <7>2, <7>3
          <6>6. CASE i \in 1..Len(offered[loaded])
            BY <1>1, <2>3, <6>4, <6>6 DEF OrderInv
          <6>7. i = Len(offered[loaded]) + 1 \/ i \in 1..Len(offered[loaded])
            BY <2>3, <6>1
          <6> QED BY <6>5, <6>6, <6>7
        <5> QED BY <5>1, <5>2
      <4>2. offered'[loaded][Len(offered'[loaded])] = tick'
        BY <1>1, <2>3
      <4> QED BY <1>1, <3>1, <4>1, <4>2 DEF OrderInv
    <3>2. CASE r # loaded
      BY <1>1, <2>3, <3>2 DEF OrderInv, OwnerInv, HeldInv
    <3> QED BY <3>1, <3>2
  <2>11. ASSUME NEW r \in Recordings PROVE ResultInv(r)'
    BY <1>1, <1>3, <2>3 DEF ResultInv
  <2> QED BY <2>5, <2>6, <2>7, <2>8, <2>9, <2>10, <2>11
<1> QED BY <1>2, <1>3

-----------------------------------------------------------------------------
(* The owner                                                               *)

\* A call of the owner's begins without disturbing the invariant.
LEMMA CallStep ==
  ASSUME Inv, NEW call \in {"record_to", "stop_recording", "stop"}, Call(call)
  PROVE  Inv'
<1> USE DEF Inv, Call, shared, sampler, channel, writer
<1>1. TypeOK'
  BY DEF TypeOK
<1>2. OwnerInv' /\ SamplerInv'
  BY DEF OwnerInv, SamplerInv
<1>3. ASSUME NEW r \in Recordings
      PROVE  /\ UnusedInv(r)' /\ HeldInv(r)' /\ WriterInv(r)'
             /\ CountInv(r)' /\ OrderInv(r)' /\ ResultInv(r)'
  BY DEF UnusedInv, HeldInv, WriterInv, CountInv, OrderInv, ResultInv
<1> QED BY <1>1, <1>2, <1>3

\* TakeWriter keeps the invariant.
LEMMA TakeWriterStep == ASSUME Inv, TakeWriter PROVE Inv'
<1> USE BoundsAssumption, NoRecordingAssumption
<1> USE DEF Inv, TakeWriter, shared, sampler, owner, channel, writer, AfterStopRecording
<1>1. TypeOK'
  BY QueueAssumption DEF TypeOK, OwnerInv, SamplerInv, Option, Ticks
<1>2. OwnerInv' /\ SamplerInv'
  BY DEF TypeOK, OwnerInv, SamplerInv, UnusedInv, HeldInv, Option
<1>3. ASSUME NEW r \in Recordings PROVE UnusedInv(r)' /\ HeldInv(r)'
  BY DEF TypeOK, OwnerInv, SamplerInv, UnusedInv, HeldInv
<1>4. ASSUME NEW r \in Recordings PROVE WriterInv(r)'
  BY DEF TypeOK, UnusedInv, WriterInv
<1>5. ASSUME NEW r \in Recordings PROVE CountInv(r)' /\ ResultInv(r)'
  BY DEF TypeOK, OwnerInv, UnusedInv, CountInv, ResultInv
<1>6. ASSUME NEW r \in Recordings PROVE OrderInv(r)'
  BY DEF TypeOK, OwnerInv, SamplerInv, UnusedInv, OrderInv
<1> QED BY <1>1, <1>2, <1>3, <1>4, <1>5, <1>6

\* ClearSink keeps the invariant.
LEMMA ClearSinkStep == ASSUME Inv, ClearSink PROVE Inv'
<1> USE BoundsAssumption, NoRecordingAssumption
<1> USE DEF Inv, ClearSink, shared, sampler, owner, channel, writer
<1>1. TypeOK'
  BY QueueAssumption DEF TypeOK, OwnerInv, SamplerInv, Option, Ticks
<1>2. OwnerInv' /\ SamplerInv'
  BY DEF TypeOK, OwnerInv, SamplerInv, UnusedInv, HeldInv, Option
<1>3. ASSUME NEW r \in Recordings PROVE UnusedInv(r)' /\ HeldInv(r)'
  BY DEF TypeOK, OwnerInv, SamplerInv, UnusedInv, HeldInv
<1>4. ASSUME NEW r \in Recordings PROVE WriterInv(r)'
  BY DEF TypeOK, UnusedInv, WriterInv
<1>5. ASSUME NEW r \in Recordings PROVE CountInv(r)' /\ ResultInv(r)'
  BY DEF TypeOK, OwnerInv, UnusedInv, CountInv, ResultInv
<1>6. ASSUME NEW r \in Recordings PROVE OrderInv(r)'
  BY DEF TypeOK, OwnerInv, SamplerInv, UnusedInv, OrderInv
<1> QED BY <1>1, <1>2, <1>3, <1>4, <1>5, <1>6

\* CloseSink keeps the invariant.
LEMMA CloseSinkStep == ASSUME Inv, CloseSink PROVE Inv'
<1> USE BoundsAssumption, NoRecordingAssumption
<1> USE DEF Inv, CloseSink, shared, sampler, owner, channel, writer
<1>1. TypeOK'
  BY QueueAssumption DEF TypeOK, OwnerInv, SamplerInv, Option, Ticks
<1>2. OwnerInv' /\ SamplerInv'
  BY DEF TypeOK, OwnerInv, SamplerInv, UnusedInv, HeldInv, Option
<1>3. ASSUME NEW r \in Recordings PROVE UnusedInv(r)' /\ HeldInv(r)'
  BY DEF TypeOK, OwnerInv, SamplerInv, UnusedInv, HeldInv
<1>4. ASSUME NEW r \in Recordings PROVE WriterInv(r)'
  BY DEF TypeOK, UnusedInv, WriterInv
<1>5. ASSUME NEW r \in Recordings PROVE CountInv(r)' /\ ResultInv(r)'
  BY DEF TypeOK, OwnerInv, UnusedInv, CountInv, ResultInv
<1>6. ASSUME NEW r \in Recordings PROVE OrderInv(r)'
  BY DEF TypeOK, OwnerInv, SamplerInv, UnusedInv, OrderInv
<1> QED BY <1>1, <1>2, <1>3, <1>4, <1>5, <1>6

\* ReadDropped keeps the invariant.
LEMMA ReadDroppedStep == ASSUME Inv, ReadDropped PROVE Inv'
<1> USE BoundsAssumption, NoRecordingAssumption
<1> USE DEF Inv, ReadDropped, shared, sampler, owner, channel, writer
<1>1. TypeOK'
  BY QueueAssumption DEF TypeOK, OwnerInv, SamplerInv, Option, Ticks
<1>2. OwnerInv' /\ SamplerInv'
  BY DEF TypeOK, OwnerInv, SamplerInv, UnusedInv, HeldInv, Option
<1>3. ASSUME NEW r \in Recordings PROVE UnusedInv(r)' /\ HeldInv(r)'
  BY DEF TypeOK, OwnerInv, SamplerInv, UnusedInv, HeldInv
<1>4. ASSUME NEW r \in Recordings PROVE WriterInv(r)'
  BY DEF TypeOK, UnusedInv, WriterInv
<1>5. ASSUME NEW r \in Recordings PROVE CountInv(r)' /\ ResultInv(r)'
  BY DEF TypeOK, OwnerInv, UnusedInv, CountInv, ResultInv
<1>6. ASSUME NEW r \in Recordings PROVE OrderInv(r)'
  BY DEF TypeOK, OwnerInv, SamplerInv, UnusedInv, OrderInv
<1> QED BY <1>1, <1>2, <1>3, <1>4, <1>5, <1>6

\* JoinWriter keeps the invariant.
LEMMA JoinWriterStep == ASSUME Inv, JoinWriter PROVE Inv'
<1> USE QueueAssumption, BoundsAssumption, NoRecordingAssumption
<1> USE DEF Inv, shared, sampler, owner, channel, writer
<1>1. /\ upc = "join" /\ taken \in Recordings /\ wpc[taken] = "done"
      /\ upc' \in {"spawn", "flag", "ready"}
      /\ taken' = NoRecording /\ seen' = 0
      /\ UNCHANGED <<shared, sampler, op, recording, channel, writer, offered>>
  BY DEF JoinWriter, OwnerInv, AfterStopRecording
<1>2. \A r \in Recordings \ {taken} : result'[r] = result[r]
  BY DEF JoinWriter, TypeOK
<1>3. \/ result'[taken] = [kind |-> "err"]
      \/ /\ wresult[taken] = "ok"
         /\ result'[taken] = [kind |-> "ok", frames |-> Len(file[taken]),
                              dropped |-> dropped[taken]]
  BY <1>1 DEF JoinWriter, TypeOK, OwnerInv
<1>4. result'[taken] \in Results
  BY <1>1, <1>3 DEF TypeOK, Results
<1>5. TypeOK'
  <2>1. result' \in [Recordings -> Results]
    BY <1>4 DEF JoinWriter, TypeOK
  <2>2. TypeOK
    OBVIOUS
  <2>3. taken' \in Option
    BY ONLY <1>1 DEF Option
  <2> QED
    BY ONLY <1>1, <2>1, <2>2, <2>3
    DEF TypeOK, shared, sampler, channel, writer
<1>6. OwnerInv' /\ SamplerInv'
  BY <1>1 DEF OwnerInv, SamplerInv
<1>7. ASSUME NEW r \in Recordings
      PROVE  UnusedInv(r)' /\ HeldInv(r)' /\ WriterInv(r)'
  <2>1. UnusedInv(r)'
    BY <1>1, <1>2 DEF UnusedInv, TypeOK
  <2>2. HeldInv(r)'
    BY <1>1 DEF HeldInv
  <2>3. WriterInv(r)'
    BY <1>1 DEF WriterInv
  <2> QED BY ONLY <2>1, <2>2, <2>3
<1>8. ASSUME NEW r \in Recordings PROVE CountInv(r)' /\ OrderInv(r)'
  BY <1>1 DEF CountInv, OrderInv
<1>9. ASSUME NEW r \in Recordings PROVE ResultInv(r)'
  <2>1. CASE r = taken /\ wresult[taken] = "ok"
    <3>1. ~failed[taken] /\ queue[taken] = <<>> /\ held[taken] = <<>> /\ ~open[taken]
      BY <1>1, <2>1 DEF WriterInv
    <3>2. Len(file[taken]) + dropped[taken] = Len(offered[taken])
      <4>1. Len(file[taken]) + Len(held[taken]) + Len(queue[taken]) + dropped[taken]
              = Len(offered[taken])
        BY <1>1, <3>1 DEF CountInv
      <4>2. /\ Len(file[taken]) \in Nat /\ dropped[taken] \in Nat
            /\ Len(held[taken]) = 0 /\ Len(queue[taken]) = 0
        BY <1>1, <3>1, TicksSeq DEF TypeOK
      <4> QED BY ONLY <4>1, <4>2
    <3> QED BY <1>1, <1>3, <2>1, <3>1, <3>2 DEF ResultInv
  <2>2. CASE r = taken /\ wresult[taken] # "ok"
    BY <1>1, <1>3, <2>2 DEF ResultInv
  <2>3. CASE r # taken
    BY <1>1, <1>2, <2>3 DEF ResultInv
  <2> QED BY <2>1, <2>2, <2>3
<1> QED BY <1>5, <1>6, <1>7, <1>8, <1>9

\* SpawnWriter keeps the invariant.
LEMMA SpawnWriterStep == ASSUME Inv, SpawnWriter PROVE Inv'
<1> USE BoundsAssumption, NoRecordingAssumption
<1> USE DEF Inv, SpawnWriter, shared, sampler, owner, channel, writer
<1>1. TypeOK'
  BY QueueAssumption DEF TypeOK, OwnerInv, SamplerInv, Option, Ticks
<1>2. OwnerInv' /\ SamplerInv'
  BY DEF TypeOK, OwnerInv, SamplerInv, UnusedInv, HeldInv, Option
<1>3. ASSUME NEW r \in Recordings PROVE UnusedInv(r)' /\ HeldInv(r)'
  BY DEF TypeOK, OwnerInv, SamplerInv, UnusedInv, HeldInv
<1>4. ASSUME NEW r \in Recordings PROVE WriterInv(r)'
  BY DEF TypeOK, UnusedInv, WriterInv
<1>5. ASSUME NEW r \in Recordings PROVE CountInv(r)' /\ ResultInv(r)'
  BY DEF TypeOK, OwnerInv, UnusedInv, CountInv, ResultInv
<1>6. ASSUME NEW r \in Recordings PROVE OrderInv(r)'
  BY DEF TypeOK, OwnerInv, SamplerInv, UnusedInv, OrderInv
<1> QED BY <1>1, <1>2, <1>3, <1>4, <1>5, <1>6

\* StoreSink keeps the invariant.
LEMMA StoreSinkStep == ASSUME Inv, StoreSink PROVE Inv'
<1> USE BoundsAssumption, NoRecordingAssumption
<1> USE DEF Inv, StoreSink, shared, sampler, owner, channel, writer
<1>1. TypeOK'
  BY QueueAssumption DEF TypeOK, OwnerInv, SamplerInv, Option, Ticks
<1>2. OwnerInv' /\ SamplerInv'
  BY DEF TypeOK, OwnerInv, SamplerInv, UnusedInv, HeldInv, Option
<1>3. ASSUME NEW r \in Recordings PROVE UnusedInv(r)' /\ HeldInv(r)'
  BY DEF TypeOK, OwnerInv, SamplerInv, UnusedInv, HeldInv
<1>4. ASSUME NEW r \in Recordings PROVE WriterInv(r)'
  BY DEF TypeOK, UnusedInv, WriterInv
<1>5. ASSUME NEW r \in Recordings PROVE CountInv(r)' /\ ResultInv(r)'
  BY DEF TypeOK, OwnerInv, UnusedInv, CountInv, ResultInv
<1>6. ASSUME NEW r \in Recordings PROVE OrderInv(r)'
  BY DEF TypeOK, OwnerInv, SamplerInv, UnusedInv, OrderInv
<1> QED BY <1>1, <1>2, <1>3, <1>4, <1>5, <1>6

\* KeepWriter keeps the invariant.
LEMMA KeepWriterStep == ASSUME Inv, KeepWriter PROVE Inv'
<1> USE BoundsAssumption, NoRecordingAssumption
<1> USE DEF Inv, KeepWriter, shared, sampler, owner, channel, writer
<1>1. TypeOK'
  BY QueueAssumption DEF TypeOK, OwnerInv, SamplerInv, Option, Ticks
<1>2. OwnerInv' /\ SamplerInv'
  BY DEF TypeOK, OwnerInv, SamplerInv, UnusedInv, HeldInv, Option
<1>3. ASSUME NEW r \in Recordings PROVE UnusedInv(r)' /\ HeldInv(r)'
  BY DEF TypeOK, OwnerInv, SamplerInv, UnusedInv, HeldInv
<1>4. ASSUME NEW r \in Recordings PROVE WriterInv(r)'
  BY DEF TypeOK, UnusedInv, WriterInv
<1>5. ASSUME NEW r \in Recordings PROVE CountInv(r)' /\ ResultInv(r)'
  BY DEF TypeOK, OwnerInv, UnusedInv, CountInv, ResultInv
<1>6. ASSUME NEW r \in Recordings PROVE OrderInv(r)'
  BY DEF TypeOK, OwnerInv, SamplerInv, UnusedInv, OrderInv
<1> QED BY <1>1, <1>2, <1>3, <1>4, <1>5, <1>6

\* SetStop keeps the invariant.
LEMMA SetStopStep == ASSUME Inv, SetStop PROVE Inv'
<1> USE BoundsAssumption, NoRecordingAssumption
<1> USE DEF Inv, SetStop, shared, sampler, owner, channel, writer
<1>1. TypeOK'
  BY QueueAssumption DEF TypeOK, OwnerInv, SamplerInv, Option, Ticks
<1>2. OwnerInv' /\ SamplerInv'
  BY DEF TypeOK, OwnerInv, SamplerInv, UnusedInv, HeldInv, Option
<1>3. ASSUME NEW r \in Recordings PROVE UnusedInv(r)' /\ HeldInv(r)'
  BY DEF TypeOK, OwnerInv, SamplerInv, UnusedInv, HeldInv
<1>4. ASSUME NEW r \in Recordings PROVE WriterInv(r)'
  BY DEF TypeOK, UnusedInv, WriterInv
<1>5. ASSUME NEW r \in Recordings PROVE CountInv(r)' /\ ResultInv(r)'
  BY DEF TypeOK, OwnerInv, UnusedInv, CountInv, ResultInv
<1>6. ASSUME NEW r \in Recordings PROVE OrderInv(r)'
  BY DEF TypeOK, OwnerInv, SamplerInv, UnusedInv, OrderInv
<1> QED BY <1>1, <1>2, <1>3, <1>4, <1>5, <1>6

\* JoinSampler keeps the invariant.
LEMMA JoinSamplerStep == ASSUME Inv, JoinSampler PROVE Inv'
<1> USE BoundsAssumption, NoRecordingAssumption
<1> USE DEF Inv, JoinSampler, shared, sampler, owner, channel, writer
<1>1. TypeOK'
  BY QueueAssumption DEF TypeOK, OwnerInv, SamplerInv, Option, Ticks
<1>2. OwnerInv' /\ SamplerInv'
  BY DEF TypeOK, OwnerInv, SamplerInv, UnusedInv, HeldInv, Option
<1>3. ASSUME NEW r \in Recordings PROVE UnusedInv(r)' /\ HeldInv(r)'
  BY DEF TypeOK, OwnerInv, SamplerInv, UnusedInv, HeldInv
<1>4. ASSUME NEW r \in Recordings PROVE WriterInv(r)'
  BY DEF TypeOK, UnusedInv, WriterInv
<1>5. ASSUME NEW r \in Recordings PROVE CountInv(r)' /\ ResultInv(r)'
  BY DEF TypeOK, OwnerInv, UnusedInv, CountInv, ResultInv
<1>6. ASSUME NEW r \in Recordings PROVE OrderInv(r)'
  BY DEF TypeOK, OwnerInv, SamplerInv, UnusedInv, OrderInv
<1> QED BY <1>1, <1>2, <1>3, <1>4, <1>5, <1>6

-----------------------------------------------------------------------------
(* The writer threads                                                      *)

\* Receive keeps the invariant.
LEMMA ReceiveStep == ASSUME Inv, NEW s \in Recordings, Receive(s) PROVE Inv'
<1> USE QueueAssumption, BoundsAssumption, NoRecordingAssumption
<1> USE DEF Inv, shared, sampler, owner
<1>1. /\ wpc[s] = "receive" /\ wpc' = [wpc EXCEPT ![s] = "write"]
      /\ UNCHANGED <<shared, sampler, owner, open, dropped, frames, failed,
                     file, wresult, result, offered>>
  BY DEF Receive
<1>2. /\ queue' \in [Recordings -> Seq(Ticks)]
      /\ Len(queue[s]) > 0 /\ Len(queue'[s]) = Len(queue[s]) - 1
      /\ \A r \in Recordings \ {s} : queue'[r] = queue[r]
  BY DEF Receive, TypeOK
<1>3. /\ held' \in [Recordings -> Seq(Ticks)]
      /\ Len(held'[s]) = 1
      /\ \A r \in Recordings \ {s} : held'[r] = held[r]
  <2>1. Head(queue[s]) \in Ticks
    BY DEF Receive, TypeOK
  <2> QED BY <2>1 DEF Receive, TypeOK
<1>4. TypeOK'
  <2>1. ASSUME NEW r \in Recordings PROVE Len(queue'[r]) <= QUEUE
    <3>1. Len(queue[s]) \in Nat /\ Len(queue[s]) <= QUEUE
      BY TicksSeq DEF TypeOK
    <3>2. CASE r = s
      BY <1>2, <3>1, <3>2
    <3>3. CASE r # s
      BY <1>2, <3>3 DEF TypeOK
    <3> QED BY <3>2, <3>3
  <2>2. wpc' \in [Recordings -> {"none", "receive", "write", "stats", "finish",
                                "abort", "done"}]
    BY <1>1 DEF TypeOK
  <2>3. TypeOK
    OBVIOUS
  <2> QED
    BY ONLY <1>1, <1>2, <1>3, <2>1, <2>2, <2>3
    DEF TypeOK, shared, sampler, owner
<1>5. OwnerInv' /\ SamplerInv'
  BY <1>1 DEF OwnerInv, SamplerInv
<1>6. ASSUME NEW r \in Recordings
      PROVE  UnusedInv(r)' /\ HeldInv(r)' /\ WriterInv(r)' /\ CountInv(r)'
  <2>1. CASE r = s
    <3>1. wpc'[s] = "write" /\ wpc[s] = "receive"
      BY <1>1 DEF TypeOK
    <3> UnusedInv(s) /\ HeldInv(s) /\ WriterInv(s)
      OBVIOUS
    <3>3. held[s] = <<>> /\ ~failed[s]
      BY <3>1 DEF WriterInv
    <3>5. UnusedInv(s)'
      BY ONLY <3>1 DEF UnusedInv
    <3>6. HeldInv(s)'
      BY ONLY HeldInv(s), <1>1, <3>1 DEF HeldInv, shared, sampler, owner
    <3>7. WriterInv(s)'
      BY ONLY WriterInv(s), <1>1, <1>3, <3>1, <3>3 DEF WriterInv
    <3>4. CountInv(s)'
      <4> DEFINE f == Len(file[s])
                 q == Len(queue[s])
                 h == Len(held[s])
                 d == dropped[s]
                 o == Len(offered[s])
      <4>1. f \in Nat /\ q \in Nat /\ d \in Nat /\ o \in Nat /\ h = 0
        BY <3>3, TicksSeq DEF TypeOK
      <4>2. f + h + q + d = o
        BY <3>3 DEF CountInv
      <4>3. /\ Len(file'[s]) = f /\ Len(held'[s]) = 1 /\ Len(queue'[s]) = q - 1
            /\ dropped'[s] = d /\ Len(offered'[s]) = o
        BY <1>1, <1>2, <1>3
      <4> HIDE DEF f, q, h, d, o
      <4>4. f + 1 + (q - 1) + d = o
        BY ONLY <4>1, <4>2
      <4> QED BY <4>3, <4>4 DEF CountInv
    <3> QED BY ONLY <2>1, <3>4, <3>5, <3>6, <3>7
  <2>2. CASE r # s
    <3>1. wpc'[r] = wpc[r] /\ queue'[r] = queue[r] /\ held'[r] = held[r]
      BY <1>1, <1>2, <1>3, <2>2 DEF TypeOK
    <3>2. UnusedInv(r) /\ HeldInv(r) /\ WriterInv(r) /\ CountInv(r)
      OBVIOUS
    <3>3. UnusedInv(r)'
      BY ONLY <1>1, <3>1, <3>2 DEF UnusedInv, shared, sampler, owner
    <3>4. HeldInv(r)'
      BY ONLY <1>1, <3>1, <3>2 DEF HeldInv, shared, sampler, owner
    <3>5. WriterInv(r)'
      BY ONLY <1>1, <3>1, <3>2 DEF WriterInv
    <3>6. CountInv(r)'
      BY ONLY <1>1, <3>1, <3>2 DEF CountInv
    <3> QED BY ONLY <3>3, <3>4, <3>5, <3>6
  <2> QED BY <2>1, <2>2
<1>7. ASSUME NEW r \in Recordings PROVE OrderInv(r)' /\ ResultInv(r)'
  BY <1>1 DEF OrderInv, ResultInv
<1> QED BY <1>4, <1>5, <1>6, <1>7

\* ReceiveEnds keeps the invariant.
LEMMA ReceiveEndsStep == ASSUME Inv, NEW s \in Recordings, ReceiveEnds(s) PROVE Inv'
<1> USE BoundsAssumption, NoRecordingAssumption
<1> USE DEF Inv, ReceiveEnds, shared, sampler, owner, channel, writer
<1>1. TypeOK'
  BY DEF TypeOK
<1>2. OwnerInv' /\ SamplerInv'
  BY DEF OwnerInv, SamplerInv
<1>3. ASSUME NEW r \in Recordings PROVE UnusedInv(r)' /\ HeldInv(r)'
  BY DEF TypeOK, WriterInv, UnusedInv, HeldInv
<1>4. ASSUME NEW r \in Recordings PROVE WriterInv(r)'
  BY DEF TypeOK, UnusedInv, WriterInv
<1>5. ASSUME NEW r \in Recordings PROVE CountInv(r)' /\ ResultInv(r)'
  BY DEF TypeOK, CountInv, ResultInv
<1>6. ASSUME NEW r \in Recordings PROVE OrderInv(r)'
  BY DEF OrderInv
<1> QED BY <1>1, <1>2, <1>3, <1>4, <1>5, <1>6

\* Write keeps the invariant.
LEMMA WriteStep == ASSUME Inv, NEW s \in Recordings, Write(s) PROVE Inv'
<1> USE BoundsAssumption, NoRecordingAssumption
<1> USE DEF Inv, Write, shared, sampler, owner, channel, writer
<1>1. TypeOK'
  BY DEF TypeOK
<1>2. OwnerInv' /\ SamplerInv'
  BY DEF OwnerInv, SamplerInv
<1>3. ASSUME NEW r \in Recordings PROVE UnusedInv(r)' /\ HeldInv(r)'
  BY DEF TypeOK, WriterInv, UnusedInv, HeldInv
<1>4. ASSUME NEW r \in Recordings PROVE WriterInv(r)'
  BY DEF TypeOK, UnusedInv, WriterInv
<1>5. ASSUME NEW r \in Recordings PROVE CountInv(r)' /\ ResultInv(r)'
  <2>1. CASE r = s
    <3>1. /\ file'[s] = file[s] \o held[s] /\ held'[s] = <<>>
          /\ file[s] \in Seq(Ticks) /\ held[s] \in Seq(Ticks)
      BY DEF TypeOK
    <3>2. Len(file'[s]) = Len(file[s]) + Len(held[s]) /\ Len(held'[s]) = 0
      BY ONLY <3>1, ConcatProperties
    <3> QED BY <2>1, <3>1, <3>2 DEF CountInv, ResultInv, TypeOK
  <2>2. CASE r # s
    BY <2>2 DEF CountInv, ResultInv, TypeOK
  <2> QED BY <2>1, <2>2
<1>6. ASSUME NEW r \in Recordings PROVE OrderInv(r)'
  BY DEF OrderInv
<1> QED BY <1>1, <1>2, <1>3, <1>4, <1>5, <1>6

\* WriteFails keeps the invariant.
LEMMA WriteFailsStep == ASSUME Inv, NEW s \in Recordings, WriteFails(s) PROVE Inv'
<1> USE BoundsAssumption, NoRecordingAssumption
<1> USE DEF Inv, WriteFails, shared, sampler, owner, channel, writer
<1>1. TypeOK'
  BY DEF TypeOK
<1>2. OwnerInv' /\ SamplerInv'
  BY DEF OwnerInv, SamplerInv
<1>3. ASSUME NEW r \in Recordings PROVE UnusedInv(r)' /\ HeldInv(r)'
  BY DEF TypeOK, WriterInv, UnusedInv, HeldInv
<1>4. ASSUME NEW r \in Recordings PROVE WriterInv(r)'
  BY DEF TypeOK, UnusedInv, WriterInv
<1>5. ASSUME NEW r \in Recordings PROVE CountInv(r)' /\ ResultInv(r)'
  BY DEF TypeOK, CountInv, ResultInv
<1>6. ASSUME NEW r \in Recordings PROVE OrderInv(r)'
  BY DEF OrderInv
<1> QED BY <1>1, <1>2, <1>3, <1>4, <1>5, <1>6

\* StoreStats keeps the invariant.
LEMMA StoreStatsStep == ASSUME Inv, NEW s \in Recordings, StoreStats(s) PROVE Inv'
<1> USE BoundsAssumption, NoRecordingAssumption
<1> USE DEF Inv, StoreStats, shared, sampler, owner, channel, writer
<1>1. TypeOK'
  BY DEF TypeOK
<1>2. OwnerInv' /\ SamplerInv'
  BY DEF OwnerInv, SamplerInv
<1>3. ASSUME NEW r \in Recordings PROVE UnusedInv(r)' /\ HeldInv(r)'
  BY DEF TypeOK, WriterInv, UnusedInv, HeldInv
<1>4. ASSUME NEW r \in Recordings PROVE WriterInv(r)'
  BY DEF TypeOK, UnusedInv, WriterInv
<1>5. ASSUME NEW r \in Recordings PROVE CountInv(r)' /\ ResultInv(r)'
  BY DEF TypeOK, CountInv, ResultInv
<1>6. ASSUME NEW r \in Recordings PROVE OrderInv(r)'
  BY DEF OrderInv
<1> QED BY <1>1, <1>2, <1>3, <1>4, <1>5, <1>6

\* FinishFile keeps the invariant.
LEMMA FinishFileStep == ASSUME Inv, NEW s \in Recordings, FinishFile(s) PROVE Inv'
<1> USE BoundsAssumption, NoRecordingAssumption
<1> USE DEF Inv, FinishFile, shared, sampler, owner, channel, writer
<1>1. TypeOK'
  BY DEF TypeOK
<1>2. OwnerInv' /\ SamplerInv'
  BY DEF OwnerInv, SamplerInv
<1>3. ASSUME NEW r \in Recordings PROVE UnusedInv(r)' /\ HeldInv(r)'
  BY DEF TypeOK, WriterInv, UnusedInv, HeldInv
<1>4. ASSUME NEW r \in Recordings PROVE WriterInv(r)'
  BY DEF TypeOK, UnusedInv, WriterInv
<1>5. ASSUME NEW r \in Recordings PROVE CountInv(r)' /\ ResultInv(r)'
  BY DEF TypeOK, CountInv, ResultInv
<1>6. ASSUME NEW r \in Recordings PROVE OrderInv(r)'
  BY DEF OrderInv
<1> QED BY <1>1, <1>2, <1>3, <1>4, <1>5, <1>6

\* AbortFile keeps the invariant.
LEMMA AbortFileStep == ASSUME Inv, NEW s \in Recordings, AbortFile(s) PROVE Inv'
<1> USE BoundsAssumption, NoRecordingAssumption
<1> USE DEF Inv, AbortFile, shared, sampler, owner, channel, writer
<1>1. TypeOK'
  BY DEF TypeOK
<1>2. OwnerInv' /\ SamplerInv'
  BY DEF OwnerInv, SamplerInv
<1>3. ASSUME NEW r \in Recordings PROVE UnusedInv(r)' /\ HeldInv(r)'
  BY DEF TypeOK, WriterInv, UnusedInv, HeldInv
<1>4. ASSUME NEW r \in Recordings PROVE WriterInv(r)'
  BY DEF TypeOK, UnusedInv, WriterInv
<1>5. ASSUME NEW r \in Recordings PROVE CountInv(r)' /\ ResultInv(r)'
  BY DEF TypeOK, CountInv, ResultInv
<1>6. ASSUME NEW r \in Recordings PROVE OrderInv(r)'
  BY DEF OrderInv
<1> QED BY <1>1, <1>2, <1>3, <1>4, <1>5, <1>6

-----------------------------------------------------------------------------
(* The theorems                                                            *)

\* No step gives the invariant up.
LEMMA NextInv == Inv /\ [Next]_vars => Inv'
<1> SUFFICES ASSUME Inv, [Next]_vars PROVE Inv'
  OBVIOUS
<1>1. CASE SamplerThread
  BY <1>1, CheckStopStep, PassOkStep, PassFailsStep, PassUnsupportedStep,
     IdleUntilStoppedStep, LoadSinkStep, OfferStep, PublishStep, NotifyStep,
     SleepStep DEF SamplerThread
<1>2. CASE \E call \in {"record_to", "stop_recording", "stop"} : Call(call)
  BY <1>2, CallStep
<1>3. CASE OwnerSteps
  BY <1>3, TakeWriterStep, ClearSinkStep, CloseSinkStep, ReadDroppedStep,
     JoinWriterStep, SpawnWriterStep, StoreSinkStep, KeepWriterStep, SetStopStep,
     JoinSamplerStep DEF OwnerSteps
<1>4. CASE \E r \in Recordings : WriterThread(r)
  BY <1>4, ReceiveStep, ReceiveEndsStep, WriteStep, WriteFailsStep,
     StoreStatsStep, FinishFileStep, AbortFileStep DEF WriterThread
<1>5. CASE UNCHANGED vars
  BY <1>5 DEF vars, shared, sampler, owner, channel, writer, Inv, TypeOK, OwnerInv,
     SamplerInv, UnusedInv, HeldInv, WriterInv, CountInv, OrderInv, ResultInv
<1> QED BY <1>1, <1>2, <1>3, <1>4, <1>5 DEF Next, Terminated

\* It always holds.
LEMMA Invariance == Spec => []Inv
<1> QED BY InitInv, NextInv, PTL DEF Spec

\* Every variable keeps its type, and no channel ever exceeds its capacity
\* (record.rs: sync_channel(QUEUE)).
THEOREM TypeCorrect == Spec => []TypeOK
<1>1. Inv => TypeOK
  BY DEF Inv
<1> QED BY <1>1, Invariance, PTL

\* The report of a recording that finished well accounts for every pass between
\* the first and the last it was offered: written plus dropped (record.rs:
\* "the frame is dropped and counted rather than stalling sampling").
THEOREM StatsExact == Spec => []StatsAccountForEveryPass
<1>1. Inv => StatsAccountForEveryPass
  <2> SUFFICES ASSUME Inv, NEW r \in Recordings, result[r].kind = "ok"
      PROVE  result[r].frames + result[r].dropped =
               IF offered[r] = <<>> THEN 0
               ELSE Last(offered[r]) - Head(offered[r]) + 1
    BY DEF StatsAccountForEveryPass
  <2>1. result[r].frames + result[r].dropped = Len(offered[r])
    BY DEF Inv, ResultInv
  <2>2. CASE offered[r] = <<>>
    BY <2>1, <2>2
  <2>3. CASE offered[r] # <<>>
    <3>1. offered[r] \in Seq(Ticks) /\ Len(offered[r]) \in Nat \ {0}
      BY <2>3 DEF Inv, TypeOK
    <3>2. offered[r][1] \in Nat
      <4>1. 1 \in 1..Len(offered[r])
        BY ONLY <3>1
      <4> QED BY ONLY <3>1, <4>1, TicksSeq
    <3>3. Last(offered[r]) = offered[r][1] + Len(offered[r]) - 1
      BY <3>1 DEF Inv, OrderInv, Last
    <3>4. Head(offered[r]) = offered[r][1]
      BY <3>1
    <3> QED BY <2>1, <2>3, <3>1, <3>2, <3>3, <3>4
  <2> QED BY <2>2, <2>3
<1> QED BY <1>1, Invariance, PTL

\* record_to never leaves two writer threads running (sampler.rs: "A recording
\* already in progress is finished first").
THEOREM OneWriter == Spec => []OneWriterAtATime
<1>1. Inv => OneWriterAtATime
  <2> SUFFICES ASSUME Inv, NEW r \in Recordings, NEW s \in Recordings,
                      wpc[r] \notin {"none", "done"}, wpc[s] \notin {"none", "done"}
      PROVE  r = s
    BY DEF OneWriterAtATime
  <2>1. r \in {recording, taken} /\ s \in {recording, taken}
    BY DEF Inv, HeldInv
  <2>2. recording = NoRecording \/ taken = NoRecording
    BY DEF Inv, OwnerInv, TypeOK
  <2> QED BY <2>1, <2>2, NoRecordingAssumption
<1> QED BY <1>1, Invariance, PTL

-----------------------------------------------------------------------------
(***************************************************************************)
(* What the sampler records is in order, and every recording implements    *)
(* RecordingLog.                                                           *)
(*                                                                         *)
(* What a recording accepted lies in three places: the file, the writer's  *)
(* hands and the channel. AcceptedInv speaks of the three as one sequence, *)
(* which a receive and a write leave as it is. FreshInv says that a        *)
(* recording the owner still holds was not reported.                       *)
(***************************************************************************)

Rising(s) == \A i, j \in DOMAIN s : i < j => s[i] < s[j]

\* What is accepted rises and ends no later than what was offered, and that no
\* later than the pass the sampler is at.
AcceptedInv(r) ==
    /\ Rising(Accepted(r))
    /\ \A i \in 1..Len(offered[r]) : offered[r][i] <= tick
    /\ \A i \in DOMAIN Accepted(r) :
         /\ offered[r] # <<>>
         /\ Accepted(r)[i] <= offered[r][Len(offered[r])]

FreshInv(r) == r \in {recording, taken} => result[r] = NoResult

LogInv == \A r \in Recordings : AcceptedInv(r) /\ FreshInv(r)

-----------------------------------------------------------------------------
(* Three sequences joined                                                  *)

\* Every element of the join is one of the three's, at its place.
LEMMA JoinParts ==
  ASSUME NEW S, NEW a \in Seq(S), NEW b \in Seq(S), NEW c \in Seq(S)
  PROVE  LET J == a \o b \o c IN
         /\ J \in Seq(S)
         /\ Len(J) = Len(a) + Len(b) + Len(c)
         /\ DOMAIN J = 1..Len(J)
         /\ \A i \in 1..Len(J) :
              J[i] = IF i <= Len(a) THEN a[i]
                     ELSE IF i <= Len(a) + Len(b) THEN b[i - Len(a)]
                     ELSE c[i - Len(a) - Len(b)]
<1> DEFINE ab == a \o b
           J == ab \o c
<1>1. /\ Len(a) \in Nat /\ Len(b) \in Nat /\ Len(c) \in Nat
  BY LenProperties
<1>2. /\ ab \in Seq(S) /\ Len(ab) = Len(a) + Len(b)
      /\ \A i \in 1..Len(a) + Len(b) : ab[i] = IF i <= Len(a) THEN a[i] ELSE b[i - Len(a)]
  BY ConcatProperties
<1> HIDE DEF ab
<1>3. /\ J \in Seq(S) /\ Len(J) = Len(ab) + Len(c)
      /\ \A i \in 1..Len(ab) + Len(c) : J[i] = IF i <= Len(ab) THEN ab[i] ELSE c[i - Len(ab)]
  <2>1. ab \in Seq(S)
    BY <1>2
  <2> QED BY ONLY <2>1, c \in Seq(S), ConcatProperties
<1>4. DOMAIN J = 1..Len(J)
  BY <1>3, LenProperties
<1> HIDE DEF J
<1>5. ASSUME NEW i \in 1..Len(J)
      PROVE  J[i] = IF i <= Len(a) THEN a[i]
                    ELSE IF i <= Len(a) + Len(b) THEN b[i - Len(a)]
                    ELSE c[i - Len(a) - Len(b)]
  <2>1. i \in Nat /\ i >= 1 /\ i <= Len(ab) + Len(c)
    BY <1>1, <1>2, <1>3
  <2>2. CASE i <= Len(ab)
    <3>1. J[i] = ab[i]
      BY <1>1, <1>2, <1>3, <2>1, <2>2
    <3>2. i \in 1..Len(a) + Len(b)
      BY <1>1, <1>2, <2>1, <2>2
    <3> QED BY <1>1, <1>2, <2>1, <2>2, <3>1, <3>2
  <2>3. CASE ~(i <= Len(ab))
    <3>1. J[i] = c[i - Len(ab)]
      BY <1>3, <2>3
    <3>2. i - Len(ab) = i - Len(a) - Len(b)
      BY <1>1, <1>2, <2>1
    <3> QED BY <1>1, <1>2, <2>1, <2>3, <3>1, <3>2
  <2> QED BY <2>2, <2>3
<1>6. Len(J) = Len(a) + Len(b) + Len(c)
  BY <1>2, <1>3
<1> QED BY <1>3, <1>4, <1>5, <1>6 DEF J, ab

\* Without its middle the join keeps its order, and no new elements.
LEMMA JoinWithoutMiddle ==
  ASSUME NEW a \in Seq(Nat), NEW b \in Seq(Nat), NEW c \in Seq(Nat),
         Rising(a \o b \o c)
  PROVE  /\ Rising(a \o <<>> \o c)
         /\ \A i \in DOMAIN (a \o <<>> \o c) :
              \E k \in DOMAIN (a \o b \o c) : (a \o <<>> \o c)[i] = (a \o b \o c)[k]
<1> DEFINE J == a \o b \o c
           K == a \o <<>> \o c
           At(i) == IF i <= Len(a) THEN i ELSE i + Len(b)
<1>1. Len(a) \in Nat /\ Len(b) \in Nat /\ Len(c) \in Nat
  BY LenProperties
<1>2. <<>> \in Seq(Nat) /\ Len(<<>>) = 0
  BY EmptySeq
<1>3. /\ DOMAIN J = 1..Len(a) + Len(b) + Len(c)
      /\ \A i \in 1..Len(a) + Len(b) + Len(c) :
           J[i] = IF i <= Len(a) THEN a[i]
                  ELSE IF i <= Len(a) + Len(b) THEN b[i - Len(a)]
                  ELSE c[i - Len(a) - Len(b)]
  BY JoinParts
<1>4. /\ DOMAIN K = 1..Len(a) + Len(c)
      /\ \A i \in 1..Len(a) + Len(c) :
           K[i] = IF i <= Len(a) THEN a[i] ELSE c[i - Len(a)]
  <2> DEFINE e == Len(<<>>)
  <2>1. /\ Len(K) = Len(a) + e + Len(c)
        /\ DOMAIN K = 1..Len(K)
        /\ \A i \in 1..Len(K) :
             K[i] = IF i <= Len(a) THEN a[i]
                    ELSE IF i <= Len(a) + e THEN <<>>[i - Len(a)]
                    ELSE c[i - Len(a) - e]
    BY <1>2, JoinParts
  <2>2. e = 0
    BY <1>2
  <2> HIDE DEF e, K
  <2> QED BY <1>1, <2>1, <2>2
<1> HIDE DEF J, K
<1>5. ASSUME NEW i \in DOMAIN K
      PROVE  At(i) \in DOMAIN J /\ K[i] = J[At(i)]
  <2>1. i \in 1..Len(a) + Len(c)
    BY <1>4
  <2>2. CASE i <= Len(a)
    <3>1. At(i) = i
      BY <2>2
    <3>2. i \in 1..Len(a) + Len(b) + Len(c)
      BY <1>1, <2>1, <2>2
    <3> HIDE DEF At
    <3>3. J[i] = a[i] /\ i \in DOMAIN J
      BY <1>3, <2>2, <3>2
    <3>4. K[i] = a[i]
      BY <1>4, <2>1, <2>2
    <3> QED BY <3>1, <3>3, <3>4
  <2>3. CASE ~(i <= Len(a))
    <3> DEFINE k == i + Len(b)
    <3>1. /\ At(i) = k
          /\ k \in 1..Len(a) + Len(b) + Len(c)
          /\ ~(k <= Len(a)) /\ ~(k <= Len(a) + Len(b))
          /\ k - Len(a) - Len(b) = i - Len(a)
      BY <1>1, <2>1, <2>3
    <3> HIDE DEF k, At
    <3>2. k \in DOMAIN J /\ J[k] = c[i - Len(a)]
      BY <1>3, <3>1
    <3>3. K[i] = c[i - Len(a)]
      BY <1>4, <2>1, <2>3
    <3> QED BY <3>1, <3>2, <3>3
  <2> QED BY <2>2, <2>3
<1>6. ASSUME NEW i \in DOMAIN K, NEW j \in DOMAIN K, i < j
      PROVE  K[i] < K[j]
  <2>1. At(i) < At(j)
    BY <1>1, <1>4, <1>6
  <2>2. Rising(J)
    BY DEF J
  <2> QED BY <1>5, <2>1, <2>2 DEF Rising
<1>7. Rising(K)
  BY <1>6 DEF Rising
<1> QED BY <1>5, <1>7 DEF J, K

\* To append to the last of two joined is to append to the join.
LEMMA AppendToLast ==
  ASSUME NEW S, NEW a \in Seq(S), NEW b \in Seq(S), NEW t \in S
  PROVE  a \o Append(b, t) = Append(a \o b, t)
<1>1. a \o b \in Seq(S)
  BY ConcatProperties
<1>2. PICK c \in Seq(S) : c = <<t>>
  <2>1. <<t>> \in Seq(S)
    OBVIOUS
  <2> QED BY <2>1
<1>3. Append(b, t) = b \o c /\ Append(a \o b, t) = (a \o b) \o c
  BY <1>1, <1>2, AppendIsConcat
<1>4. (a \o b) \o c = a \o (b \o c)
  BY ConcatAssociative
<1> QED BY <1>3, <1>4

\* A sequence with one more, higher than all before, rises still.
LEMMA RisingAppend ==
  ASSUME NEW q \in Seq(Nat), NEW t \in Nat, Rising(q),
         \A i \in DOMAIN q : q[i] < t
  PROVE  Rising(Append(q, t))
<1> DEFINE p == Append(q, t)
<1>1. /\ p \in Seq(Nat) /\ Len(p) = Len(q) + 1 /\ Len(q) \in Nat
      /\ \A i \in 1..Len(q) : p[i] = q[i]
      /\ p[Len(q) + 1] = t
      /\ DOMAIN q = 1..Len(q) /\ DOMAIN p = 1..Len(p)
  BY AppendProperties, LenProperties
<1> HIDE DEF p
<1>2. ASSUME NEW i \in DOMAIN p, NEW j \in DOMAIN p, i < j PROVE p[i] < p[j]
  <2>1. i \in DOMAIN q /\ p[i] = q[i]
    BY <1>1, <1>2
  <2>2. CASE j \in DOMAIN q
    BY <1>1, <1>2, <2>1, <2>2 DEF Rising
  <2>3. CASE j \notin DOMAIN q
    <3>1. j = Len(q) + 1
      BY <1>1, <2>3
    <3> QED BY <1>1, <2>1, <3>1
  <2> QED BY <2>2, <2>3
<1> QED BY <1>2 DEF Rising, p

-----------------------------------------------------------------------------
(* The steps                                                               *)

\* All that was handed to a recording is a sequence of ticks.
LEMMA AcceptedType ==
  ASSUME TypeOK, NEW r \in Recordings
  PROVE  /\ file[r] \in Seq(Ticks) /\ held[r] \in Seq(Ticks)
         /\ queue[r] \in Seq(Ticks) /\ offered[r] \in Seq(Ticks)
         /\ Accepted(r) \in Seq(Ticks)
<1>1. /\ file[r] \in Seq(Ticks) /\ held[r] \in Seq(Ticks)
      /\ queue[r] \in Seq(Ticks) /\ offered[r] \in Seq(Ticks)
  BY DEF TypeOK
<1>2. file[r] \o held[r] \in Seq(Ticks)
  BY ONLY <1>1, ConcatProperties
<1>3. (file[r] \o held[r]) \o queue[r] \in Seq(Ticks)
  BY ONLY <1>1, <1>2, ConcatProperties
<1> QED BY <1>1, <1>3 DEF Accepted

\* Ticks are numbers.
LEMMA TicksAreNat == ASSUME NEW q \in Seq(Ticks) PROVE q \in Seq(Nat)
<1>1. Ticks \subseteq Nat
  BY BoundsAssumption DEF Ticks
<1> QED BY <1>1, SeqMonotonic

\* The log's invariant holds at the beginning.
LEMMA InitLogInv == Init => LogInv
<1> SUFFICES ASSUME Init, NEW r \in Recordings PROVE AcceptedInv(r) /\ FreshInv(r)
  BY DEF LogInv
<1>1. <<>> \in Seq(Nat) /\ Len(<<>>) = 0
  BY EmptySeq
<1>2. Accepted(r) = <<>> \o <<>> \o <<>>
  BY DEF Init, Accepted
<1>3. <<>> \o <<>> \o <<>> = <<>>
  BY <1>1, ConcatEmptySeq
<1>4. DOMAIN Accepted(r) = {} /\ Len(offered[r]) = 0
  BY <1>1, <1>2, <1>3, LenProperties DEF Init
<1>5. AcceptedInv(r)
  BY <1>4 DEF AcceptedInv, Rising
<1>6. FreshInv(r)
  BY DEF Init, FreshInv
<1> QED BY <1>5, <1>6

\* A step after which the same is accepted and offered.
LEMMA SameAccepted ==
  ASSUME Inv, NEW r \in Recordings, AcceptedInv(r), Accepted(r)' = Accepted(r),
         offered'[r] = offered[r], tick' \in {tick, tick + 1}
  PROVE  AcceptedInv(r)'
<1>1. tick \in Nat
  BY BoundsAssumption DEF Inv, TypeOK
<1>2. ASSUME NEW i \in 1..Len(offered[r]) PROVE offered[r][i] <= tick'
  <2>1. offered[r] \in Seq(Ticks)
    BY AcceptedType DEF Inv
  <2>2. offered[r][i] \in Nat
    BY <2>1, TicksSeq
  <2>3. offered[r][i] <= tick
    BY DEF AcceptedInv
  <2> QED BY <1>1, <2>2, <2>3
<1> QED BY <1>2 DEF AcceptedInv

\* A step that leaves the channels, the files and the passes as they are.
LEMMA QuietAccepted ==
  ASSUME Inv, LogInv, UNCHANGED <<file, held, queue, offered>>,
         tick' \in {tick, tick + 1},
         NEW r \in Recordings
  PROVE  AcceptedInv(r)'
<1>1. Accepted(r)' = Accepted(r) /\ offered'[r] = offered[r]
  BY DEF Accepted
<1> QED BY <1>1, SameAccepted DEF LogInv

\* What is appended to the channel is appended to what is accepted.
LEMMA QueueAppends ==
  ASSUME TypeOK, NEW r \in Recordings, NEW t \in Ticks,
         UNCHANGED <<file, held>>, queue'[r] = Append(queue[r], t)
  PROVE  Accepted(r)' = Append(Accepted(r), t)
<1> DEFINE fh == file[r] \o held[r]
<1>1. fh \in Seq(Ticks) /\ queue[r] \in Seq(Ticks)
  BY AcceptedType, ConcatProperties
<1>2. Accepted(r) = fh \o queue[r] /\ Accepted(r)' = fh \o queue'[r]
  BY DEF Accepted
<1> HIDE DEF fh
<1>3. fh \o Append(queue[r], t) = Append(fh \o queue[r], t)
  BY <1>1, AppendToLast
<1> QED BY <1>2, <1>3

\* An offer adds to what a recording accepted at most the tick it offers.
LEMMA OfferAccepted ==
  ASSUME Inv, LogInv, Offer, NEW r \in Recordings
  PROVE  AcceptedInv(r)'
<1>1. /\ loaded \in Recordings /\ tick \in Ticks /\ tick \in Nat
      /\ tick' = tick /\ file' = file /\ held' = held
  BY BoundsAssumption
     DEF Inv, TypeOK, SamplerInv, Offer, OfferWith, Ticks, shared, sampler, owner, writer
<1>2. CASE ~open[loaded]
  <2>1. UNCHANGED <<file, held, queue, offered>>
    BY <1>1, <1>2 DEF Offer, OfferWith
  <2> QED BY <1>1, <2>1, QuietAccepted
<1>3. CASE open[loaded] /\ r # loaded
  <2>1. offered'[r] = offered[r]
    BY <1>1, <1>3 DEF Offer, OfferWith, Inv, TypeOK
  <2>2. queue'[r] = queue[r]
    BY <1>1, <1>3 DEF Offer, OfferWith, Inv, TypeOK, Disconnected, Queued, Full
  <2>3. Accepted(r)' = Accepted(r)
    BY <1>1, <2>2 DEF Accepted
  <2> QED BY <1>1, <2>1, <2>3, SameAccepted DEF LogInv
<1>4. CASE open[loaded] /\ r = loaded
  <2> DEFINE A == Accepted(r)
             o == offered[r]
  <2>1. /\ file[r] \in Seq(Ticks) /\ held[r] \in Seq(Ticks)
        /\ queue[r] \in Seq(Ticks) /\ o \in Seq(Ticks) /\ A \in Seq(Ticks)
    BY AcceptedType DEF Inv
  <2>2. /\ Len(o) \in Nat /\ \A i \in 1..Len(o) : o[i] \in Nat
        /\ DOMAIN A = 1..Len(A) /\ Len(A) \in Nat /\ \A i \in DOMAIN A : A[i] \in Nat
    BY <2>1, TicksSeq, LenProperties
  <2>3. offered'[r] = Append(o, tick)
    BY <1>1, <1>4 DEF Offer, OfferWith, Inv, TypeOK
  <2>4. /\ Len(offered'[r]) = Len(o) + 1 /\ offered'[r] # <<>>
        /\ \A i \in 1..Len(o) : offered'[r][i] = o[i]
        /\ offered'[r][Len(o) + 1] = tick
    <3>1. o \in Seq(Ticks) /\ tick \in Ticks
      BY <1>1, <2>1
    <3> QED BY ONLY <2>3, <3>1, AppendProperties
  <2>5. AcceptedInv(r)
    BY DEF LogInv
  <2>6. \A i \in 1..Len(offered'[r]) : offered'[r][i] <= tick'
    <3> SUFFICES ASSUME NEW i \in 1..Len(offered'[r]) PROVE offered'[r][i] <= tick'
      OBVIOUS
    <3>1. i \in 1..Len(o) \/ i = Len(o) + 1
      BY <2>2, <2>4
    <3>2. CASE i = Len(o) + 1
      BY <1>1, <2>4, <3>2
    <3>3. CASE i \in 1..Len(o)
      <4>1. o[i] <= tick
        BY <2>5, <3>3 DEF AcceptedInv
      <4> QED BY <1>1, <2>4, <3>3, <4>1
    <3> QED BY <3>1, <3>2, <3>3
  <2>7. \A i \in DOMAIN A : A[i] < tick
    <3> SUFFICES ASSUME NEW i \in DOMAIN A PROVE A[i] < tick
      OBVIOUS
    <3>1. o # <<>> /\ A[i] <= o[Len(o)]
      BY <2>5 DEF AcceptedInv
    <3>2. o[Len(o)] = tick - 1
      BY <1>4, <3>1 DEF Inv, OrderInv
    <3>3. A[i] \in Nat
      BY <2>2
    <3> QED BY ONLY <1>1, <3>1, <3>2, <3>3
  <2>8. Rising(A)
    BY <2>5 DEF AcceptedInv
  <2>9. \/ queue'[r] = queue[r]
        \/ queue'[r] = Append(queue[r], tick)
    BY <1>1, <1>4 DEF Offer, OfferWith, Inv, TypeOK, Disconnected, Queued, Full
  <2>10. Accepted(r)' \in {A, Append(A, tick)}
    <3>1. CASE queue'[r] = queue[r]
      BY <1>1, <3>1 DEF Accepted
    <3>2. CASE queue'[r] = Append(queue[r], tick)
      BY <1>1, <3>2, QueueAppends DEF Inv
    <3> QED BY <2>9, <3>1, <3>2
  <2>11. A \in Seq(Nat)
    BY <2>1, TicksAreNat
  <2> HIDE DEF A, o
  <2>12. /\ Rising(Accepted(r)')
         /\ \A i \in DOMAIN (Accepted(r)') : Accepted(r)'[i] <= tick
    <3>1. CASE Accepted(r)' = A
      BY <1>1, <2>2, <2>7, <2>8, <3>1
    <3>2. CASE Accepted(r)' = Append(A, tick)
      <4>1. Rising(Append(A, tick))
        BY <1>1, <2>7, <2>8, <2>11, RisingAppend
      <4>2. \A i \in DOMAIN Append(A, tick) : Append(A, tick)[i] <= tick
        <5>1. /\ Append(A, tick) \in Seq(Nat)
              /\ Len(Append(A, tick)) = Len(A) + 1
              /\ \A i \in 1..Len(A) : Append(A, tick)[i] = A[i]
              /\ Append(A, tick)[Len(A) + 1] = tick
          BY ONLY <1>1, <2>11, AppendProperties
        <5>2. DOMAIN Append(A, tick) = 1..Len(Append(A, tick))
          BY ONLY <5>1, LenProperties
        <5> QED BY <1>1, <2>2, <2>7, <5>1, <5>2
      <4> QED BY <3>2, <4>1, <4>2
    <3> QED BY <2>10, <3>1, <3>2
  <2> QED BY <2>2, <2>4, <2>6, <2>12 DEF AcceptedInv
<1> QED BY <1>2, <1>3, <1>4

\* Receiving moves a sample from the queue to the hand: what was accepted stays.
LEMMA ReceiveKeepsAccepted ==
  ASSUME Inv, NEW s \in Recordings, Receive(s), NEW r \in Recordings
  PROVE  Accepted(r)' = Accepted(r)
<1>1. CASE r # s
  BY <1>1 DEF Receive, Accepted, Inv, TypeOK, writer
<1>2. CASE r = s
  <2> DEFINE f == file[s]
             q == queue[s]
  <2>1. f \in Seq(Ticks) /\ q \in Seq(Ticks) /\ q # <<>>
    BY AcceptedType DEF Inv, Receive
  <2>2. held[s] = <<>>
    BY DEF Receive, Inv, WriterInv
  <2>3. file'[s] = f /\ held'[s] = <<Head(q)>> /\ queue'[s] = Tail(q)
    BY DEF Receive, Inv, TypeOK
  <2> HIDE DEF f, q
  <2>4. Head(q) \in Ticks /\ Tail(q) \in Seq(Ticks)
    BY <2>1, HeadTailProperties
  <2>5. <<Head(q)>> \in Seq(Ticks)
    BY <2>4
  <2>6. <<Head(q)>> \o Tail(q) = q
    BY <2>1
  <2>7. (f \o <<Head(q)>>) \o Tail(q) = f \o (<<Head(q)>> \o Tail(q))
    BY ONLY <2>1, <2>4, <2>5, ConcatAssociative
  <2>8. f \o <<>> = f
    BY ONLY <2>1, ConcatEmptySeq
  <2> QED BY <1>2, <2>2, <2>3, <2>6, <2>7, <2>8 DEF Accepted, f, q
<1> QED BY <1>1, <1>2

\* Writing moves it on into the file: what was accepted stays.
LEMMA WriteKeepsAccepted ==
  ASSUME Inv, NEW s \in Recordings, Write(s), NEW r \in Recordings
  PROVE  Accepted(r)' = Accepted(r)
<1>1. CASE r # s
  BY <1>1 DEF Write, Accepted, Inv, TypeOK, channel
<1>2. CASE r = s
  <2>1. file[s] \in Seq(Ticks) /\ held[s] \in Seq(Ticks)
    BY AcceptedType DEF Inv
  <2>2. /\ file'[s] = file[s] \o held[s] /\ held'[s] = <<>> /\ queue'[s] = queue[s]
    BY DEF Write, Inv, TypeOK, channel
  <2>3. (file[s] \o held[s]) \o <<>> = file[s] \o held[s]
    <3>1. file[s] \o held[s] \in Seq(Ticks)
      BY ONLY <2>1, ConcatProperties
    <3> QED BY ONLY <3>1, ConcatEmptySeq
  <2> QED BY <1>2, <2>2, <2>3 DEF Accepted
<1> QED BY <1>1, <1>2

\* A failed write loses what was accepted and never reorders it.
LEMMA WriteFailsAccepted ==
  ASSUME Inv, LogInv, NEW s \in Recordings, WriteFails(s), NEW r \in Recordings
  PROVE  AcceptedInv(r)'
<1>1. tick' = tick /\ offered' = offered /\ file' = file /\ queue' = queue
  BY DEF WriteFails, sampler, channel
<1>2. CASE r # s
  <2>1. Accepted(r)' = Accepted(r)
    BY <1>1, <1>2 DEF WriteFails, Accepted, Inv, TypeOK
  <2> QED BY <1>1, <2>1, SameAccepted DEF LogInv
<1>3. CASE r = s
  <2>1. Accepted(r)' = file[r] \o <<>> \o queue[r]
    BY <1>1, <1>3 DEF WriteFails, Accepted, Inv, TypeOK
  <2>2. file[r] \in Seq(Nat) /\ held[r] \in Seq(Nat) /\ queue[r] \in Seq(Nat)
    BY AcceptedType, TicksAreNat DEF Inv
  <2>3. AcceptedInv(r)
    BY DEF LogInv
  <2>4. /\ Rising(Accepted(r)')
        /\ \A i \in DOMAIN (Accepted(r)') :
             \E k \in DOMAIN Accepted(r) : Accepted(r)'[i] = Accepted(r)[k]
    <3>1. Accepted(r) = file[r] \o held[r] \o queue[r]
      BY DEF Accepted
    <3>2. Rising(file[r] \o held[r] \o queue[r])
      BY <2>3, <3>1 DEF AcceptedInv
    <3>3. /\ Rising(file[r] \o <<>> \o queue[r])
          /\ \A i \in DOMAIN (file[r] \o <<>> \o queue[r]) :
               \E k \in DOMAIN (file[r] \o held[r] \o queue[r]) :
                  (file[r] \o <<>> \o queue[r])[i] = (file[r] \o held[r] \o queue[r])[k]
      BY ONLY <2>2, <3>2, JoinWithoutMiddle
    <3> QED BY <2>1, <3>1, <3>3
  <2> QED BY <1>1, <2>3, <2>4 DEF AcceptedInv
<1> QED BY <1>2, <1>3

\* No step disturbs the order in which samples were accepted.
LEMMA NextAcceptedInv ==
  ASSUME Inv, LogInv, [Next]_vars, NEW r \in Recordings
  PROVE  AcceptedInv(r)'
<1>1. CASE SamplerThread
  <2>1. CASE Offer
    BY <2>1, OfferAccepted
  <2>2. CASE ~Offer
    <3>1. UNCHANGED <<file, held, queue, offered>> /\ tick' \in {tick, tick + 1}
      BY <1>1, <2>2 DEF SamplerThread, CheckStop, PassOk, PassFails, PassUnsupported,
         IdleUntilStopped, LoadSink, Publish, Notify, Sleep, channel, writer
    <3> QED BY <3>1, QuietAccepted
  <2> QED BY <2>1, <2>2
<1>2. CASE \E call \in {"record_to", "stop_recording", "stop"} : Call(call)
  <2>1. UNCHANGED <<file, held, queue, offered, tick>>
    BY <1>2 DEF Call, sampler, channel, writer
  <2> QED BY <2>1, QuietAccepted
<1>3. CASE OwnerSteps
  <2>1. UNCHANGED <<file, held, queue, offered, tick>>
    BY <1>3 DEF OwnerSteps, TakeWriter, ClearSink, CloseSink, ReadDropped, JoinWriter,
       SpawnWriter, StoreSink, KeepWriter, SetStop, JoinSampler, sampler, channel, writer
  <2> QED BY <2>1, QuietAccepted
<1>4. ASSUME NEW s \in Recordings, WriterThread(s) PROVE AcceptedInv(r)'
  <2>1. CASE Receive(s)
    <3>1. offered'[r] = offered[r] /\ tick' = tick
      BY <2>1 DEF Receive, sampler
    <3> QED BY <2>1, <3>1, ReceiveKeepsAccepted, SameAccepted DEF LogInv
  <2>2. CASE Write(s)
    <3>1. offered'[r] = offered[r] /\ tick' = tick
      BY <2>2 DEF Write, sampler
    <3> QED BY <2>2, <3>1, WriteKeepsAccepted, SameAccepted DEF LogInv
  <2>3. CASE WriteFails(s)
    BY <2>3, WriteFailsAccepted
  <2>4. CASE ReceiveEnds(s) \/ StoreStats(s) \/ FinishFile(s) \/ AbortFile(s)
    <3>1. UNCHANGED <<file, held, queue, offered, tick>>
      BY <2>4 DEF ReceiveEnds, StoreStats, FinishFile, AbortFile, sampler, channel
    <3> QED BY <3>1, QuietAccepted
  <2> QED BY <1>4, <2>1, <2>2, <2>3, <2>4 DEF WriterThread
<1>5. CASE UNCHANGED vars
  <2>1. UNCHANGED <<file, held, queue, offered, tick>>
    BY <1>5 DEF vars, sampler, channel, writer
  <2> QED BY <2>1, QuietAccepted
<1> QED BY <1>1, <1>2, <1>3, <1>4, <1>5 DEF Next, Terminated

\* A recording the owner still holds was not reported.
LEMMA NextFreshInv ==
  ASSUME Inv, LogInv, [Next]_vars, NEW r \in Recordings
  PROVE  FreshInv(r)'
<1>1. FreshInv(r)
  BY DEF LogInv
<1>2. CASE UNCHANGED <<recording, taken, result>>
  BY <1>1, <1>2 DEF FreshInv
<1>3. CASE TakeWriter \/ KeepWriter
  BY <1>1, <1>3, NoRecordingAssumption DEF TakeWriter, KeepWriter, FreshInv
<1>4. CASE JoinWriter
  <2>1. taken \in Recordings /\ recording = NoRecording /\ taken' = NoRecording
        /\ recording' = recording
    BY <1>4 DEF JoinWriter, Inv, OwnerInv
  <2> QED BY <2>1, NoRecordingAssumption DEF FreshInv
<1>5. CASE SpawnWriter
  <2>1. PICK s \in Recordings : wpc[s] = "none" /\ taken' = s
    BY <1>5 DEF SpawnWriter
  <2>2. recording' = NoRecording /\ result' = result
    BY <1>5 DEF SpawnWriter, Inv, OwnerInv
  <2>3. result[s].kind = "none" /\ result[s] \in Results
    BY <2>1 DEF Inv, UnusedInv, TypeOK
  <2>4. result[s] = NoResult
    BY <2>3 DEF Results, NoResult
  <2> QED BY <2>1, <2>2, <2>4, NoRecordingAssumption DEF FreshInv
<1>6. UNCHANGED <<recording, taken, result>> \/ TakeWriter \/ KeepWriter
      \/ JoinWriter \/ SpawnWriter
  <2>1. CASE SamplerThread
    BY <2>1 DEF SamplerThread, CheckStop, PassOk, PassFails, PassUnsupported,
       IdleUntilStopped, LoadSink, Offer, OfferWith, Publish, Notify, Sleep, owner
  <2>2. CASE \E call \in {"record_to", "stop_recording", "stop"} : Call(call)
    BY <2>2 DEF Call
  <2>3. CASE OwnerSteps
    BY <2>3 DEF OwnerSteps, ClearSink, CloseSink, ReadDropped, StoreSink, SetStop,
       JoinSampler
  <2>4. CASE \E s \in Recordings : WriterThread(s)
    BY <2>4 DEF WriterThread, Receive, ReceiveEnds, Write, WriteFails, StoreStats,
       FinishFile, AbortFile, owner
  <2>5. CASE UNCHANGED vars
    BY <2>5 DEF vars, owner
  <2> QED BY <2>1, <2>2, <2>3, <2>4, <2>5 DEF Next, Terminated
<1> QED BY <1>2, <1>3, <1>4, <1>5, <1>6

\* Both invariants always hold.
LEMMA LogInvariance == Spec => [](Inv /\ LogInv)
<1>1. Init => Inv /\ LogInv
  BY InitInv, InitLogInv
<1>2. Inv /\ LogInv /\ [Next]_vars => (Inv /\ LogInv)'
  BY NextInv, NextAcceptedInv, NextFreshInv DEF LogInv
<1> QED BY <1>1, <1>2, PTL DEF Spec

\* A file never holds a pass twice, never out of order and never one that was
\* not taken, together with what the writer and the channel still hold of it
\* (sampler.rs: each pass is offered to the sink loaded for it; record.rs: the
\* writer writes what it receives, in order).
THEOREM FileOrdered == Spec => []FileInTickOrder
<1>1. Inv /\ LogInv => FileInTickOrder
  <2> SUFFICES ASSUME Inv, LogInv, NEW r \in Recordings
      PROVE  /\ \A i, j \in DOMAIN Accepted(r) :
                  i < j => Accepted(r)[i] < Accepted(r)[j]
             /\ \A i \in DOMAIN Accepted(r) : Accepted(r)[i] <= tick
    BY DEF FileInTickOrder
  <2>1. AcceptedInv(r)
    BY DEF LogInv
  <2>2. ASSUME NEW i \in DOMAIN Accepted(r) PROVE Accepted(r)[i] <= tick
    <3> DEFINE o == offered[r]
               last == o[Len(o)]
    <3>1. /\ o \in Seq(Ticks) /\ Accepted(r) \in Seq(Ticks) /\ tick \in Nat
      BY AcceptedType, BoundsAssumption DEF Inv, TypeOK
    <3>2. o # <<>> /\ Accepted(r)[i] <= last
      BY <2>1 DEF AcceptedInv
    <3>3. Len(o) \in 1..Len(o)
      BY ONLY <3>1, <3>2, EmptySeq
    <3>4. last <= tick
      BY <2>1, <3>3 DEF AcceptedInv
    <3>5. last \in Nat /\ Accepted(r)[i] \in Nat
      BY <3>1, <3>3, TicksSeq, LenProperties
    <3> HIDE DEF last
    <3> QED BY ONLY <3>1, <3>2, <3>4, <3>5
  <2> QED BY <2>1, <2>2 DEF AcceptedInv, Rising
<1> QED BY <1>1, LogInvariance, PTL

-----------------------------------------------------------------------------
(* Every recording implements the abstract log                             *)

\* Where the functions the log sees agree, so do the functions.
LEMMA BarsSame ==
  /\ (\A r \in Recordings : PhaseOf(r)' = PhaseOf(r)) => phaseBar' = phaseBar
  /\ (\A r \in Recordings : LogOf(r)' = LogOf(r)) => logBar' = logBar
  /\ (\A r \in Recordings : LastOf(r)' = LastOf(r)) => lastBar' = lastBar
<1> QED BY DEF phaseBar, logBar, lastBar

\* A step that changes one recording changes the mapping at that recording alone.
LEMMA BarsChange ==
  ASSUME NEW s \in Recordings
  PROVE  /\ (\A r \in Recordings \ {s} : PhaseOf(r)' = PhaseOf(r))
              => phaseBar' = [phaseBar EXCEPT ![s] = PhaseOf(s)']
         /\ (\A r \in Recordings \ {s} : LogOf(r)' = LogOf(r))
              => logBar' = [logBar EXCEPT ![s] = LogOf(s)']
         /\ (\A r \in Recordings \ {s} : LastOf(r)' = LastOf(r))
              => lastBar' = [lastBar EXCEPT ![s] = LastOf(s)']
<1> QED BY DEF phaseBar, logBar, lastBar

\* The mapped variables at one recording are that recording's phase, log and last tick.
LEMMA BarsAt ==
  ASSUME NEW r \in Recordings
  PROVE  /\ phaseBar[r] = PhaseOf(r)
         /\ logBar[r] = LogOf(r)
         /\ lastBar[r] = LastOf(r)
<1> QED BY DEF phaseBar, logBar, lastBar

\* The sampler begins where the log does.
LEMMA InitLog == Init => Log!Init
<1> SUFFICES ASSUME Init PROVE Log!Init
  OBVIOUS
<1>1. <<>> \o <<>> \o <<>> = <<>>
  BY EmptySeq, ConcatEmptySeq
<1>2. ASSUME NEW r \in Recordings
      PROVE  PhaseOf(r) = "new" /\ LogOf(r) = <<>> /\ LastOf(r) = 0
  BY <1>1 DEF Init, PhaseOf, LogOf, LastOf, Accepted
<1>3. /\ phaseBar = [r \in Recordings |-> "new"]
      /\ logBar = [r \in Recordings |-> <<>>]
      /\ lastBar = [r \in Recordings |-> 0]
  BY <1>2 DEF phaseBar, logBar, lastBar
<1> QED BY <1>3 DEF Log!Init, Init, NoResult

\* A step after which every recording looks the same is a stutter of the log.
LEMMA LogStutters ==
  ASSUME UNCHANGED <<open, dropped, failed, result, offered>>,
         \A r \in Recordings : wpc'[r] = "none" <=> wpc[r] = "none",
         \A r \in Recordings : LogOf(r)' = LogOf(r)
  PROVE  UNCHANGED Log!vars
<1>1. \A r \in Recordings : PhaseOf(r)' = PhaseOf(r) /\ LastOf(r)' = LastOf(r)
  BY DEF PhaseOf, LastOf
<1>2. UNCHANGED <<phaseBar, logBar, lastBar>>
  BY <1>1, BarsSame
<1> QED BY <1>2 DEF Log!vars

\* A step that touches no recording is none of the log.
LEMMA QuietLog ==
  ASSUME UNCHANGED <<open, dropped, failed, result, offered, file, held, queue>>,
         \A r \in Recordings : wpc'[r] = "none" <=> wpc[r] = "none"
  PROVE  UNCHANGED Log!vars
<1>1. \A r \in Recordings : LogOf(r)' = LogOf(r)
  BY DEF LogOf, Accepted
<1> QED BY <1>1, LogStutters

\* Spawning the writer starts a log.
LEMMA SpawnStarts ==
  ASSUME Inv, SpawnWriter
  PROVE  \E r \in Recordings : Log!Start(r)
<1>1. PICK s \in Recordings :
        /\ wpc[s] = "none"
        /\ open' = [open EXCEPT ![s] = TRUE]
        /\ wpc' = [wpc EXCEPT ![s] = "receive"]
  BY DEF SpawnWriter
<1>2. UNCHANGED <<file, held, queue, dropped, failed, result, offered>>
  BY DEF SpawnWriter
<1>3. /\ wpc'[s] = "receive" /\ open'[s] = TRUE
      /\ \A r \in Recordings \ {s} : wpc'[r] = wpc[r] /\ open'[r] = open[r]
  BY <1>1 DEF Inv, TypeOK
<1>4. /\ PhaseOf(s) = "new" /\ PhaseOf(s)' = "open"
      /\ \A r \in Recordings \ {s} : PhaseOf(r)' = PhaseOf(r)
  BY <1>1, <1>2, <1>3 DEF PhaseOf
<1>5. \A r \in Recordings : LogOf(r)' = LogOf(r) /\ LastOf(r)' = LastOf(r)
  BY <1>2 DEF LogOf, LastOf, Accepted
<1>6. /\ phaseBar[s] = "new" /\ phaseBar' = [phaseBar EXCEPT ![s] = "open"]
      /\ UNCHANGED <<logBar, lastBar>>
  BY <1>4, <1>5, BarsSame, BarsChange, BarsAt
<1> QED BY <1>2, <1>6 DEF Log!Start

\* Closing the sink closes the log.
LEMMA CloseCloses ==
  ASSUME Inv, LogInv, CloseSink
  PROVE  \E r \in Recordings : Log!Close(r)
<1>1. /\ taken \in Recordings /\ open[taken] /\ wpc[taken] # "none"
      /\ result[taken] = NoResult
  BY DEF CloseSink, Inv, OwnerInv, UnusedInv, LogInv, FreshInv
<1>2. /\ open'[taken] = FALSE
      /\ \A r \in Recordings \ {taken} : open'[r] = open[r]
      /\ UNCHANGED <<wpc, file, held, queue, dropped, failed, result, offered>>
  BY <1>1 DEF CloseSink, Inv, TypeOK, writer
<1>3. /\ PhaseOf(taken) = "open"
      /\ \A r \in Recordings \ {taken} : PhaseOf(r)' = PhaseOf(r)
  BY <1>1, <1>2 DEF PhaseOf
<1>4. \A r \in Recordings : LogOf(r)' = LogOf(r) /\ LastOf(r)' = LastOf(r)
  BY <1>2 DEF LogOf, LastOf, Accepted
<1>5. PICK r \in Recordings : r = taken
  BY <1>1
<1>6. PhaseOf(r)' = "closed"
  BY <1>1, <1>2, <1>5 DEF PhaseOf
<1>7. /\ phaseBar[r] = "open" /\ phaseBar' = [phaseBar EXCEPT ![r] = "closed"]
      /\ UNCHANGED <<logBar, lastBar>>
  BY <1>3, <1>4, <1>5, <1>6, BarsSame, BarsChange, BarsAt
<1> QED BY <1>2, <1>7 DEF Log!Close

\* Joining the writer reports on the log.
LEMMA JoinReports ==
  ASSUME Inv, LogInv, JoinWriter
  PROVE  \E r \in Recordings : Log!Report(r)
<1>1. PICK s \in Recordings : s = taken
  BY DEF JoinWriter, Inv, OwnerInv
<1>2. /\ wpc[s] = "done" /\ ~open[s] /\ result[s] = NoResult /\ seen = dropped[s]
  BY <1>1 DEF JoinWriter, Inv, OwnerInv, LogInv, FreshInv
<1> DEFINE report == IF wresult[s] = "ok"
                       THEN [kind |-> "ok", frames |-> Len(file[s]), dropped |-> seen]
                       ELSE [kind |-> "err"]
<1>3. /\ result' = [result EXCEPT ![s] = report]
      /\ UNCHANGED <<wpc, open, file, held, queue, dropped, failed, offered>>
  BY <1>1 DEF JoinWriter, channel, writer
<1>4. report # NoResult
  <2>1. report.kind \in {"ok", "err"}
    OBVIOUS
  <2> QED BY <2>1 DEF NoResult
<1>5. /\ result'[s] = report /\ \A r \in Recordings \ {s} : result'[r] = result[r]
  BY <1>3 DEF Inv, TypeOK
<1> HIDE DEF report
<1>6. /\ PhaseOf(s) = "closed" /\ PhaseOf(s)' = "reported"
      /\ \A r \in Recordings \ {s} : PhaseOf(r)' = PhaseOf(r)
  BY <1>2, <1>3, <1>4, <1>5 DEF PhaseOf
<1>7. \A r \in Recordings : LogOf(r)' = LogOf(r) /\ LastOf(r)' = LastOf(r)
  BY <1>3 DEF LogOf, LastOf, Accepted
<1>8. /\ phaseBar[s] = "closed" /\ phaseBar' = [phaseBar EXCEPT ![s] = "reported"]
      /\ UNCHANGED <<logBar, lastBar>>
  BY <1>6, <1>7, BarsSame, BarsChange, BarsAt
<1>9. CASE wresult[s] = "ok"
  <2>1. ~failed[s] /\ held[s] = <<>> /\ queue[s] = <<>>
    BY <1>2, <1>9 DEF Inv, WriterInv
  <2>2. logBar[s] = file[s]
    <3>1. file[s] \in Seq(Ticks)
      BY AcceptedType DEF Inv
    <3>2. file[s] \o <<>> \o <<>> = file[s]
      BY <3>1, ConcatEmptySeq
    <3> QED BY <2>1, <3>2, BarsAt DEF LogOf, Accepted
  <2>3. result' = [result EXCEPT ![s] =
             [kind |-> "ok", frames |-> Len(logBar[s]), dropped |-> dropped[s]]]
    BY <1>2, <1>3, <1>9, <2>2 DEF report
  <2> QED BY <1>3, <1>8, <2>1, <2>3 DEF Log!Report
<1>10. CASE wresult[s] # "ok"
  <2>1. result' = [result EXCEPT ![s] = [kind |-> "err"]]
    BY <1>3, <1>10 DEF report
  <2> QED BY <1>3, <1>8, <2>1 DEF Log!Report
<1> QED BY <1>9, <1>10

\* The first of three joined is a prefix of the join.
LEMMA FirstIsPrefix ==
  ASSUME NEW S, NEW a \in Seq(S), NEW b \in Seq(S), NEW c \in Seq(S)
  PROVE  a \in Log!Prefixes(a \o b \o c)
<1> DEFINE J == a \o b \o c
           p == SubSeq(J, 1, Len(a))
<1>1. Len(a) \in Nat /\ Len(b) \in Nat /\ Len(c) \in Nat
  BY LenProperties
<1>2. /\ J \in Seq(S) /\ Len(J) = Len(a) + Len(b) + Len(c)
      /\ \A i \in 1..Len(a) : J[i] = a[i]
  BY <1>1, JoinParts
<1> HIDE DEF J
<1>3. \A i \in 1..Len(a) : J[i] \in S
  BY <1>2, ElementOfSeq
<1>4. /\ p \in Seq(S) /\ Len(p) = Len(a)
      /\ \A i \in 1..Len(a) : p[i] = J[i]
  <2>1. 1 \in Int /\ Len(a) \in Int
    BY <1>1
  <2>2. /\ p \in Seq(S)
        /\ Len(p) = IF 1 <= Len(a) THEN Len(a) - 1 + 1 ELSE 0
        /\ \A i \in 1..Len(a) - 1 + 1 : p[i] = J[1 + i - 1]
    BY ONLY <1>3, <2>1, SubSeqProperties
  <2>3. Len(p) = Len(a)
    BY <1>1, <2>2
  <2>4. ASSUME NEW i \in 1..Len(a) PROVE p[i] = J[i]
    <3>1. i \in 1..Len(a) - 1 + 1 /\ 1 + i - 1 = i
      BY <1>1
    <3> QED BY <2>2, <3>1
  <2> QED BY <2>2, <2>3, <2>4
<1> HIDE DEF p
<1>5. p = a
  BY <1>2, <1>4, SeqEqual
<1>6. Len(a) \in 0..Len(J)
  BY <1>1, <1>2
<1> QED BY <1>5, <1>6 DEF p, J, Log!Prefixes

\* A failed write breaks the log.
LEMMA WriteFailsBreaks ==
  ASSUME Inv, LogInv, NEW s \in Recordings, WriteFails(s)
  PROVE  Log!Break(s)
<1>1. ~failed[s] /\ wpc[s] = "write" /\ result[s] = NoResult
  BY DEF WriteFails, Inv, WriterInv, HeldInv, LogInv, FreshInv
<1>2. /\ failed' = [failed EXCEPT ![s] = TRUE]
      /\ wpc'[s] = "abort" /\ failed'[s]
      /\ \A r \in Recordings \ {s} :
           wpc'[r] = wpc[r] /\ held'[r] = held[r] /\ failed'[r] = failed[r]
      /\ UNCHANGED <<open, file, queue, dropped, result, offered>>
  BY DEF WriteFails, Inv, TypeOK, channel
<1>3. PhaseOf(s) \in {"open", "closed"}
  BY <1>1 DEF PhaseOf
<1>4. \A r \in Recordings : PhaseOf(r)' = PhaseOf(r) /\ LastOf(r)' = LastOf(r)
  <2>1. \A r \in Recordings : wpc'[r] = "none" <=> wpc[r] = "none"
    BY <1>1, <1>2
  <2> QED BY <1>2, <2>1 DEF PhaseOf, LastOf
<1>5. LogOf(s)' = file[s] /\ \A r \in Recordings \ {s} : LogOf(r)' = LogOf(r)
  BY <1>2 DEF LogOf, Accepted
<1>6. file[s] \in Log!Prefixes(LogOf(s))
  <2>1. file[s] \in Seq(Ticks) /\ held[s] \in Seq(Ticks) /\ queue[s] \in Seq(Ticks)
    BY AcceptedType DEF Inv
  <2> QED BY <1>1, <2>1, FirstIsPrefix DEF LogOf, Accepted
<1>7. /\ phaseBar[s] \in {"open", "closed"} /\ UNCHANGED <<phaseBar, lastBar>>
      /\ file[s] \in Log!Prefixes(logBar[s])
      /\ logBar' = [logBar EXCEPT ![s] = file[s]]
  BY <1>3, <1>4, <1>5, <1>6, BarsSame, BarsChange, BarsAt
<1> QED BY <1>1, <1>2, <1>7 DEF Log!Break

\* An open sink's offer is the arrival of a tick.
LEMMA OfferArrives ==
  ASSUME Inv, Offer, open[loaded]
  PROVE  /\ loaded \in Recordings /\ tick \in 1..MaxTick
         /\ Log!Arrives(loaded, tick)
         /\ phaseBar' = phaseBar
<1>1. PICK s \in Recordings : s = loaded
  BY DEF Offer, OfferWith, Inv, SamplerInv
<1>2. /\ tick \in Ticks /\ wpc[s] # "none" /\ open[s]
      /\ UNCHANGED <<open, wpc, result>>
      /\ offered' = [offered EXCEPT ![s] = Append(@, tick)]
  BY <1>1 DEF Offer, OfferWith, Inv, TypeOK, SamplerInv, UnusedInv, Ticks, writer
<1>3. offered[s] \in Seq(Ticks)
  BY AcceptedType DEF Inv
<1>4. /\ offered'[s] = Append(offered[s], tick)
      /\ \A r \in Recordings \ {s} : offered'[r] = offered[r]
  BY <1>2 DEF Inv, TypeOK
<1>5. LastOf(s)' = tick /\ \A r \in Recordings \ {s} : LastOf(r)' = LastOf(r)
  <2>1. /\ offered'[s] # <<>> /\ Len(offered'[s]) = Len(offered[s]) + 1
        /\ offered'[s][Len(offered[s]) + 1] = tick
    BY ONLY <1>2, <1>3, <1>4, AppendProperties
  <2> QED BY <1>4, <2>1 DEF LastOf, Last
<1>6. LastOf(s) = 0 \/ tick = LastOf(s) + 1
  <2>1. CASE offered[s] = <<>>
    BY <2>1 DEF LastOf
  <2>2. CASE offered[s] # <<>>
    <3>1. Last(offered[s]) = tick - 1
      BY <1>1, <2>2 DEF Inv, OrderInv, Last
    <3>2. tick \in Nat
      BY <1>2, BoundsAssumption DEF Ticks
    <3> QED BY <2>2, <3>1, <3>2 DEF LastOf
  <2> QED BY <2>1, <2>2
<1>7. PhaseOf(s) = "open" /\ \A r \in Recordings : PhaseOf(r)' = PhaseOf(r)
  BY <1>2 DEF PhaseOf
<1>8. /\ phaseBar[s] = "open" /\ phaseBar' = phaseBar
      /\ lastBar[s] = 0 \/ tick = lastBar[s] + 1
      /\ lastBar' = [lastBar EXCEPT ![s] = tick]
  BY <1>5, <1>6, <1>7, BarsSame, BarsChange, BarsAt
<1> QED BY <1>1, <1>2, <1>8 DEF Log!Arrives, Ticks

\* An offer appends to the log, or is a stutter.
LEMMA OfferLogs ==
  ASSUME Inv, Offer
  PROVE  [Log!Next]_Log!vars
<1>1. /\ UNCHANGED <<open, file, held, failed, result, wpc>>
  BY DEF Offer, OfferWith, writer
<1>2. CASE ~open[loaded]
  <2>1. UNCHANGED <<queue, dropped, offered>>
    BY <1>2 DEF Offer, OfferWith
  <2> QED BY <1>1, <2>1, QuietLog
<1>3. CASE open[loaded]
  <2>1. PICK s \in Recordings : s = loaded
    BY <1>3, OfferArrives
  <2>2. tick \in 1..MaxTick /\ Log!Arrives(s, tick) /\ phaseBar' = phaseBar
    BY <1>3, <2>1, OfferArrives
  <2>3. CASE failed[s] /\ UNCHANGED dropped
    <3>1. \A r \in Recordings \ {s} : queue'[r] = queue[r]
      BY <1>3, <2>1 DEF Offer, OfferWith, Disconnected, Queued, Full, Inv, TypeOK
    <3>2. \A r \in Recordings : LogOf(r)' = LogOf(r)
      BY <1>1, <2>3, <3>1 DEF LogOf, Accepted
    <3>3. logBar' = logBar
      BY <3>2, BarsSame
    <3>4. Log!Vanish(s, tick)
      BY <1>1, <2>2, <2>3, <3>3 DEF Log!Vanish
    <3> QED BY <2>2, <3>4 DEF Log!Next
  <2>4. CASE ~failed[s] /\ Queued(QUEUE)
    <3>1. /\ queue'[s] = Append(queue[s], tick) /\ dropped' = dropped
          /\ \A r \in Recordings \ {s} : queue'[r] = queue[r]
      BY <2>1, <2>4 DEF Queued, Inv, TypeOK
    <3>2. Accepted(s)' = Append(Accepted(s), tick)
      BY <1>1, <2>2, <3>1, QueueAppends DEF Inv, Ticks
    <3>3. /\ LogOf(s)' = Append(LogOf(s), tick)
          /\ \A r \in Recordings \ {s} : LogOf(r)' = LogOf(r)
      BY <1>1, <2>4, <3>1, <3>2 DEF LogOf, Accepted
    <3>4. logBar' = [logBar EXCEPT ![s] = Append(logBar[s], tick)]
      BY <3>3, BarsChange, BarsAt
    <3>5. Log!Keep(s, tick)
      BY <1>1, <2>2, <2>4, <3>1, <3>4 DEF Log!Keep
    <3> QED BY <2>2, <3>5 DEF Log!Next
  <2>5. CASE Full
    <3>1. dropped' = [dropped EXCEPT ![s] = @ + 1] /\ queue' = queue
      BY <2>1, <2>5 DEF Full
    <3>2. \A r \in Recordings : LogOf(r)' = LogOf(r)
      BY <1>1, <3>1 DEF LogOf, Accepted
    <3>3. logBar' = logBar
      BY <3>2, BarsSame
    <3>4. Log!Lose(s, tick)
      BY <1>1, <2>2, <3>1, <3>3 DEF Log!Lose
    <3> QED BY <2>2, <3>4 DEF Log!Next
  <2>6. \/ failed[s] /\ UNCHANGED dropped
        \/ ~failed[s] /\ Queued(QUEUE)
        \/ Full
    <3>1. Disconnected \/ Queued(QUEUE) \/ Full
      BY <1>3 DEF Offer, OfferWith
    <3>2. wpc[s] = "done" => failed[s]
      BY <1>3, <2>1 DEF Inv, WriterInv
    <3> QED BY <2>1, <3>1, <3>2 DEF Disconnected, Queued
  <2> QED BY <2>3, <2>4, <2>5, <2>6
<1> QED BY <1>2, <1>3

\* A writer's step ends or breaks the log, or is a stutter.
LEMMA WriterLogs ==
  ASSUME Inv, LogInv, NEW s \in Recordings, WriterThread(s)
  PROVE  [Log!Next]_Log!vars
<1>1. CASE WriteFails(s)
  BY <1>1, WriteFailsBreaks DEF Log!Next
<1>2. CASE ~WriteFails(s)
  <2>1. UNCHANGED <<open, dropped, failed, result, offered>>
    BY <1>2 DEF WriterThread, Receive, ReceiveEnds, Write, StoreStats, FinishFile,
       AbortFile, channel
  <2>2. \A r \in Recordings : wpc'[r] = "none" <=> wpc[r] = "none"
    BY <1>2 DEF WriterThread, Receive, ReceiveEnds, Write, StoreStats, FinishFile,
       AbortFile, Inv, TypeOK
  <2>3. \A r \in Recordings : LogOf(r)' = LogOf(r)
    <3>1. CASE Receive(s)
      <4>1. UNCHANGED <<file, failed>>
        BY <3>1 DEF Receive
      <4> QED BY <3>1, <4>1, ReceiveKeepsAccepted DEF LogOf
    <3>2. CASE Write(s)
      <4>1. ~failed[s] /\ failed' = failed
        BY <3>2 DEF Write, Inv, WriterInv
      <4>2. \A r \in Recordings \ {s} : file'[r] = file[r]
        BY <3>2 DEF Write, Inv, TypeOK
      <4> QED BY <3>2, <4>1, <4>2, WriteKeepsAccepted DEF LogOf
    <3>3. CASE ReceiveEnds(s) \/ StoreStats(s) \/ FinishFile(s) \/ AbortFile(s)
      <4>1. UNCHANGED <<file, held, queue, failed>>
        BY <3>3 DEF ReceiveEnds, StoreStats, FinishFile, AbortFile, channel
      <4> QED BY <4>1 DEF LogOf, Accepted
    <3> QED BY <1>2, <3>1, <3>2, <3>3 DEF WriterThread
  <2> QED BY <2>1, <2>2, <2>3, LogStutters
<1> QED BY <1>1, <1>2

\* Every step of the sampler is one of the log or a stutter.
LEMMA StepLogs ==
  ASSUME Inv, LogInv, [Next]_vars
  PROVE  [Log!Next]_Log!vars
<1>1. CASE SamplerThread
  <2>1. CASE Offer
    BY <2>1, OfferLogs
  <2>2. CASE ~Offer
    <3>1. UNCHANGED <<open, dropped, failed, result, offered, file, held, queue, wpc>>
      BY <1>1, <2>2 DEF SamplerThread, CheckStop, PassOk, PassFails, PassUnsupported,
         IdleUntilStopped, LoadSink, Publish, Notify, Sleep, channel, writer
    <3> QED BY <3>1, QuietLog
  <2> QED BY <2>1, <2>2
<1>2. CASE \E call \in {"record_to", "stop_recording", "stop"} : Call(call)
  <2>1. UNCHANGED <<open, dropped, failed, result, offered, file, held, queue, wpc>>
    BY <1>2 DEF Call, channel, writer
  <2> QED BY <2>1, QuietLog
<1>3. CASE SpawnWriter
  BY <1>3, SpawnStarts DEF Log!Next
<1>4. CASE CloseSink
  BY <1>4, CloseCloses DEF Log!Next
<1>5. CASE JoinWriter
  BY <1>5, JoinReports DEF Log!Next
<1>6. CASE OwnerSteps /\ ~SpawnWriter /\ ~CloseSink /\ ~JoinWriter
  <2>1. UNCHANGED <<open, dropped, failed, result, offered, file, held, queue, wpc>>
    BY <1>6 DEF OwnerSteps, TakeWriter, ClearSink, ReadDropped, StoreSink, KeepWriter,
       SetStop, JoinSampler, channel, writer
  <2> QED BY <2>1, QuietLog
<1>7. CASE \E s \in Recordings : WriterThread(s)
  BY <1>7, WriterLogs
<1>8. CASE UNCHANGED vars
  <2>1. UNCHANGED <<open, dropped, failed, result, offered, file, held, queue, wpc>>
    BY <1>8 DEF vars, channel, writer
  <2> QED BY <2>1, QuietLog
<1> QED BY <1>1, <1>2, <1>3, <1>4, <1>5, <1>6, <1>7, <1>8 DEF Next, Terminated, OwnerSteps

\* Every recording is a log of consecutive ticks with counted gaps: what the
\* sampler, the channel, the writer thread and the owner do together is a step
\* of RecordingLog or none (record.rs and sampler.rs).
THEOREM Implements == Spec => RecordsCountedGaps
<1>1. Spec => []Inv /\ []LogInv
  BY LogInvariance, PTL
<1>2. Inv /\ LogInv /\ [Next]_vars => [Log!Next]_Log!vars
  BY StepLogs
<1> QED BY <1>1, <1>2, InitLog, PTL DEF Spec, Log!Spec, RecordsCountedGaps
=============================================================================
