------------------------------ MODULE Playback ------------------------------
(***************************************************************************)
(* Playing PCM samples: snd_pcm_write and snd_pcm_flush of the PCM layer,  *)
(* which collect samples into halves of the DMA buffer, and the transmit   *)
(* side of the two sound cards, the I2S controller and the internal codec. *)
(* The DMA plays the buffer round and round; its interrupt at the end of   *)
(* each half counts, wakes a waiting writer, and stops the DMA after Thres *)
(* halves nobody refilled.                                                 *)
(*                                                                         *)
(* Samples are numbered from 1 in the order the application offers them.   *)
(* A half ends and is interrupted in one action: the code between          *)
(* HAL_DisableIRQ and HAL_EnableIRQ takes less time than a half.  A second *)
(* caller of a busy stream gets -1 (a mutex tried without waiting) and is  *)
(* left out.  Streams are closed between calls.                            *)
(***************************************************************************)
EXTENDS Integers, Sequences

CONSTANTS Half,      \* half_buf_size, in samples
          Thres,     \* tx_underrun_threshold
          MaxCount,  \* the longest write
          MaxNext    \* bound: the samples offered between open and close

ASSUME HalfAssumption == Half \in Nat \ {0}
\* The counters are 8 bits wide: a larger threshold would never be reached,
\* and one of 1 stops the DMA before the second half is played.
ASSUME ThresAssumption == Thres \in 2 .. 255
ASSUME BoundAssumption == MaxCount \in Nat /\ MaxNext \in Nat

Null == -1
Halves == {0, 1}

VARIABLES card,          \* the driver: "i2s" or "codec"
          pc,            \* where the caller is
          job,           \* which call of HAL_SndCard_PcmWrite it is in
          src,           \* its buf and size: samples, then silence
          offer,         \* data_ptr and write_size of snd_pcm_write
          moved,         \* cache_remain
          voids,         \* silent halves still to write
          cache,         \* ppriv->cache and length
          mem,           \* txBuf; fresh: written and not played since
          count,         \* txHalfCallCount and txEndCallCount
          dmaPointer,    \* txDmaPointer
          writePointer,  \* the half it points to
          running,       \* txRunning
          cur,           \* the half the DMA reads
          waiting,       \* isTxSemaphore
          ready,         \* txReady
          next,          \* samples the application knows to be taken
          stalled,       \* history: the DMA had stopped when the writer began
                         \* to wait for it
          taken,         \* history: the last sample read from its buffers
          out            \* history: the samples played, repeats left out

callVars == <<pc, job, src, offer, moved, voids, cache, next, stalled, taken>>
dmaVars == <<mem, count, dmaPointer, writePointer, running, cur, waiting, ready, out>>
vars == <<card, callVars, dmaVars>>

-----------------------------------------------------------------------------
NoData == [lo |-> 1, n |-> 0]
Silence == [lo |-> 1, n |-> 0, fresh |-> FALSE]

\* size samples of a buffer that holds d and then zeros.
Buffer(d, size) == [lo |-> d.lo, n |-> d.n, size |-> size]

\* The first half a buffer fills, and the rest of the buffer.
Fill(b) == IF b.n < Half THEN b.n ELSE Half
Chunk(b) == [lo |-> b.lo, n |-> Fill(b), fresh |-> TRUE]
Rest(b) == [lo |-> b.lo + Fill(b), n |-> b.n - Fill(b), size |-> b.size - Half]

Samples(m) == [i \in 1 .. m.n |-> m.lo + i - 1]

Init ==
  /\ card \in {"i2s", "codec"}
  /\ pc = "closed" /\ job = "data"
  /\ src = Buffer(NoData, 0) /\ offer = NoData /\ moved = 0 /\ voids = 0
  /\ cache = NoData /\ next = 0 /\ taken = 0 /\ out = << >>
  /\ mem = [h \in Halves |-> Silence] /\ count = [h \in Halves |-> 0]
  /\ dmaPointer = Null /\ writePointer = Null /\ running = FALSE /\ cur = 0
  /\ waiting = FALSE /\ ready = FALSE /\ stalled = FALSE

\* txDmaPointer survives a close and need not point into the new buffer.
Open ==
  /\ pc = "closed" /\ pc' = "idle"
  /\ cache' = NoData
  /\ mem' = [h \in Halves |-> Silence] /\ count' = [h \in Halves |-> 0]
  /\ writePointer' = Null /\ dmaPointer' \in {Null, 0, 1}
  /\ ready' = FALSE
  /\ UNCHANGED <<card, job, src, offer, moved, voids, next, stalled, taken, running, cur, waiting,
                 out>>

Close ==
  /\ pc = "idle" /\ pc' = "closed"
  /\ running' = FALSE /\ writePointer' = Null /\ count' = [h \in Halves |-> 0]
  /\ cache' = NoData
  /\ next' = 0 /\ taken' = 0 /\ out' = << >>
  /\ UNCHANGED <<card, job, src, offer, moved, voids, mem, dmaPointer, cur, waiting, ready,
                 stalled>>

-----------------------------------------------------------------------------
(* snd_pcm_write and snd_pcm_flush *)

EnterWrite(rest, r) ==
  /\ offer' = rest /\ moved' = r
  /\ taken' = taken + r
  /\ pc' = "loop"
  /\ UNCHANGED <<card, voids, next, stalled, dmaVars>>

\* The cache takes it all.
WriteCached(c) ==
  /\ pc = "idle" /\ cache.n > 0 /\ c < Half - cache.n
  /\ cache' = [cache EXCEPT !.n = @ + c]
  /\ taken' = taken + c /\ next' = next + c
  /\ UNCHANGED <<card, pc, job, src, offer, moved, voids, stalled, dmaVars>>

\* The cache is completed and written first.
WriteBehind(c) ==
  LET r == Half - cache.n
      full == [cache EXCEPT !.n = Half]
  IN /\ pc = "idle" /\ cache.n > 0 /\ c >= r
     /\ cache' = full /\ job' = "cache" /\ src' = Buffer(full, Half)
     /\ EnterWrite([lo |-> next + 1 + r, n |-> c - r], r)

WriteThrough(c) ==
  LET data == [lo |-> next + 1, n |-> c]
  IN /\ pc = "idle" /\ cache.n = 0
     /\ job' = "data" /\ src' = Buffer(data, c)
     /\ EnterWrite(data, 0)
     /\ UNCHANGED cache

Write == \E c \in 1 .. MaxCount :
           /\ next + c <= MaxNext
           /\ WriteCached(c) \/ WriteBehind(c) \/ WriteThrough(c)

\* One silent half instead of two.
FlushBug ==
  /\ pc = "idle" /\ pc' = "loop"
  /\ voids' = 0
  /\ \/ cache.n > 0 /\ job' = "pad" /\ src' = Buffer(cache, Half)
     \/ cache.n = 0 /\ job' = "void" /\ src' = Buffer(NoData, Half)
  /\ UNCHANGED <<card, offer, moved, cache, next, stalled, taken, dmaVars>>

\* What the cache holds, padded with zeros, and two silent halves.
Flush ==
  /\ pc = "idle" /\ pc' = "loop"
  /\ voids' = 1
  /\ \/ cache.n > 0 /\ job' = "pad" /\ src' = Buffer(cache, Half)
     \/ cache.n = 0 /\ job' = "void" /\ src' = Buffer(NoData, Half)
  /\ UNCHANGED <<card, offer, moved, cache, next, stalled, taken, dmaVars>>

Written(j) == pc = "loop" /\ job = j /\ src.size < Half

\* The result of writing the cache is ignored.
CacheDone ==
  /\ Written("cache")
  /\ cache' = NoData
  /\ \/ /\ offer.n = 0
        /\ pc' = "idle" /\ next' = next + moved
        /\ UNCHANGED <<job, src>>
     \/ /\ offer.n > 0
        /\ job' = "data" /\ src' = Buffer(offer, offer.n)
        /\ UNCHANGED <<pc, next>>
  /\ UNCHANGED <<card, offer, moved, voids, stalled, taken, dmaVars>>

\* pcm_write of the I2S controller: write size too small.
Refused == card = "i2s" /\ offer.n < Half

\* A write that fails after the cache was completed returns -1.
DataDoneBug ==
  /\ Written("data") /\ pc' = "idle"
  /\ \/ /\ Refused
        /\ UNCHANGED <<cache, taken, next>>
     \/ /\ ~Refused
        /\ cache' = [lo |-> src.lo, n |-> src.n]
        /\ taken' = taken + src.n
        /\ next' = next + moved + offer.n
  /\ UNCHANGED <<card, job, src, offer, moved, voids, stalled, dmaVars>>

DataDone ==
  /\ Written("data") /\ pc' = "idle"
  /\ \/ /\ Refused
        /\ next' = next + moved
        /\ UNCHANGED <<cache, taken>>
     \/ /\ ~Refused
        /\ cache' = [lo |-> src.lo, n |-> src.n]
        /\ taken' = taken + src.n
        /\ next' = next + moved + offer.n
  /\ UNCHANGED <<card, job, src, offer, moved, voids, stalled, dmaVars>>

PadDone ==
  /\ Written("pad")
  /\ cache' = NoData
  /\ job' = "void" /\ src' = Buffer(NoData, Half)
  /\ UNCHANGED <<card, pc, offer, moved, voids, next, stalled, taken, dmaVars>>

VoidDone ==
  /\ Written("void")
  /\ \/ /\ voids > 0 /\ voids' = voids - 1
        /\ src' = Buffer(NoData, Half)
        /\ UNCHANGED pc
     \/ /\ voids = 0 /\ pc' = "idle"
        /\ UNCHANGED <<src, voids>>
  /\ UNCHANGED <<card, job, offer, moved, cache, next, stalled, taken, dmaVars>>

-----------------------------------------------------------------------------
(* pcm_write of the two drivers *)

Read(b) == /\ src' = b
           /\ taken' = taken + IF job = "data" THEN src.n - b.n ELSE 0

\* The DMA is stopped: fill what is needed and start it at half 0.
Start ==
  /\ pc = "loop" /\ src.size >= Half /\ ~running
  /\ \/ /\ writePointer = Null /\ src.size >= 2 * Half
        /\ mem' = [h \in Halves |-> IF h = 0 THEN Chunk(src) ELSE Chunk(Rest(src))]
        /\ writePointer' = 1
        /\ Read(Rest(Rest(src)))
     \/ /\ writePointer = Null /\ src.size < 2 * Half
        /\ \/ /\ card = "i2s"
              /\ mem' = [mem EXCEPT ![0] = Chunk(src)]
              /\ writePointer' = 0
           \/ /\ card = "codec"
              /\ mem' = [h \in Halves |-> IF h = 0 THEN Silence ELSE Chunk(src)]
              /\ writePointer' = 1
        /\ Read(Rest(src))
     \/ /\ writePointer # Null
        /\ mem' = [mem EXCEPT ![writePointer] = Chunk(src)]
        /\ Read(Rest(src))
        /\ UNCHANGED writePointer
  /\ running' = TRUE /\ cur' = 0
  /\ UNCHANGED <<card, pc, job, offer, moved, voids, cache, next, stalled, count, dmaPointer,
                 waiting, ready, out>>

SeeRunning ==
  /\ pc = "loop" /\ src.size >= Half /\ running
  /\ pc' = "sync"
  /\ UNCHANGED <<card, job, src, offer, moved, voids, cache, next, stalled, taken, dmaVars>>

\* An underrun that is counted down instead of forgotten.
SeenBug == [h \in Halves |-> IF count[h] > 0 THEN count[h] - 1 ELSE 0]

\* The counters after the writer has looked at them.
Seen == [h \in Halves |->
           IF count[h] > 0 /\ count[1 - h] = 0 THEN count[h] - 1 ELSE 0]

\* The half the DMA is not in.
TargetBug == IF writePointer = 0 THEN 0 ELSE 1
Target == IF dmaPointer = 0 THEN 1 ELSE 0

Refill ==
  /\ mem' = [mem EXCEPT ![Target] = Chunk(src)]
  /\ writePointer' = 1 - Target
  /\ Read(Rest(src))
  /\ count' = Seen
  /\ pc' = "loop"
  /\ UNCHANGED <<card, job, offer, moved, voids, cache, next, stalled, dmaPointer, running,
                 cur, waiting, out>>

\* A half has ended since the writer last looked.
Sync ==
  /\ pc = "sync" /\ \E h \in Halves : count[h] > 0
  /\ Refill
  /\ UNCHANGED ready

\* None has: wait for the end of the DMA transport.
Wait ==
  /\ pc = "sync" /\ \A h \in Halves : count[h] = 0
  /\ pc' = "wait" /\ waiting' = TRUE /\ stalled' = ~running
  /\ UNCHANGED <<card, job, src, offer, moved, voids, cache, next, taken, mem, count,
                 dmaPointer, writePointer, running, cur, ready, out>>

Wake ==
  /\ pc = "wait" /\ ready
  /\ ready' = FALSE
  /\ Refill

-----------------------------------------------------------------------------
(* The interrupt at the end of a half *)

OverrunBug == count[cur] + 1 > Thres \/ count[1 - cur] > Thres
Overrun == count[cur] + 1 >= Thres \/ count[1 - cur] >= Thres

\* The speaker has got the half; it was new, or a repeat.
Played == out' = IF mem[cur].fresh THEN out \o Samples(mem[cur]) ELSE out

\* The end callback forgets to release the semaphore.
SignalBug == waiting' = FALSE /\ ready' = (ready \/ (waiting /\ cur = 0))

\* Wake the writer.
Signal == waiting' = FALSE /\ ready' = (ready \/ waiting)

\* The codec does not clear what was played.
EndedBug(m) == [m EXCEPT !.fresh = FALSE]

\* What the callback leaves of the half.
Ended(m) == IF card = "codec" THEN Silence ELSE [m EXCEPT !.fresh = FALSE]

Tick ==
  /\ running
  /\ Played
  /\ Signal
  /\ \/ /\ Overrun
        /\ running' = FALSE /\ writePointer' = Null /\ dmaPointer' = Null
        /\ count' = [h \in Halves |-> 0]
        /\ mem' = [mem EXCEPT ![cur].fresh = FALSE]
        /\ UNCHANGED cur
     \/ /\ ~Overrun
        /\ count' = [count EXCEPT ![cur] = @ + 1]
        /\ dmaPointer' = 1 - cur /\ cur' = 1 - cur
        /\ mem' = [mem EXCEPT ![cur] = Ended(@)]
        /\ UNCHANGED <<running, writePointer>>
  /\ UNCHANGED <<card, callVars>>

Step == \/ CacheDone \/ DataDone \/ PadDone \/ VoidDone
        \/ Start \/ SeeRunning \/ Sync \/ Wait \/ Wake

Next == Open \/ Close \/ Write \/ Flush \/ Step \/ Tick

Spec == Init /\ [][Next]_vars

\* The DMA goes on while it runs; the caller's thread gets its turn.
FairSpec == Spec /\ WF_vars(Step) /\ WF_vars(Tick)

-----------------------------------------------------------------------------
Data == [lo : Nat \ {0}, n : Nat]

TypeOK ==
  /\ card \in {"i2s", "codec"}
  /\ pc \in {"closed", "idle", "loop", "sync", "wait"}
  /\ job \in {"data", "cache", "pad", "void"}
  /\ src \in [lo : Nat \ {0}, n : Nat, size : Nat] /\ src.n <= src.size
  /\ offer \in Data /\ moved \in 0 .. Half /\ voids \in {0, 1}
  /\ cache \in Data /\ cache.n <= Half
  /\ mem \in [Halves -> [lo : Nat \ {0}, n : 0 .. Half, fresh : BOOLEAN]]
  /\ count \in [Halves -> 0 .. Thres - 1]
  /\ dmaPointer \in {Null, 0, 1} /\ writePointer \in {Null, 0, 1}
  /\ running \in BOOLEAN /\ cur \in Halves
  /\ waiting \in BOOLEAN /\ ready \in BOOLEAN /\ stalled \in BOOLEAN
  /\ next \in Nat /\ taken \in Nat /\ out \in Seq(Nat)

\* What a call returns is what it took: not a sample is dropped that the
\* application believes to be on its way, none is offered again that was
\* taken, whichever part of a write was cached, written or refused.
Acknowledged == pc = "idle" => next = taken

\* The codec never plays a half twice: what is not refilled in time is
\* silence.  (The I2S controller repeats the old half.)
NeverRepeats == card = "codec" /\ running /\ mem[cur].n > 0 => mem[cur].fresh

\* The half the DMA is reading is never written.
NeverTorn == [][running /\ running' /\ cur' = cur => mem'[cur] = mem[cur]]_vars

\* When a flush returns, every sample has been played.
FlushDrains == [][VoidDone /\ pc' = "idle" => Len(out) = taken]_vars

Stream == INSTANCE SampleStream

\* The speaker gets the application's samples, in order, each once.
ImplementsStream == Stream!Spec

\* A writer that waits has the semaphore coming: either it has been released,
\* or the interrupt of a DMA that runs is bound to release it.  And nobody
\* else's token is left over that would let the next writer through too early.
NoLostWakeup ==
  IF pc = "wait" THEN (ready <=> ~waiting) /\ (waiting => running \/ stalled)
                 ELSE ~ready /\ ~waiting

\* What a call has yet to do, in the order in which it does it.
Left == src.size + (CASE job = "cache" -> offer.n
                      [] job = "data"  -> 0
                      [] job = "pad"   -> 2 * Half
                      [] job = "void"  -> IF voids = 1 THEN Half ELSE 0)
Stage == CASE job = "cache" -> 1 [] job = "data" -> 0 [] job = "pad" -> 2 [] job = "void" -> voids
CallRank == CASE pc = "loop" -> 3 * (Left + Stage) + 3
              [] pc = "sync" -> 3 * (Left + Stage) + 2
              [] pc = "wait" -> 3 * (Left + Stage) + 1
              [] OTHER       -> 0

\* Every step of a call brings it nearer to its return, and no interrupt
\* sets it back.
CallDescends == [][/\ Step => CallRank' < CallRank /\ CallRank' >= 0
                   /\ Tick => CallRank' = CallRank]_vars

\* A call returns, however its steps and the interrupts interleave, unless
\* the DMA was stopped between its look at txRunning and HAL_DisableIRQ.
Returns == pc \in {"loop", "sync", "wait"} ~> pc = "idle" \/ stalled

=============================================================================
