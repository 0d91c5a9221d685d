--------------------------- MODULE PlaybackProofs ---------------------------
(***************************************************************************)
(* Proofs about Playback, for every size of the buffer, every threshold    *)
(* and every bound.                                                        *)
(*                                                                         *)
(* The inductive invariant follows the samples.  New(h) of them wait in    *)
(* half h; the speaker has got Len(out), so the halves hold what comes up  *)
(* to the sample Q, in the order the DMA will read them (Place), and the   *)
(* call in progress goes on from there (Order).  Nothing waiting is ever   *)
(* overwritten because a half that was counted by the interrupt has been   *)
(* played (Fresh), and a writer only wakes when one was counted, or when   *)
(* the DMA has been stopped and has nothing left (Control).                *)
(***************************************************************************)
EXTENDS Playback, SequenceTheorems, TLAPS

New(h) == IF mem[h].fresh THEN mem[h].n ELSE 0

Q == Len(out) + New(0) + New(1)

Control ==
  /\ waiting => pc = "wait" /\ ~ready
  /\ ready => pc = "wait"
  /\ ready /\ running => count[1 - cur] > 0
  /\ ready /\ ~running => dmaPointer = Null /\ writePointer = Null
  /\ pc \in {"sync", "wait"} => src.size >= Half
  /\ pc = "closed" => ~running /\ next = 0 /\ taken = 0 /\ out = << >>
  /\ pc = "sync" => ~waiting

\* The half before the DMA's was counted as often as that one, or once more.
Counted ==
  /\ ~running => writePointer # 0 /\ count[0] = 0 /\ count[1] = 0
  /\ running => \/ count[1 - cur] = count[cur]
                \/ count[1 - cur] = count[cur] + 1
  /\ running /\ count[1 - cur] > 0 => dmaPointer = cur

Fresh ==
  /\ running => /\ mem[1 - cur].fresh => count[1 - cur] = 0
                /\ mem[cur].fresh => count[cur] = 0
  /\ ~running /\ pc # "closed" =>
       /\ ~mem[1].fresh
       /\ writePointer = Null => ~mem[0].fresh
       /\ writePointer = 1 => mem[0].fresh

First == IF running THEN cur ELSE 0

Place ==
  pc # "closed" =>
    \A h \in Halves :
      New(h) > 0 => mem[h].lo = Len(out) + 1 + IF h = First THEN 0 ELSE New(1 - h)

Busy == pc \in {"loop", "sync", "wait"}

Order ==
  /\ pc = "idle" => /\ next = taken /\ taken = Q + cache.n
                    /\ cache.n > 0 => cache.lo = Q + 1
  /\ Busy /\ src.n > 0 => src.lo = Q + 1
  /\ Busy /\ job # "data" => src.size \in {0, Half} /\ taken = Q + src.n
  /\ Busy /\ job = "data" =>
       /\ cache.n = 0 /\ taken = Q /\ src.n = src.size
       /\ next + moved + offer.n = Q + src.n
       /\ src.n <= offer.n
       /\ offer.n < Half => src.n = offer.n
  /\ Busy /\ job = "cache" => /\ next + moved = taken
                              /\ offer.n > 0 => offer.lo = taken + 1
  /\ Busy /\ job \in {"pad", "void"} => next = taken
  /\ Busy /\ job = "pad" => voids = 1
  /\ Busy /\ job = "void" => src.n = 0 /\ cache.n = 0

\* After the first silent half only the half the DMA reads has samples, and
\* after the second none has.
Drained ==
  Busy /\ job = "void" =>
    /\ voids = 0 \/ src.size = 0 =>
         /\ running => /\ New(1 - cur) = 0
                       /\ New(cur) > 0 => count[1 - cur] = 0
         /\ ~running => New(0) = 0 /\ New(1) = 0
    /\ voids = 0 /\ src.size = 0 => New(0) = 0 /\ New(1) = 0

Clear == card = "codec" /\ running =>
           \A h \in Halves : mem[h].n > 0 => mem[h].fresh

Inv == TypeOK /\ Control /\ Counted /\ Fresh /\ Place /\ Order /\ Drained /\ Clear

-----------------------------------------------------------------------------
(* Facts about the operators *)

\* Half is a number, and what the type invariant says field by field.
LEMMA Typed ==
  ASSUME TypeOK
  PROVE  /\ Half \in Nat /\ Half > 0 /\ Thres \in Nat /\ Thres > 1
         /\ src.lo \in Nat /\ src.lo > 0 /\ src.n \in Nat /\ src.size \in Nat
         /\ src.n <= src.size
         /\ offer.lo \in Nat /\ offer.lo > 0 /\ offer.n \in Nat
         /\ moved \in Nat /\ moved <= Half
         /\ cache.lo \in Nat /\ cache.lo > 0 /\ cache.n \in Nat /\ cache.n <= Half
         /\ \A h \in Halves : /\ mem[h].lo \in Nat /\ mem[h].lo > 0
                              /\ mem[h].n \in Nat /\ mem[h].n <= Half
                              /\ mem[h].fresh \in BOOLEAN
                              /\ count[h] \in Nat /\ count[h] < Thres
                              /\ New(h) \in Nat
         /\ Len(out) \in Nat /\ Q \in Nat
         /\ next \in Nat /\ taken \in Nat
<1> USE HalfAssumption, ThresAssumption
<1>1. Half \in Nat /\ Half > 0 /\ Thres \in Nat /\ Thres > 1
  BY SMT
<1>2. /\ src.lo \in Nat /\ src.lo > 0 /\ src.n \in Nat /\ src.size \in Nat
      /\ src.n <= src.size
  BY DEF TypeOK
<1>3. offer.lo \in Nat /\ offer.lo > 0 /\ offer.n \in Nat
  BY DEF TypeOK, Data
<1>4. moved \in Nat /\ moved <= Half
  BY <1>1 DEF TypeOK
<1>5. cache.lo \in Nat /\ cache.lo > 0 /\ cache.n \in Nat /\ cache.n <= Half
  BY DEF TypeOK, Data
<1>6. \A h \in Halves : /\ mem[h].lo \in Nat /\ mem[h].lo > 0
                        /\ mem[h].n \in Nat /\ mem[h].n <= Half
                        /\ mem[h].fresh \in BOOLEAN
                        /\ New(h) \in Nat
  BY <1>1 DEF TypeOK, New
<1>7. \A h \in Halves : count[h] \in Nat /\ count[h] < Thres
  BY <1>1 DEF TypeOK
<1>8. Len(out) \in Nat
  BY LenProperties DEF TypeOK
<1>9. Q \in Nat
  BY <1>6, <1>8 DEF Q, Halves
<1> QED BY <1>1, <1>2, <1>3, <1>4, <1>5, <1>6, <1>7, <1>8, <1>9 DEF TypeOK

LEMMA DmaFrame ==
  ASSUME UNCHANGED dmaVars
  PROVE  /\ mem' = mem /\ count' = count /\ dmaPointer' = dmaPointer
         /\ writePointer' = writePointer /\ running' = running /\ cur' = cur
         /\ waiting' = waiting /\ ready' = ready /\ out' = out
         /\ New(0)' = New(0) /\ New(1)' = New(1) /\ Q' = Q
         /\ New(cur)' = New(cur) /\ New(1 - cur)' = New(1 - cur)
<1>1. /\ mem' = mem /\ count' = count /\ dmaPointer' = dmaPointer
      /\ writePointer' = writePointer /\ running' = running /\ cur' = cur
      /\ waiting' = waiting /\ ready' = ready /\ out' = out
  BY DEF dmaVars
<1> QED BY <1>1 DEF New, Q

\* A step of the caller that leaves the buffer alone keeps what only the
\* buffer is about.
LEMMA CallFrame ==
  ASSUME Inv, UNCHANGED dmaVars, card' = card, pc # "closed", pc' # "closed"
  PROVE  Counted' /\ Fresh' /\ Place' /\ Clear'
<1>1. /\ mem' = mem /\ count' = count /\ dmaPointer' = dmaPointer
      /\ writePointer' = writePointer /\ running' = running /\ cur' = cur
      /\ out' = out
  BY DmaFrame
<1>2. Counted' /\ Clear'
  BY <1>1 DEF Inv, Counted, Clear
<1>3. Fresh'
  BY <1>1 DEF Inv, Fresh
<1>4. Place'
  BY <1>1 DEF Inv, Place, New, First
<1> QED BY <1>2, <1>3, <1>4

LEMMA NoDataType == NoData \in Data /\ NoData.n = 0 /\ NoData.lo = 1
BY DEF NoData, Data

LEMMA BufferType ==
  ASSUME NEW d \in Data, NEW size \in Nat, d.n <= size
  PROVE  /\ Buffer(d, size) \in [lo : Nat \ {0}, n : Nat, size : Nat]
         /\ Buffer(d, size).n = d.n /\ Buffer(d, size).lo = d.lo
         /\ Buffer(d, size).size = size
BY DEF Buffer, Data

-----------------------------------------------------------------------------
(* Every action keeps the invariant *)

LEMMA InitInv == Init => Inv
<1> SUFFICES ASSUME Init PROVE Inv
  OBVIOUS
<1>1. mem \in [Halves -> [lo : Nat \ {0}, n : 0 .. Half, fresh : BOOLEAN]]
  BY HalfAssumption DEF Init, Silence, Halves
<1>2. count \in [Halves -> 0 .. Thres - 1]
  BY ThresAssumption, SMT DEF Init, Halves
<1>3. out \in Seq(Nat)
  BY EmptySeq DEF Init
<1>t. /\ card \in {"i2s", "codec"} /\ pc = "closed" /\ job = "data"
      /\ src = Buffer(NoData, 0) /\ offer = NoData /\ moved = 0 /\ voids = 0
      /\ cache = NoData /\ next = 0 /\ taken = 0
      /\ dmaPointer = Null /\ writePointer = Null /\ running = FALSE /\ cur = 0
      /\ waiting = FALSE /\ ready = FALSE /\ stalled = FALSE
  BY DEF Init
<1>b. src \in [lo : Nat \ {0}, n : Nat, size : Nat] /\ src.n <= src.size
  BY <1>t, NoDataType, BufferType
<1>m. moved \in 0 .. Half /\ cache.n <= Half
  BY <1>t, NoDataType, HalfAssumption
<1>4. TypeOK
  BY <1>1, <1>2, <1>3, <1>t, <1>b, <1>m, NoDataType DEF TypeOK, Halves
<1>5. Control /\ Counted /\ Fresh /\ Place /\ Order /\ Drained /\ Clear
  BY DEF Init, Control, Counted, Fresh, Place, Order, Drained, Clear, Busy, Halves, Null
<1> QED BY <1>4, <1>5 DEF Inv

LEMMA OpenStep == Inv /\ Open => Inv'
<1> SUFFICES ASSUME Inv, Open PROVE Inv'
  OBVIOUS
<1> USE HalfAssumption, ThresAssumption
<1>u. /\ pc = "closed" /\ pc' = "idle" /\ cache' = NoData
      /\ mem' = [h \in Halves |-> Silence] /\ count' = [h \in Halves |-> 0]
      /\ writePointer' = Null /\ dmaPointer' \in {Null, 0, 1} /\ ready' = FALSE
      /\ card' = card /\ job' = job /\ src' = src /\ offer' = offer /\ moved' = moved
      /\ voids' = voids /\ next' = next /\ stalled' = stalled /\ taken' = taken
      /\ running' = running /\ cur' = cur /\ waiting' = waiting /\ out' = out
  BY DEF Open
<1>i. TypeOK /\ ~running /\ next = 0 /\ taken = 0 /\ out = << >> /\ ~waiting
  BY <1>u DEF Inv, Control, TypeOK
<1>1. mem' \in [Halves -> [lo : Nat \ {0}, n : 0 .. Half, fresh : BOOLEAN]]
  BY <1>u DEF Silence, Halves
<1>2. count' \in [Halves -> 0 .. Thres - 1]
  BY <1>u, SMT DEF Halves
<1>m. cache' \in Data /\ cache'.n <= Half
  BY <1>u, NoDataType
<1>3. TypeOK'
  BY <1>u, <1>i, <1>1, <1>2, <1>m DEF TypeOK
<1>4. /\ mem'[0] = Silence /\ mem'[1] = Silence /\ count'[0] = 0 /\ count'[1] = 0
      /\ Len(out') = 0
  BY <1>u, <1>i DEF Halves
<1>5. New(0)' = 0 /\ New(1)' = 0 /\ Q' = 0
  BY <1>4 DEF New, Q, Silence
<1>6. Control' /\ Counted'
  BY <1>u, <1>i, <1>4, SMT DEF Control, Counted, Null
<1>7. Fresh'
  BY <1>u, <1>i, <1>4, SMT DEF Fresh, Silence, Null
<1>8. Place'
  BY <1>5 DEF Place, Halves
<1>9. Order' /\ Drained'
  BY <1>u, <1>i, <1>5, SMT DEF Order, Drained, Busy, NoData
<1>10. Clear'
  BY <1>u, <1>i DEF Clear
<1> QED BY <1>3, <1>6, <1>7, <1>8, <1>9, <1>10 DEF Inv

LEMMA CloseStep == Inv /\ Close => Inv'
<1> SUFFICES ASSUME Inv, Close PROVE Inv'
  OBVIOUS
<1> USE HalfAssumption, ThresAssumption
<1>u. /\ pc = "idle" /\ pc' = "closed" /\ running' = FALSE /\ writePointer' = Null
      /\ count' = [h \in Halves |-> 0] /\ cache' = NoData
      /\ next' = 0 /\ taken' = 0 /\ out' = << >>
      /\ card' = card /\ job' = job /\ src' = src /\ offer' = offer /\ moved' = moved
      /\ voids' = voids /\ mem' = mem /\ dmaPointer' = dmaPointer /\ cur' = cur
      /\ waiting' = waiting /\ ready' = ready /\ stalled' = stalled
  BY DEF Close
<1>i. TypeOK /\ ~waiting /\ ~ready
  BY <1>u DEF Inv, Control, TypeOK
<1>2. count' \in [Halves -> 0 .. Thres - 1]
  BY <1>u, SMT DEF Halves
<1>3. out' \in Seq(Nat)
  BY <1>u, EmptySeq
<1>m. cache' \in Data /\ cache'.n <= Half
  BY <1>u, NoDataType
<1>4. TypeOK'
  BY <1>u, <1>i, <1>2, <1>3, <1>m DEF TypeOK
<1>5. Control' /\ Counted'
  BY <1>u, <1>i, SMT DEF Control, Counted, Null, Halves
<1>6. Fresh' /\ Place' /\ Order' /\ Drained' /\ Clear'
  BY <1>u DEF Fresh, Place, Order, Drained, Clear, Busy
<1> QED BY <1>4, <1>5, <1>6 DEF Inv

\* A step of the caller alone: what is left to show.
LEMMA CallStep ==
  ASSUME Inv, UNCHANGED dmaVars, card' = card, pc # "closed",
         pc' \in {"idle", "loop", "sync"}, pc # "wait", TypeOK',
         pc' = "sync" => src'.size >= Half,
         Order', Drained'
  PROVE  Inv'
<1>1. Counted' /\ Fresh' /\ Place' /\ Clear'
  BY CallFrame
<1>2. /\ waiting' = waiting /\ ready' = ready /\ running' = running
      /\ count' = count /\ cur' = cur
  BY DEF dmaVars
<1>3. ~waiting /\ ~ready
  BY DEF Inv, Control
<1>4. Control'
  BY <1>2, <1>3 DEF Control
<1> QED BY <1>1, <1>4 DEF Inv

LEMMA WriteCachedStep ==
  ASSUME Inv, NEW c \in Nat, WriteCached(c)
  PROVE  Inv'
<1>u. /\ pc = "idle" /\ pc' = pc /\ cache.n > 0 /\ c < Half - cache.n
      /\ cache' = [cache EXCEPT !.n = @ + c] /\ taken' = taken + c /\ next' = next + c
      /\ card' = card /\ job' = job /\ src' = src /\ offer' = offer /\ moved' = moved
      /\ voids' = voids /\ stalled' = stalled /\ UNCHANGED dmaVars
  BY DEF WriteCached
<1>f. /\ mem' = mem /\ count' = count /\ dmaPointer' = dmaPointer
      /\ writePointer' = writePointer /\ running' = running /\ cur' = cur
      /\ waiting' = waiting /\ ready' = ready /\ out' = out /\ Q' = Q
  BY <1>u, DmaFrame
<1>i. TypeOK /\ Order
  BY DEF Inv
<1>n. /\ Half \in Nat /\ Half > 0 /\ next \in Nat /\ taken \in Nat /\ Q \in Nat
      /\ cache.n \in Nat /\ cache.n <= Half /\ cache.lo \in Nat /\ cache.lo > 0
  BY <1>i, Typed
<1>d. cache \in Data
  BY <1>i DEF TypeOK
<1>c. cache' \in Data /\ cache'.n = cache.n + c /\ cache'.lo = cache.lo /\ cache'.n <= Half
  BY <1>u, <1>d, <1>n DEF Data
<1>1. TypeOK'
  BY <1>u, <1>f, <1>i, <1>c DEF TypeOK
<1>2. Order'
  BY <1>u, <1>f, <1>i, <1>c, <1>n DEF Order, Busy
<1>3. Drained'
  BY <1>u DEF Drained, Busy
<1> QED BY <1>u, <1>1, <1>2, <1>3, CallStep

LEMMA WriteBehindStep ==
  ASSUME Inv, NEW c \in Nat, WriteBehind(c)
  PROVE  Inv'
<1> DEFINE r == Half - cache.n
           full == [cache EXCEPT !.n = Half]
           rest == [lo |-> next + 1 + r, n |-> c - r]
<1>u. /\ pc = "idle" /\ pc' = "loop" /\ cache.n > 0 /\ c >= r
      /\ cache' = full /\ job' = "cache" /\ src' = Buffer(full, Half)
      /\ offer' = rest /\ moved' = r /\ taken' = taken + r
      /\ card' = card /\ voids' = voids /\ next' = next /\ stalled' = stalled
      /\ UNCHANGED dmaVars
  BY DEF WriteBehind, EnterWrite
<1>f. /\ mem' = mem /\ count' = count /\ dmaPointer' = dmaPointer
      /\ writePointer' = writePointer /\ running' = running /\ cur' = cur
      /\ waiting' = waiting /\ ready' = ready /\ out' = out /\ Q' = Q
  BY <1>u, DmaFrame
<1>i. TypeOK /\ Order
  BY DEF Inv
<1>n. /\ Half \in Nat /\ Half > 0 /\ next \in Nat /\ taken \in Nat /\ Q \in Nat
      /\ cache.n \in Nat /\ cache.n <= Half /\ cache.lo \in Nat /\ cache.lo > 0
  BY <1>i, Typed
<1>r. r \in 0 .. Half /\ r + cache.n = Half /\ r \in Nat
  BY <1>n
<1>c. /\ full \in Data /\ full.n = Half /\ full.lo = cache.lo
  BY <1>i, <1>n DEF TypeOK, Data
<1>o. rest \in Data /\ rest.n = c - r /\ rest.lo = next + 1 + r
  BY <1>u, <1>i, <1>r, <1>n DEF Data
<1> HIDE DEF r, full, rest
<1>s. /\ src' \in [lo : Nat \ {0}, n : Nat, size : Nat]
      /\ src'.n = Half /\ src'.lo = cache.lo /\ src'.size = Half
  BY <1>u, <1>c, <1>n, BufferType
<1>1. TypeOK'
  BY <1>u, <1>f, <1>i, <1>c, <1>r, <1>o, <1>s, <1>n DEF TypeOK
<1>2. Order'
  BY <1>u, <1>f, <1>i, <1>c, <1>r, <1>o, <1>s, <1>n DEF Order, Busy
<1>3. Drained'
  BY <1>u DEF Drained, Busy
<1> QED BY <1>u, <1>1, <1>2, <1>3, CallStep

LEMMA WriteThroughStep ==
  ASSUME Inv, NEW c \in Nat, WriteThrough(c)
  PROVE  Inv'
<1> DEFINE data == [lo |-> next + 1, n |-> c]
<1>u. /\ pc = "idle" /\ pc' = "loop" /\ cache.n = 0 /\ cache' = cache
      /\ job' = "data" /\ src' = Buffer(data, c)
      /\ offer' = data /\ moved' = 0 /\ taken' = taken + 0
      /\ card' = card /\ voids' = voids /\ next' = next /\ stalled' = stalled
      /\ UNCHANGED dmaVars
  BY DEF WriteThrough, EnterWrite
<1>f. /\ mem' = mem /\ count' = count /\ dmaPointer' = dmaPointer
      /\ writePointer' = writePointer /\ running' = running /\ cur' = cur
      /\ waiting' = waiting /\ ready' = ready /\ out' = out /\ Q' = Q
  BY <1>u, DmaFrame
<1>i. TypeOK /\ Order
  BY DEF Inv
<1>o. data \in Data /\ data.n = c /\ data.lo = next + 1
  BY <1>i, Typed DEF Data
<1>s. /\ src' \in [lo : Nat \ {0}, n : Nat, size : Nat]
      /\ src'.n = c /\ src'.lo = next + 1 /\ src'.size = c
  BY <1>u, <1>o, BufferType
<1>t. taken' = taken /\ 0 \in 0 .. Half
  BY <1>u, <1>i, Typed
<1> HIDE DEF data
<1>1. TypeOK'
  BY <1>u, <1>f, <1>i, <1>o, <1>s, <1>t DEF TypeOK
<1>2. Order'
  BY <1>u, <1>f, <1>i, <1>o, <1>s, <1>t, Typed DEF Order, Busy
<1>3. Drained'
  BY <1>u DEF Drained, Busy
<1> QED BY <1>u, <1>1, <1>2, <1>3, CallStep

LEMMA WriteStep == Inv /\ Write => Inv'
<1> SUFFICES ASSUME Inv, Write PROVE Inv'
  OBVIOUS
<1>1. PICK c \in 1 .. MaxCount : WriteCached(c) \/ WriteBehind(c) \/ WriteThrough(c)
  BY DEF Write
<1>2. c \in Nat
  BY BoundAssumption
<1> QED BY <1>1, <1>2, WriteCachedStep, WriteBehindStep, WriteThroughStep

LEMMA FlushStep == Inv /\ Flush => Inv'
<1> SUFFICES ASSUME Inv, Flush PROVE Inv'
  OBVIOUS
<1>u. /\ pc = "idle" /\ pc' = "loop" /\ voids' = 1
      /\ card' = card /\ offer' = offer /\ moved' = moved /\ cache' = cache
      /\ next' = next /\ stalled' = stalled /\ taken' = taken /\ UNCHANGED dmaVars
  BY DEF Flush
<1>f. /\ mem' = mem /\ count' = count /\ dmaPointer' = dmaPointer
      /\ writePointer' = writePointer /\ running' = running /\ cur' = cur
      /\ waiting' = waiting /\ ready' = ready /\ out' = out /\ Q' = Q
  BY <1>u, DmaFrame
<1>i. TypeOK /\ Order
  BY DEF Inv
<1>s. /\ src' \in [lo : Nat \ {0}, n : Nat, size : Nat]
      /\ src'.size = Half /\ src'.n <= Half
      /\ \/ /\ cache.n > 0 /\ job' = "pad" /\ src'.n = cache.n /\ src'.lo = cache.lo
         \/ /\ cache.n = 0 /\ job' = "void" /\ src'.n = 0
  <2>1. CASE cache.n > 0 /\ job' = "pad" /\ src' = Buffer(cache, Half)
    BY <2>1, <1>i, Typed, BufferType DEF TypeOK
  <2>2. CASE cache.n = 0 /\ job' = "void" /\ src' = Buffer(NoData, Half)
    BY <2>2, <1>i, Typed, NoDataType, BufferType
  <2> QED BY <2>1, <2>2 DEF Flush
<1>1. TypeOK'
  BY <1>u, <1>f, <1>i, <1>s DEF TypeOK
<1>2. Order'
  BY <1>u, <1>f, <1>i, <1>s, Typed DEF Order, Busy
<1>3. Drained'
  BY <1>u, <1>s, <1>i, Typed DEF Drained
<1> QED BY <1>u, <1>1, <1>2, <1>3, CallStep

LEMMA CacheDoneStep == Inv /\ CacheDone => Inv'
<1> SUFFICES ASSUME Inv, CacheDone PROVE Inv'
  OBVIOUS
<1>u. /\ pc = "loop" /\ job = "cache" /\ src.size < Half /\ cache' = NoData
      /\ card' = card /\ offer' = offer /\ moved' = moved /\ voids' = voids
      /\ stalled' = stalled /\ taken' = taken /\ UNCHANGED dmaVars
  BY DEF CacheDone, Written
<1>f. /\ mem' = mem /\ count' = count /\ dmaPointer' = dmaPointer
      /\ writePointer' = writePointer /\ running' = running /\ cur' = cur
      /\ waiting' = waiting /\ ready' = ready /\ out' = out /\ Q' = Q
  BY <1>u, DmaFrame
<1>i. TypeOK /\ Order
  BY DEF Inv
<1>n. /\ Half \in Nat /\ Half > 0 /\ next \in Nat /\ taken \in Nat /\ Q \in Nat
      /\ src.n \in Nat /\ src.size \in Nat /\ src.n <= src.size
      /\ moved \in Nat /\ offer.n \in Nat /\ offer.lo \in Nat
  BY <1>i, Typed
<1>c. cache' \in Data /\ cache'.n = 0 /\ cache'.n <= Half
  BY <1>u, <1>n, NoDataType
<1>q. taken = Q /\ next + moved = Q /\ (offer.n > 0 => offer.lo = Q + 1)
  BY <1>u, <1>i, <1>n DEF Order, Busy
<1>1. CASE offer.n = 0 /\ pc' = "idle" /\ next' = next + moved /\ UNCHANGED <<job, src>>
  <2>1. TypeOK'
    BY <1>u, <1>f, <1>i, <1>c, <1>n, <1>1 DEF TypeOK
  <2>2. Order' /\ Drained'
    BY <1>u, <1>f, <1>c, <1>n, <1>q, <1>1 DEF Order, Drained, Busy
  <2> QED BY <1>u, <1>1, <2>1, <2>2, CallStep
<1>2. CASE /\ offer.n > 0 /\ job' = "data" /\ src' = Buffer(offer, offer.n)
           /\ UNCHANGED <<pc, next>>
  <2>s. /\ src' \in [lo : Nat \ {0}, n : Nat, size : Nat]
        /\ src'.n = offer.n /\ src'.lo = offer.lo /\ src'.size = offer.n
    BY <1>2, <1>i, <1>n, BufferType DEF TypeOK
  <2>1. TypeOK'
    BY <1>u, <1>f, <1>i, <1>c, <1>n, <1>2, <2>s DEF TypeOK
  <2>2. Order' /\ Drained'
    BY <1>u, <1>f, <1>c, <1>n, <1>q, <1>2, <2>s DEF Order, Drained, Busy
  <2> QED BY <1>u, <1>2, <2>1, <2>2, CallStep
<1> QED BY <1>1, <1>2 DEF CacheDone

LEMMA DataDoneStep == Inv /\ DataDone => Inv'
<1> SUFFICES ASSUME Inv, DataDone PROVE Inv'
  OBVIOUS
<1>u. /\ pc = "loop" /\ job = "data" /\ src.size < Half /\ pc' = "idle"
      /\ card' = card /\ job' = job /\ src' = src /\ offer' = offer /\ moved' = moved
      /\ voids' = voids /\ stalled' = stalled /\ UNCHANGED dmaVars
  BY DEF DataDone, Written
<1>f. /\ mem' = mem /\ count' = count /\ dmaPointer' = dmaPointer
      /\ writePointer' = writePointer /\ running' = running /\ cur' = cur
      /\ waiting' = waiting /\ ready' = ready /\ out' = out /\ Q' = Q
  BY <1>u, DmaFrame
<1>i. TypeOK /\ Order
  BY DEF Inv
<1>n. /\ Half \in Nat /\ Half > 0 /\ next \in Nat /\ taken \in Nat /\ Q \in Nat
      /\ src.lo \in Nat /\ src.lo > 0
      /\ src.n \in Nat /\ src.size \in Nat /\ src.n <= src.size
      /\ moved \in Nat /\ offer.n \in Nat /\ offer.lo \in Nat
  BY <1>i, Typed
<1>q. /\ cache.n = 0 /\ taken = Q /\ src.n = src.size
      /\ next + moved + offer.n = Q + src.n
      /\ offer.n < Half => src.n = offer.n
      /\ src.n > 0 => src.lo = Q + 1
  BY <1>u, <1>i DEF Order, Busy
<1>1. CASE Refused /\ next' = next + moved /\ UNCHANGED <<cache, taken>>
  <2>0. offer.n < Half
    BY <1>1 DEF Refused
  <2>1. TypeOK'
    BY <1>u, <1>f, <1>i, <1>n, <1>1 DEF TypeOK
  <2>2. Order' /\ Drained'
    BY <1>u, <1>f, <1>n, <1>q, <1>1, <2>0 DEF Order, Drained, Busy
  <2> QED BY <1>u, <1>1, <2>1, <2>2, CallStep
<1>2. CASE /\ cache' = [lo |-> src.lo, n |-> src.n] /\ taken' = taken + src.n
           /\ next' = next + moved + offer.n
  <2>c. cache' \in Data /\ cache'.n = src.n /\ cache'.lo = src.lo /\ cache'.n <= Half
    BY <1>2, <1>n, <1>u DEF Data
  <2>n. taken' \in Nat /\ next' \in Nat
    BY <1>2, <1>n
  <2>1. TypeOK'
    BY <1>u, <1>f, <1>i, <2>c, <2>n DEF TypeOK
  <2>2. Order' /\ Drained'
    BY <1>u, <1>f, <1>n, <1>q, <1>2, <2>c DEF Order, Drained, Busy
  <2> QED BY <1>u, <1>2, <2>1, <2>2, CallStep
<1> QED BY <1>1, <1>2 DEF DataDone

LEMMA PadDoneStep == Inv /\ PadDone => Inv'
<1> SUFFICES ASSUME Inv, PadDone PROVE Inv'
  OBVIOUS
<1>u. /\ pc = "loop" /\ job = "pad" /\ src.size < Half /\ cache' = NoData
      /\ job' = "void" /\ src' = Buffer(NoData, Half) /\ voids' = voids
      /\ card' = card /\ pc' = pc /\ offer' = offer /\ moved' = moved
      /\ next' = next /\ stalled' = stalled /\ taken' = taken /\ UNCHANGED dmaVars
  BY DEF PadDone, Written
<1>f. /\ mem' = mem /\ count' = count /\ dmaPointer' = dmaPointer
      /\ writePointer' = writePointer /\ running' = running /\ cur' = cur
      /\ waiting' = waiting /\ ready' = ready /\ out' = out /\ Q' = Q
  BY <1>u, DmaFrame
<1>i. TypeOK /\ Order
  BY DEF Inv
<1>n. /\ Half \in Nat /\ Half > 0 /\ next \in Nat /\ taken \in Nat /\ Q \in Nat
      /\ src.n \in Nat /\ src.size \in Nat /\ src.n <= src.size
  BY <1>i, Typed
<1>c. cache' \in Data /\ cache'.n = 0 /\ cache'.n <= Half
  BY <1>u, <1>n, NoDataType
<1>s. /\ src' \in [lo : Nat \ {0}, n : Nat, size : Nat]
      /\ src'.n = 0 /\ src'.size = Half
  BY <1>u, <1>n, NoDataType, BufferType
<1>q. taken = Q /\ next = Q /\ voids = 1
  BY <1>u, <1>i, <1>n DEF Order, Busy
<1>1. TypeOK'
  BY <1>u, <1>f, <1>i, <1>c, <1>n, <1>s DEF TypeOK
<1>2. Order'
  BY <1>u, <1>f, <1>c, <1>n, <1>s, <1>q DEF Order, Busy
<1>3. Drained'
  BY <1>u, <1>n, <1>s, <1>q DEF Drained
<1> QED BY <1>u, <1>1, <1>2, <1>3, CallStep

LEMMA VoidDoneStep == Inv /\ VoidDone => Inv'
<1> SUFFICES ASSUME Inv, VoidDone PROVE Inv'
  OBVIOUS
<1>u. /\ pc = "loop" /\ job = "void" /\ src.size < Half
      /\ card' = card /\ job' = job /\ offer' = offer /\ moved' = moved
      /\ cache' = cache /\ next' = next /\ stalled' = stalled /\ taken' = taken
      /\ UNCHANGED dmaVars
  BY DEF VoidDone, Written
<1>f. /\ mem' = mem /\ count' = count /\ dmaPointer' = dmaPointer
      /\ writePointer' = writePointer /\ running' = running /\ cur' = cur
      /\ waiting' = waiting /\ ready' = ready /\ out' = out /\ Q' = Q
      /\ New(0)' = New(0) /\ New(1)' = New(1)
      /\ New(cur)' = New(cur) /\ New(1 - cur)' = New(1 - cur)
  BY <1>u, DmaFrame
<1>i. TypeOK /\ Order /\ Drained
  BY DEF Inv
<1>n. /\ Half \in Nat /\ Half > 0 /\ next \in Nat /\ taken \in Nat /\ Q \in Nat
      /\ src.n \in Nat /\ src.size \in Nat /\ src.n <= src.size
      /\ cache.n \in Nat /\ voids \in {0, 1}
  BY <1>i, Typed DEF TypeOK
<1>q. taken = Q /\ next = Q /\ src.n = 0 /\ src.size = 0 /\ cache.n = 0
  BY <1>u, <1>i, <1>n DEF Order, Busy
<1>1. CASE voids > 0 /\ voids' = voids - 1 /\ src' = Buffer(NoData, Half) /\ UNCHANGED pc
  <2>s. /\ src' \in [lo : Nat \ {0}, n : Nat, size : Nat]
        /\ src'.n = 0 /\ src'.size = Half /\ voids' = 0
    BY <1>1, <1>n, NoDataType, BufferType
  <2>1. TypeOK'
    BY <1>u, <1>f, <1>i, <1>n, <1>1, <2>s DEF TypeOK
  <2>2. Order'
    BY <1>u, <1>f, <1>n, <1>q, <1>1, <2>s DEF Order, Busy
  <2>3. Drained'
    BY <1>u, <1>f, <1>i, <1>n, <1>q, <1>1, <2>s DEF Drained, Busy
  <2> QED BY <1>u, <1>1, <2>1, <2>2, <2>3, CallStep
<1>2. CASE voids = 0 /\ pc' = "idle" /\ UNCHANGED <<src, voids>>
  <2>1. TypeOK'
    BY <1>u, <1>f, <1>i, <1>n, <1>2 DEF TypeOK
  <2>2. Order' /\ Drained'
    BY <1>u, <1>f, <1>n, <1>q, <1>2 DEF Order, Drained, Busy
  <2> QED BY <1>u, <1>2, <2>1, <2>2, CallStep
<1> QED BY <1>1, <1>2 DEF VoidDone

LEMMA SeeRunningStep == Inv /\ SeeRunning => Inv'
<1> SUFFICES ASSUME Inv, SeeRunning PROVE Inv'
  OBVIOUS
<1>u. /\ pc = "loop" /\ src.size >= Half /\ running /\ pc' = "sync"
      /\ card' = card /\ job' = job /\ src' = src /\ offer' = offer /\ moved' = moved
      /\ voids' = voids /\ cache' = cache /\ next' = next /\ stalled' = stalled
      /\ taken' = taken /\ UNCHANGED dmaVars
  BY DEF SeeRunning
<1>f. /\ mem' = mem /\ count' = count /\ dmaPointer' = dmaPointer
      /\ writePointer' = writePointer /\ running' = running /\ cur' = cur
      /\ waiting' = waiting /\ ready' = ready /\ out' = out /\ Q' = Q
      /\ New(0)' = New(0) /\ New(1)' = New(1)
      /\ New(cur)' = New(cur) /\ New(1 - cur)' = New(1 - cur)
  BY <1>u, DmaFrame
<1>i. TypeOK /\ Order /\ Drained
  BY DEF Inv
<1>1. TypeOK'
  BY <1>u, <1>f, <1>i DEF TypeOK
<1>2. Order'
  BY <1>u, <1>f, <1>i DEF Order, Busy
<1>3. Drained'
  BY <1>u, <1>f, <1>i DEF Drained, Busy
<1> QED BY <1>u, <1>1, <1>2, <1>3, CallStep

LEMMA WaitStep == Inv /\ Wait => Inv'
<1> SUFFICES ASSUME Inv, Wait PROVE Inv'
  OBVIOUS
<1>u. /\ pc = "sync" /\ pc' = "wait" /\ waiting' = TRUE /\ stalled' = ~running
      /\ card' = card /\ job' = job /\ src' = src /\ offer' = offer /\ moved' = moved
      /\ voids' = voids /\ cache' = cache /\ next' = next /\ taken' = taken
      /\ mem' = mem /\ count' = count /\ dmaPointer' = dmaPointer
      /\ writePointer' = writePointer /\ running' = running /\ cur' = cur
      /\ ready' = ready /\ out' = out
  BY DEF Wait
<1>f. /\ Q' = Q /\ New(0)' = New(0) /\ New(1)' = New(1)
      /\ New(cur)' = New(cur) /\ New(1 - cur)' = New(1 - cur)
  BY <1>u DEF New, Q
<1>i. TypeOK /\ Control /\ Counted /\ Fresh /\ Place /\ Order /\ Drained /\ Clear
  BY DEF Inv
<1>1. TypeOK'
  BY <1>u, <1>i DEF TypeOK
<1>2. Control'
  BY <1>u, <1>i DEF Control
<1>3. Counted' /\ Fresh' /\ Clear'
  BY <1>u, <1>i DEF Counted, Fresh, Clear
<1>4. Place'
  BY <1>u, <1>i DEF Place, New, First
<1>5. Order'
  BY <1>u, <1>f, <1>i DEF Order, Busy
<1>6. Drained'
  BY <1>u, <1>f, <1>i DEF Drained, Busy
<1> QED BY <1>1, <1>2, <1>3, <1>4, <1>5, <1>6 DEF Inv

-----------------------------------------------------------------------------
(* The actions that write the buffer *)

LEMMA ChunkFacts ==
  ASSUME NEW b \in [lo : Nat \ {0}, n : Nat, size : Nat], b.n <= b.size, b.size >= Half
  PROVE  /\ Chunk(b) \in [lo : Nat \ {0}, n : 0 .. Half, fresh : BOOLEAN]
         /\ Chunk(b).lo = b.lo /\ Chunk(b).n = Fill(b) /\ Chunk(b).fresh = TRUE
         /\ Fill(b) \in Nat /\ Fill(b) <= b.n /\ Fill(b) <= Half
         /\ b.n = b.size => Fill(b) = Half
         /\ Rest(b) \in [lo : Nat \ {0}, n : Nat, size : Nat]
         /\ Rest(b).lo = b.lo + Fill(b) /\ Rest(b).n = b.n - Fill(b)
         /\ Rest(b).size = b.size - Half /\ Rest(b).n <= Rest(b).size
<1>1. Half \in Nat /\ Half > 0
  BY HalfAssumption
<1>2. b.lo \in Nat /\ b.lo > 0 /\ b.n \in Nat /\ b.size \in Nat
  OBVIOUS
<1>3. /\ Fill(b) \in Nat /\ Fill(b) <= b.n /\ Fill(b) <= Half
      /\ b.n = b.size => Fill(b) = Half
      /\ b.n - Fill(b) \in Nat /\ b.n - Fill(b) <= b.size - Half
  BY <1>1, <1>2 DEF Fill
<1>4. b.size - Half \in Nat /\ b.lo + Fill(b) \in Nat \ {0} /\ Fill(b) \in 0 .. Half
  BY <1>1, <1>2, <1>3
<1> QED BY <1>2, <1>3, <1>4 DEF Chunk, Rest

\* A part of z samples and zeros has gone into the buffer, f of them samples.
LEMMA ReadOrder ==
  ASSUME Inv, pc \in {"loop", "sync", "wait"}, NEW f \in Nat, NEW z \in Nat, Half <= z,
         z <= src.size, f <= src.n, src.n = src.size => f = z,
         src'.lo = src.lo + f, src'.n = src.n - f, src'.size = src.size - z,
         Q' = Q + f, taken' = taken + IF job = "data" THEN src.n - src'.n ELSE 0,
         pc' = "loop", job' = job, offer' = offer, moved' = moved, voids' = voids,
         cache' = cache, next' = next
  PROVE  /\ Order'
         /\ taken' \in Nat
         /\ job = "void" => f = 0 /\ src.size = Half /\ src'.size = 0 /\ src'.n = 0
<1>u. /\ job' = job /\ offer' = offer /\ moved' = moved /\ voids' = voids
      /\ cache' = cache /\ next' = next
  OBVIOUS
<1>i. TypeOK /\ Order
  BY DEF Inv
<1>n. /\ Half \in Nat /\ Half > 0 /\ next \in Nat /\ taken \in Nat /\ Q \in Nat
      /\ src.lo \in Nat /\ src.n \in Nat /\ src.size \in Nat /\ src.n <= src.size
      /\ moved \in Nat /\ offer.n \in Nat /\ offer.lo \in Nat /\ cache.n \in Nat
  BY <1>i, Typed
<1>1. CASE job = "data"
  <2>1. /\ cache.n = 0 /\ taken = Q /\ src.n = src.size
        /\ next + moved + offer.n = Q + src.n
        /\ src.n <= offer.n /\ (src.n > 0 => src.lo = Q + 1)
    BY <1>1, <1>i DEF Order, Busy
  <2>2. taken' = taken + f
    BY <1>1, <1>n
  <2>3. /\ cache'.n = 0 /\ taken' = Q' /\ src'.n = src'.size
        /\ next' + moved' + offer'.n = Q' + src'.n
        /\ src'.n <= offer'.n /\ (src'.n > 0 => src'.lo = Q' + 1)
        /\ ~ offer'.n < Half
    BY <1>u, <1>n, <2>1, <2>2
  <2>4. Order'
    BY <1>1, <1>u, <2>3 DEF Order, Busy
  <2> QED BY <1>1, <1>n, <2>2, <2>4
<1>2. CASE job # "data"
  <2>1. /\ src.size \in {0, Half} /\ taken = Q + src.n
        /\ src.n > 0 => src.lo = Q + 1
    BY <1>2, <1>i DEF Order, Busy
  <2>2. src.size = Half /\ z = Half /\ src'.size = 0 /\ taken' = taken
    BY <1>2, <1>n, <2>1
  <2>3. taken' = Q' + src'.n /\ (src'.n > 0 => src'.lo = Q' + 1)
    BY <1>n, <2>1, <2>2
  <2>4. job = "void" => src.n = 0 /\ f = 0 /\ src'.n = 0
    BY <1>i, <1>n DEF Order, Busy
  <2>5. Order'
    BY <1>2, <1>u, <1>i, <2>2, <2>3, <2>4 DEF Order, Busy
  <2> QED BY <1>n, <2>2, <2>4, <2>5
<1> QED BY <1>1, <1>2

LEMMA RefillStep ==
  ASSUME Inv, Refill, pc \in {"sync", "wait"}, ~waiting, ready' = FALSE,
         \/ running /\ count[1 - cur] > 0
         \/ ~running /\ dmaPointer = Null /\ writePointer = Null
  PROVE  Inv'
<1> USE DEF Halves
<1>u. /\ mem' = [mem EXCEPT ![Target] = Chunk(src)]
      /\ writePointer' = 1 - Target
      /\ src' = Rest(src)
      /\ taken' = taken + IF job = "data" THEN src.n - src'.n ELSE 0
      /\ count' = Seen /\ pc' = "loop"
      /\ card' = card /\ job' = job /\ offer' = offer /\ moved' = moved
      /\ voids' = voids /\ cache' = cache /\ next' = next /\ stalled' = stalled
      /\ dmaPointer' = dmaPointer /\ running' = running /\ cur' = cur
      /\ waiting' = waiting /\ out' = out
  BY DEF Refill, Read
<1>i. TypeOK /\ Control /\ Counted /\ Fresh /\ Place /\ Order /\ Drained /\ Clear
  BY DEF Inv
<1>t. /\ src \in [lo : Nat \ {0}, n : Nat, size : Nat] /\ src.n <= src.size
      /\ src.size >= Half
      /\ mem \in [Halves -> [lo : Nat \ {0}, n : 0 .. Half, fresh : BOOLEAN]]
      /\ cur \in {0, 1} /\ running \in BOOLEAN
  BY <1>i DEF TypeOK, Control
<1>n. /\ Half \in Nat /\ Half > 0 /\ Thres \in Nat /\ Thres > 1
      /\ count[0] \in Nat /\ count[1] \in Nat
      /\ New(0) \in Nat /\ New(1) \in Nat /\ Len(out) \in Nat /\ Q \in Nat
      /\ src.lo \in Nat
  BY <1>i, Typed
<1> DEFINE f == Fill(src)
<1>c. /\ Chunk(src) \in [lo : Nat \ {0}, n : 0 .. Half, fresh : BOOLEAN]
      /\ Chunk(src).lo = src.lo /\ Chunk(src).n = f /\ Chunk(src).fresh = TRUE
      /\ f \in Nat /\ f <= src.n /\ f <= Half
      /\ src.n = src.size => f = Half
      /\ src' \in [lo : Nat \ {0}, n : Nat, size : Nat]
      /\ src'.lo = src.lo + f /\ src'.n = src.n - f
      /\ src'.size = src.size - Half /\ src'.n <= src'.size
  BY <1>u, <1>t, ChunkFacts
<1> HIDE DEF f
<1>w. Target = IF running THEN 1 - cur ELSE 0
  BY <1>i, <1>t DEF Target, Counted, Null
<1>m. /\ mem' \in [Halves -> [lo : Nat \ {0}, n : 0 .. Half, fresh : BOOLEAN]]
      /\ \A h \in Halves : mem'[h] = IF h = Target THEN Chunk(src) ELSE mem[h]
      /\ Target \in {0, 1}
  BY <1>u, <1>t, <1>c DEF Target
<1>s. count' = [h \in Halves |-> 0]
  <2>1. CASE running
    <3>1. count[1 - cur] = count[cur] \/ count[1 - cur] = count[cur] + 1
      BY <2>1, <1>i DEF Counted
    <3>2. count[1 - cur] > 0
      BY <2>1, <1>i, <1>n DEF Counted
    <3>3. \/ count[cur] = 0 /\ count[1 - cur] = 1
          \/ count[0] > 0 /\ count[1] > 0
      BY <3>1, <3>2, <1>n, <1>t
    <3> QED BY <3>3, <1>u, <1>n, <1>t DEF Seen
  <2>2. CASE ~running
    BY <2>2, <1>u, <1>i DEF Seen, Counted
  <2> QED BY <2>1, <2>2
<1>v. ~mem[Target].fresh
  BY <1>i, <1>t, <1>w, <1>n DEF Fresh
<1>k. /\ \A h \in Halves : New(h)' = IF h = Target THEN f ELSE New(h)
      /\ New(Target) = 0
  BY <1>m, <1>c, <1>v DEF New
<1>q. Q' = Q + f
  BY <1>u, <1>m, <1>k, <1>n, <1>c DEF Q
<1>z. Half \in Nat /\ Half <= Half /\ Half <= src.size /\ pc \in {"loop", "sync", "wait"}
  BY <1>n, <1>t
<1>o. /\ Order'
      /\ taken' \in Nat
      /\ job = "void" => f = 0 /\ src.size = Half /\ src'.size = 0 /\ src'.n = 0
  BY <1>u, <1>z, <1>c, <1>q, ReadOrder
<1>e. count' \in [Halves -> 0 .. Thres - 1]
  BY <1>s, <1>n
<1>p. writePointer' \in {Null, 0, 1}
  BY <1>u, <1>m
<1>1. TypeOK'
  BY <1>u, <1>i, <1>c, <1>m, <1>o, <1>e, <1>p DEF TypeOK
<1>2. Control'
  BY <1>u, <1>i DEF Control
<1>3. Counted'
  BY <1>u, <1>s, <1>w, <1>t DEF Counted
<1>4. Fresh'
  BY <1>u, <1>s, <1>w, <1>t, <1>m, <1>i, <1>c DEF Fresh, Null
<1>5. Place'
  <2>1. f > 0 => src.lo = Q + 1
    BY <1>i, <1>c, <1>n, <1>t, <1>z DEF Order, Busy
  <2>2. Target # First \/ (New(0) = 0 /\ New(1) = 0)
    BY <1>w, <1>t, <1>i DEF First, Fresh, New
  <2>3. First' = First /\ First \in {0, 1}
    BY <1>u, <1>t DEF First
  <2>4. SUFFICES ASSUME NEW h \in Halves, New(h)' > 0
                 PROVE  mem'[h].lo = Len(out) + 1 + IF h = First THEN 0 ELSE New(1 - h)'
    BY <2>3, <1>u DEF Place
  <2>5. CASE h = Target
    <3>1. mem'[h].lo = Q + 1
      BY <2>5, <2>1, <2>4, <1>m, <1>k, <1>c
    <3>2. New(1 - h)' = New(1 - h) /\ Q = Len(out) + New(1 - h)
      BY <2>5, <1>k, <1>n, <1>m DEF Q
    <3>3. h = First => Q = Len(out)
      BY <2>5, <2>2, <1>n DEF Q
    <3> QED BY <3>1, <3>2, <3>3, <1>n
  <2>6. CASE h # Target
    <3>1. mem'[h] = mem[h] /\ New(h)' = New(h)
      BY <2>6, <1>m, <1>k
    <3>2. h = First
      BY <2>2, <2>3, <2>4, <2>6, <3>1, <1>m, <1>k, <1>n
    <3>3. mem[h].lo = Len(out) + 1
      BY <1>i, <3>1, <3>2, <2>4, <1>n DEF Place
    <3> QED BY <3>1, <3>2, <3>3, <1>n
  <2> QED BY <2>5, <2>6
<1>6. Drained'
  <2> SUFFICES ASSUME job = "void" PROVE Drained'
    BY <1>u DEF Drained
  <2>0. f = 0 /\ src.size = Half /\ count'[0] = 0 /\ count'[1] = 0
    BY <1>o, <1>s
  <2>1. CASE running
    <3>1. New(1 - cur)' = 0 /\ New(cur)' = New(cur) /\ running'
      BY <2>0, <2>1, <1>u, <1>k, <1>w, <1>t
    <3>2. voids = 0 => New(cur)' = 0
      BY <2>1, <3>1, <1>i, <1>z, <1>w, <1>n, <1>t DEF Drained, Busy
    <3>3. voids = 0 => New(0)' = 0 /\ New(1)' = 0
      BY <3>1, <3>2, <1>t, <1>u
    <3>4. count'[1 - cur'] = 0
      BY <2>0, <1>t, <1>u
    <3> QED BY <3>1, <3>3, <3>4, <1>u DEF Drained
  <2>2. CASE ~running
    <3>1. New(0)' = 0 /\ New(1)' = New(1) /\ New(1) = 0
      BY <2>0, <2>2, <1>u, <1>k, <1>w, <1>i, <1>z DEF Fresh, New
    <3> QED BY <2>2, <3>1, <1>u DEF Drained
  <2> QED BY <2>1, <2>2
<1>7. Clear'
  BY <1>u, <1>m, <1>c, <1>i DEF Clear
<1> QED BY <1>1, <1>2, <1>3, <1>4, <1>o, <1>5, <1>6, <1>7 DEF Inv

LEMMA SyncStep == Inv /\ Sync => Inv'
<1> SUFFICES ASSUME Inv, Sync PROVE Inv'
  OBVIOUS
<1>u. pc = "sync" /\ Refill /\ ready' = ready /\ \E h \in Halves : count[h] > 0
  BY DEF Sync
<1>i. TypeOK /\ Control /\ Counted
  BY DEF Inv
<1>1. ~waiting /\ ~ready
  BY <1>u, <1>i DEF Control
<1>n. count[0] \in Nat /\ count[1] \in Nat /\ cur \in {0, 1}
  BY <1>i, Typed DEF Halves, TypeOK
<1>2. running /\ count[1 - cur] > 0
  BY <1>u, <1>i, <1>n DEF Counted, Halves
<1>3. ready' = FALSE
  BY <1>u, <1>1, <1>i DEF TypeOK
<1> QED BY <1>u, <1>1, <1>2, <1>3, RefillStep

LEMMA WakeStep == Inv /\ Wake => Inv'
<1> SUFFICES ASSUME Inv, Wake PROVE Inv'
  OBVIOUS
<1>u. pc = "wait" /\ Refill /\ ready' = FALSE /\ ready
  BY DEF Wake
<1>1. ~waiting
  BY <1>u DEF Inv, Control
<1>2. \/ running /\ count[1 - cur] > 0
      \/ ~running /\ dmaPointer = Null /\ writePointer = Null
  BY <1>u DEF Inv, Control
<1> QED BY <1>u, <1>1, <1>2, RefillStep

LEMMA StartKeeps ==
  ASSUME Inv, Start,
         src' \in [lo : Nat \ {0}, n : Nat, size : Nat], src'.n <= src'.size,
         mem' \in [Halves -> [lo : Nat \ {0}, n : 0 .. Half, fresh : BOOLEAN]],
         writePointer' \in {0, 1},
         New(0)' > 0 => mem'[0].lo = Len(out) + 1,
         New(1)' > 0 => mem'[1].lo = Len(out) + 1 + New(0)',
         card = "codec" => \A h \in Halves : mem'[h].n > 0 => mem'[h].fresh,
         Order', taken' \in Nat,
         job = "void" => New(1)' = 0 /\ (voids = 0 => New(0)' = 0)
  PROVE  Inv'
<1>u. /\ pc = "loop" /\ ~running /\ running' = TRUE /\ cur' = 0
      /\ card' = card /\ pc' = pc /\ job' = job /\ offer' = offer /\ moved' = moved
      /\ voids' = voids /\ cache' = cache /\ next' = next /\ stalled' = stalled
      /\ count' = count /\ dmaPointer' = dmaPointer /\ waiting' = waiting
      /\ ready' = ready /\ out' = out
  BY DEF Start
<1>i. TypeOK /\ Control /\ Counted
  BY DEF Inv
<1>w. writePointer' \in {Null, 0, 1}
  OBVIOUS
<1>1. TypeOK'
  BY <1>u, <1>w, <1>i DEF TypeOK, Halves
<1>2. Control'
  BY <1>u, <1>i DEF Control
<1>3. count'[0] = 0 /\ count'[1] = 0
  BY <1>u, <1>i DEF Counted
<1>4. Counted' /\ Fresh'
  BY <1>u, <1>3 DEF Counted, Fresh
<1>5. Place'
  BY <1>u DEF Place, First, Halves
<1>6. New(1 - cur)' = New(1)' /\ New(cur)' = New(0)'
  BY <1>u DEF New
<1>7. Drained'
  BY <1>u, <1>3, <1>6 DEF Drained
<1>8. Clear'
  BY <1>u DEF Clear
<1> QED BY <1>1, <1>2, <1>4, <1>5, <1>7, <1>8 DEF Inv

LEMMA StartStep == Inv /\ Start => Inv'
<1> SUFFICES ASSUME Inv, Start PROVE Inv'
  OBVIOUS
<1> USE DEF Halves
<1>u. /\ pc = "loop" /\ src.size >= Half /\ ~running
      /\ pc' = pc /\ job' = job /\ offer' = offer /\ moved' = moved
      /\ voids' = voids /\ cache' = cache /\ next' = next /\ out' = out
  BY DEF Start
<1>i. TypeOK /\ Control /\ Counted /\ Fresh /\ Place /\ Order /\ Drained
  BY DEF Inv
<1>t. /\ src \in [lo : Nat \ {0}, n : Nat, size : Nat] /\ src.n <= src.size
      /\ mem \in [Halves -> [lo : Nat \ {0}, n : 0 .. Half, fresh : BOOLEAN]]
      /\ writePointer \in {Null, 1}
  BY <1>u, <1>i DEF TypeOK, Counted
<1>n. /\ Half \in Nat /\ Half > 0 /\ Len(out) \in Nat /\ Q \in Nat
      /\ New(0) \in Nat /\ New(1) \in Nat
      /\ src.lo \in Nat /\ src.n \in Nat /\ src.size \in Nat
  BY <1>i, Typed
<1> DEFINE f == Fill(src)
           a == Chunk(src)
           rest == Rest(src)
<1>c. /\ a \in [lo : Nat \ {0}, n : 0 .. Half, fresh : BOOLEAN]
      /\ a.lo = src.lo /\ a.n = f /\ a.fresh = TRUE
      /\ f \in Nat /\ f <= src.n /\ f <= Half
      /\ src.n = src.size => f = Half
      /\ rest \in [lo : Nat \ {0}, n : Nat, size : Nat]
      /\ rest.lo = src.lo + f /\ rest.n = src.n - f
      /\ rest.size = src.size - Half /\ rest.n <= rest.size
  BY <1>u, <1>t, ChunkFacts
<1>o. /\ src.n > 0 => src.lo = Q + 1
      /\ job # "data" => src.size \in {0, Half}
      /\ job = "void" => src.n = 0 /\ (voids = 0 => New(0) = 0 /\ New(1) = 0)
  BY <1>u, <1>i DEF Order, Drained, Busy
<1>z. pc \in {"loop", "sync", "wait"} /\ pc' = "loop"
  BY <1>u
<1>x. f > 0 => src.lo = Q + 1
  BY <1>c, <1>o, <1>n
<1>y. Silence \in [lo : Nat \ {0}, n : 0 .. Half, fresh : BOOLEAN] /\ Silence.n = 0
  BY <1>n DEF Silence
<1>1. CASE /\ writePointer = Null /\ src.size >= 2 * Half
           /\ mem' = [h \in Halves |-> IF h = 0 THEN a ELSE Chunk(rest)]
           /\ writePointer' = 1
           /\ Read(Rest(rest))
  <2> DEFINE g == Fill(rest)
  <2>1. rest.size >= Half
    BY <1>1, <1>c, <1>n
  <2>2. /\ Chunk(rest) \in [lo : Nat \ {0}, n : 0 .. Half, fresh : BOOLEAN]
        /\ Chunk(rest).lo = rest.lo /\ Chunk(rest).n = g /\ Chunk(rest).fresh = TRUE
        /\ g \in Nat /\ g <= rest.n /\ g <= Half
        /\ rest.n = rest.size => g = Half
        /\ Rest(rest) \in [lo : Nat \ {0}, n : Nat, size : Nat]
        /\ Rest(rest).lo = rest.lo + g /\ Rest(rest).n = rest.n - g
        /\ Rest(rest).size = rest.size - Half /\ Rest(rest).n <= Rest(rest).size
    BY <1>c, <2>1, ChunkFacts
  <2> HIDE DEF f, g, a, rest
  <2>3. /\ src' = Rest(rest)
        /\ taken' = taken + IF job = "data" THEN src.n - src'.n ELSE 0
    BY <1>1 DEF Read
  <2>m. /\ mem' \in [Halves -> [lo : Nat \ {0}, n : 0 .. Half, fresh : BOOLEAN]]
        /\ mem'[0] = a /\ mem'[1] = Chunk(rest)
    BY <1>1, <1>c, <2>2
  <2>4. New(0)' = f /\ New(1)' = g
    BY <2>m, <1>c, <2>2 DEF New
  <2>5. New(0) = 0 /\ New(1) = 0
    BY <1>1, <1>u, <1>i DEF Fresh, New
  <2>6. Q = Len(out) /\ Q' = Q + (f + g)
    <3>1. f \in Nat /\ g \in Nat
      BY <1>c, <2>2
    <3> QED BY <3>1, <2>4, <2>5, <1>u, <1>n DEF Q
  <2>7. /\ f + g \in Nat /\ 2 * Half \in Nat /\ Half <= 2 * Half /\ 2 * Half <= src.size
        /\ f + g <= src.n /\ (src.n = src.size => f + g = 2 * Half)
        /\ src'.lo = src.lo + (f + g) /\ src'.n = src.n - (f + g)
        /\ src'.size = src.size - 2 * Half
    <3>1. /\ f \in Nat /\ g \in Nat /\ rest.n = src.n - f /\ g <= rest.n
          /\ rest.lo = src.lo + f /\ rest.size = src.size - Half
      BY <1>c, <2>2
    <3>2. /\ src'.lo = rest.lo + g /\ src'.n = rest.n - g /\ src'.size = rest.size - Half
      BY <2>2, <2>3
    <3>3. src.n = src.size => f = Half /\ g = Half
      BY <1>c, <2>2, <3>1
    <3>4. src.size >= 2 * Half
      BY <1>1
    <3> HIDE DEF rest, f, g
    <3>5. /\ f + g <= src.n /\ (src.n = src.size => f + g = 2 * Half)
      BY <3>1, <3>3, <1>n
    <3>6. /\ src'.lo = src.lo + (f + g) /\ src'.n = src.n - (f + g)
          /\ src'.size = src.size - 2 * Half
      <4>1. src'.lo = src.lo + (f + g)
        BY <3>1, <3>2, <1>n
      <4>2. src'.n = src.n - (f + g)
        BY <3>1, <3>2, <1>n
      <4>3. src'.size = src.size - 2 * Half
        BY <3>1, <3>2, <1>n
      <4> QED BY <4>1, <4>2, <4>3
    <3> QED BY <3>1, <3>4, <3>5, <3>6, <1>n
  <2>8. /\ Order'
        /\ taken' \in Nat
    BY <1>u, <1>z, <2>3, <2>6, <2>7, ReadOrder
  <2>9. job # "void"
    BY <1>1, <1>o, <1>n
  <2>10. /\ New(0)' > 0 => mem'[0].lo = Len(out) + 1
         /\ New(1)' > 0 => mem'[1].lo = Len(out) + 1 + New(0)'
    <3>1. /\ f \in Nat /\ g \in Nat /\ mem'[0].lo = src.lo /\ mem'[1].lo = src.lo + f
          /\ g <= src.n - f
      BY <2>m, <1>c, <2>2
    <3>2. f > 0 \/ g > 0 => src.lo = Q + 1
      BY <3>1, <1>o, <1>n
    <3> QED BY <2>4, <2>6, <3>1, <3>2, <1>n
  <2>11. \A h \in Halves : mem'[h].n > 0 => mem'[h].fresh
    BY <2>m, <1>c, <2>2
  <2>12. writePointer' \in {0, 1}
    BY <1>1
  <2> QED BY <2>2, <2>3, <2>m, <2>8, <2>9, <2>10, <2>11, <2>12, StartKeeps
<1> HIDE DEF f, a, rest
<1>r. ASSUME Read(rest), Q' = Q + f
      PROVE  /\ src' = rest /\ Order' /\ taken' \in Nat
             /\ job = "void" => f = 0
  <2>1. /\ src' = rest
        /\ taken' = taken + IF job = "data" THEN src.n - src'.n ELSE 0
    BY <1>r DEF Read
  <2>2. Half \in Nat /\ Half <= Half /\ Half <= src.size
    BY <1>n, <1>u
  <2> QED BY <1>u, <1>z, <1>c, <1>r, <2>1, <2>2, ReadOrder
<1>2. CASE /\ writePointer = Null /\ card = "i2s"
           /\ mem' = [mem EXCEPT ![0] = a] /\ writePointer' = 0
           /\ Read(rest)
  <2>m. /\ mem' \in [Halves -> [lo : Nat \ {0}, n : 0 .. Half, fresh : BOOLEAN]]
        /\ mem'[0] = a /\ mem'[1] = mem[1]
    BY <1>2, <1>c, <1>t
  <2>1. New(0) = 0 /\ New(1) = 0
    BY <1>2, <1>u, <1>i DEF Fresh, New
  <2>2. New(0)' = f /\ New(1)' = 0
    BY <2>m, <1>c, <2>1 DEF New
  <2>3. Q = Len(out) /\ Q' = Q + f
    BY <2>1, <2>2, <1>u, <1>n, <1>c DEF Q
  <2>4. src' = rest /\ Order' /\ taken' \in Nat /\ (job = "void" => f = 0)
    BY <1>2, <2>3, <1>r
  <2>5. New(0)' > 0 => mem'[0].lo = Len(out) + 1
    BY <2>2, <2>m, <1>c, <1>o, <2>3, <1>n
  <2>6. writePointer' \in {0, 1} /\ ~ New(1)' > 0 /\ card # "codec"
    BY <1>2, <2>2
  <2> QED BY <1>c, <2>m, <2>2, <2>4, <2>5, <2>6, StartKeeps
<1>3. CASE /\ writePointer = Null /\ card = "codec"
           /\ mem' = [h \in Halves |-> IF h = 0 THEN Silence ELSE a] /\ writePointer' = 1
           /\ Read(rest)
  <2>m. /\ mem' \in [Halves -> [lo : Nat \ {0}, n : 0 .. Half, fresh : BOOLEAN]]
        /\ mem'[0] = Silence /\ mem'[1] = a
    BY <1>3, <1>c, <1>y
  <2>1. New(0) = 0 /\ New(1) = 0
    BY <1>3, <1>u, <1>i DEF Fresh, New
  <2>2. New(0)' = 0 /\ New(1)' = f
    BY <2>m, <1>c, <1>y DEF New
  <2>3. Q = Len(out) /\ Q' = Q + f
    BY <2>1, <2>2, <1>u, <1>n, <1>c DEF Q
  <2>4. src' = rest /\ Order' /\ taken' \in Nat /\ (job = "void" => f = 0)
    BY <1>3, <2>3, <1>r
  <2>5. New(1)' > 0 => mem'[1].lo = Len(out) + 1 + New(0)'
    BY <2>2, <2>m, <1>c, <1>o, <2>3, <1>n
  <2>6. writePointer' \in {0, 1} /\ ~ New(0)' > 0
    BY <1>3, <2>2
  <2>7. \A h \in Halves : mem'[h].n > 0 => mem'[h].fresh
    BY <2>m, <1>c, <1>y
  <2> QED BY <1>c, <2>m, <2>2, <2>4, <2>5, <2>6, <2>7, StartKeeps
<1>4. CASE /\ writePointer # Null /\ mem' = [mem EXCEPT ![writePointer] = a]
           /\ Read(rest) /\ writePointer' = writePointer
  <2>0. writePointer = 1 /\ writePointer' = 1
    BY <1>4, <1>t
  <2>m. /\ mem' \in [Halves -> [lo : Nat \ {0}, n : 0 .. Half, fresh : BOOLEAN]]
        /\ mem'[0] = mem[0] /\ mem'[1] = a
    BY <1>4, <2>0, <1>c, <1>t
  <2>1. New(1) = 0 /\ mem[0].fresh
    BY <2>0, <1>u, <1>i DEF Fresh, New
  <2>2. New(0)' = New(0) /\ New(1)' = f
    BY <2>m, <1>c DEF New
  <2>3. Q = Len(out) + New(0) /\ Q' = Q + f
    BY <2>1, <2>2, <1>u, <1>n, <1>c DEF Q
  <2>4. src' = rest /\ Order' /\ taken' \in Nat /\ (job = "void" => f = 0)
    BY <1>4, <2>3, <1>r
  <2>5. New(0)' > 0 => mem'[0].lo = Len(out) + 1
    BY <2>2, <2>m, <1>u, <1>i, <1>n DEF Place, First
  <2>6. New(1)' > 0 => mem'[1].lo = Len(out) + 1 + New(0)'
    BY <2>2, <2>m, <1>c, <1>x, <2>3, <1>n
  <2>7. \A h \in Halves : mem'[h].n > 0 => mem'[h].fresh
    BY <2>m, <1>c, <2>1
  <2> QED BY <1>c, <1>o, <2>0, <2>m, <2>2, <2>4, <2>5, <2>6, <2>7, StartKeeps
<1> QED
  <2>1. \/ /\ writePointer = Null /\ src.size >= 2 * Half
           /\ mem' = [h \in Halves |-> IF h = 0 THEN a ELSE Chunk(rest)]
           /\ writePointer' = 1
           /\ Read(Rest(rest))
        \/ /\ writePointer = Null /\ card = "i2s"
           /\ mem' = [mem EXCEPT ![0] = a] /\ writePointer' = 0
           /\ Read(rest)
        \/ /\ writePointer = Null /\ card = "codec"
           /\ mem' = [h \in Halves |-> IF h = 0 THEN Silence ELSE a] /\ writePointer' = 1
           /\ Read(rest)
        \/ /\ writePointer # Null /\ mem' = [mem EXCEPT ![writePointer] = a]
           /\ Read(rest) /\ writePointer' = writePointer
    BY DEF Start, a, rest
  <2> QED BY <2>1, <1>1, <1>2, <1>3, <1>4

-----------------------------------------------------------------------------
(* The interrupt *)

\* The samples of a half are a sequence of numbers, as long as the half says.
LEMMA SamplesFacts ==
  ASSUME NEW m \in [lo : Nat \ {0}, n : 0 .. Half, fresh : BOOLEAN]
  PROVE  Samples(m) \in Seq(Nat) /\ Len(Samples(m)) = m.n
<1>1. m.n \in Nat /\ m.lo \in Nat /\ m.lo > 0
  BY HalfAssumption
<1>2. \A i \in 1 .. m.n : m.lo + i - 1 \in Nat
  BY <1>1
<1>3. Samples(m) \in [1 .. m.n -> Nat]
  BY <1>2 DEF Samples
<1> QED BY <1>1, <1>3, SeqDef, LenProperties

LEMMA Joined ==
  ASSUME NEW s \in Seq(Nat), NEW t \in Seq(Nat)
  PROVE  s \o t \in Seq(Nat) /\ Len(s \o t) = Len(s) + Len(t)
BY ConcatProperties

LEMMA TickStep == Inv /\ Tick => Inv'
<1> SUFFICES ASSUME Inv, Tick PROVE Inv'
  OBVIOUS
<1> USE DEF Halves
<1>u. /\ running /\ waiting' = FALSE /\ ready' = (ready \/ waiting)
      /\ out' = IF mem[cur].fresh THEN out \o Samples(mem[cur]) ELSE out
      /\ card' = card /\ pc' = pc /\ job' = job /\ src' = src /\ offer' = offer
      /\ moved' = moved /\ voids' = voids /\ cache' = cache /\ next' = next
      /\ stalled' = stalled /\ taken' = taken
  BY DEF Tick, Played, Signal, callVars
<1>i. TypeOK /\ Control /\ Counted /\ Fresh /\ Place /\ Order /\ Drained /\ Clear
  BY DEF Inv
<1>t. /\ mem \in [Halves -> [lo : Nat \ {0}, n : 0 .. Half, fresh : BOOLEAN]]
      /\ count \in [Halves -> 0 .. Thres - 1]
      /\ cur \in {0, 1} /\ out \in Seq(Nat) /\ ready \in BOOLEAN /\ waiting \in BOOLEAN
      /\ pc # "closed"
  BY <1>u, <1>i DEF TypeOK, Control
<1>n. /\ Thres \in Nat /\ Thres > 1 /\ Len(out) \in Nat
      /\ \A h \in Halves : /\ count[h] \in Nat /\ count[h] < Thres /\ New(h) \in Nat
                           /\ mem[h].n \in Nat
  BY <1>i, Typed
<1>s. Samples(mem[cur]) \in Seq(Nat) /\ Len(Samples(mem[cur])) = mem[cur].n
  BY <1>t, SamplesFacts
<1>o. out' \in Seq(Nat) /\ Len(out') = Len(out) + New(cur)
  <2>1. CASE mem[cur].fresh
    <3>1. out' = out \o Samples(mem[cur])
      BY <2>1, <1>u
    <3>2. /\ out \o Samples(mem[cur]) \in Seq(Nat)
          /\ Len(out \o Samples(mem[cur])) = Len(out) + Len(Samples(mem[cur]))
      BY <1>s, <1>t, Joined
    <3> QED BY <2>1, <3>1, <3>2, <1>s DEF New
  <2>2. CASE ~mem[cur].fresh
    BY <2>2, <1>u, <1>t, <1>n DEF New
  <2> QED BY <2>1, <2>2
<1>c. 1 - cur \in {0, 1} /\ 1 - (1 - cur) = cur /\ cur # 1 - cur
  BY <1>t
<1>q. Q = Len(out) + New(cur) + New(1 - cur)
  BY <1>t, <1>n, <1>c DEF Q
<1>b. pc \in {"sync", "wait"} => src'.size >= Half
  BY <1>u, <1>i DEF Control
<1>1. CASE /\ Overrun /\ running' = FALSE /\ writePointer' = Null /\ dmaPointer' = Null
           /\ count' = [h \in Halves |-> 0] /\ mem' = [mem EXCEPT ![cur].fresh = FALSE]
           /\ cur' = cur
  <2>m. /\ mem' \in [Halves -> [lo : Nat \ {0}, n : 0 .. Half, fresh : BOOLEAN]]
        /\ mem'[1 - cur] = mem[1 - cur] /\ mem'[cur].fresh = FALSE
    BY <1>1, <1>t, <1>c
  <2>1. ~mem[1 - cur].fresh /\ ~mem[cur].fresh
    BY <1>1, <1>u, <1>i, <1>n, <1>c, <1>t DEF Overrun, Fresh, Counted
  <2>2. New(0)' = 0 /\ New(1)' = 0 /\ New(0) = 0 /\ New(1) = 0
    BY <2>m, <2>1, <1>c, <1>t DEF New
  <2>3. Q' = Q /\ out' = out
    BY <2>1, <2>2, <1>u DEF Q
  <2>4. count' \in [Halves -> 0 .. Thres - 1] /\ count'[0] = 0 /\ count'[1] = 0
    BY <1>1, <1>n
  <2>5. TypeOK'
    BY <1>u, <1>i, <1>o, <1>1, <2>m, <2>4 DEF TypeOK
  <2>6. Control'
    BY <1>u, <1>i, <1>1, <1>b DEF Control
  <2>7. Counted'
    BY <1>1, <2>4 DEF Counted, Null
  <2>8. Fresh'
    BY <1>1, <2>1, <2>m, <1>t DEF Fresh, Null
  <2>9. Place'
    BY <2>2 DEF Place
  <2>10. Order'
    BY <1>u, <1>i, <2>3 DEF Order, Busy
  <2>11. Drained' /\ Clear'
    BY <1>1, <2>2 DEF Drained, Clear
  <2> QED BY <2>5, <2>6, <2>7, <2>8, <2>9, <2>10, <2>11 DEF Inv
<1>2. CASE /\ ~Overrun /\ count' = [count EXCEPT ![cur] = @ + 1]
           /\ dmaPointer' = 1 - cur /\ cur' = 1 - cur
           /\ mem' = [mem EXCEPT ![cur] = Ended(@)]
           /\ running' = running /\ writePointer' = writePointer
  <2>e. /\ Ended(mem[cur]) \in [lo : Nat \ {0}, n : 0 .. Half, fresh : BOOLEAN]
        /\ Ended(mem[cur]).fresh = FALSE
        /\ card = "codec" => Ended(mem[cur]).n = 0
    <3>1. mem[cur] \in [lo : Nat \ {0}, n : 0 .. Half, fresh : BOOLEAN]
      BY <1>t
    <3>2. Silence \in [lo : Nat \ {0}, n : 0 .. Half, fresh : BOOLEAN]
      BY HalfAssumption DEF Silence
    <3>3. Silence.fresh = FALSE /\ Silence.n = 0
      BY DEF Silence
    <3>4. /\ [mem[cur] EXCEPT !.fresh = FALSE] \in [lo : Nat \ {0}, n : 0 .. Half, fresh : BOOLEAN]
          /\ [mem[cur] EXCEPT !.fresh = FALSE].fresh = FALSE
      BY <3>1
    <3> QED BY <3>2, <3>3, <3>4 DEF Ended
  <2>m. /\ mem' \in [Halves -> [lo : Nat \ {0}, n : 0 .. Half, fresh : BOOLEAN]]
        /\ mem'[1 - cur] = mem[1 - cur] /\ mem'[cur] = Ended(mem[cur])
    BY <1>2, <1>t, <1>c, <2>e
  <2>4. /\ count' \in [Halves -> 0 .. Thres - 1]
        /\ count'[cur] = count[cur] + 1 /\ count'[1 - cur] = count[1 - cur]
    BY <1>2, <1>t, <1>n, <1>c DEF Overrun
  <2>2. \A h \in Halves : New(h)' = IF h = cur THEN 0 ELSE New(h)
    BY <2>m, <2>e, <1>c, <1>t DEF New
  <2>3. Q' = Q
    <3>1. New(0)' + New(1)' = New(1 - cur)
      BY <2>2, <1>n, <1>t
    <3>2. Q' = Len(out') + (New(0)' + New(1)')
      BY <2>2, <1>n, <1>o DEF Q
    <3> QED BY <3>1, <3>2, <1>o, <1>q, <1>n, <1>c
  <2>5. TypeOK'
    BY <1>u, <1>i, <1>o, <1>c, <1>2, <2>m, <2>4 DEF TypeOK
  <2>6. Control'
    <3>1. 1 - cur' = cur /\ count'[cur] > 0
      BY <1>2, <1>c, <1>n, <1>t, <2>4
    <3> QED BY <1>u, <1>i, <1>2, <1>b, <3>1 DEF Control
  <2>7. Counted'
    BY <1>u, <1>2, <1>i, <1>c, <1>n, <2>4 DEF Counted
  <2>8. Fresh'
    BY <1>u, <1>2, <1>i, <1>c, <1>n, <2>4, <2>m, <2>e DEF Fresh
  <2>9. Place'
    <3>1. New(1 - cur) > 0 => mem[1 - cur].lo = Len(out) + 1 + New(cur)
      BY <1>u, <1>i, <1>t, <1>c DEF Place, First
    <3>2. SUFFICES ASSUME NEW h \in Halves, New(h)' > 0
                   PROVE  mem'[h].lo = Len(out') + 1 + IF h = First' THEN 0 ELSE New(1 - h)'
      BY DEF Place
    <3>3. h = 1 - cur /\ First' = 1 - cur
      BY <3>2, <2>m, <2>e, <1>u, <1>2, <1>c, <1>t DEF New, First
    <3>4. New(1 - cur) > 0
      BY <3>2, <3>3, <2>m, <1>c DEF New
    <3>5. mem'[h].lo = Len(out) + 1 + New(cur)
      BY <3>1, <3>3, <3>4, <2>m
    <3>6. New(cur) \in Nat
      BY <1>n, <1>t
    <3>7. Len(out) + 1 + New(cur) = Len(out') + 1 + 0
      BY <3>6, <1>o, <1>n
    <3>8. (IF h = First' THEN 0 ELSE New(1 - h)') = 0
      BY <3>3
    <3> QED BY <3>5, <3>7, <3>8
  <2>10. Order'
    BY <1>u, <1>i, <2>3 DEF Order, Busy
  <2>11. Drained'
    <3> SUFFICES ASSUME Busy, job = "void", voids = 0 \/ src.size = 0 PROVE Drained'
      BY <1>u DEF Drained, Busy
    <3>1. New(1 - cur) = 0
      BY <1>u, <1>i DEF Drained
    <3>2. New(0)' = 0 /\ New(1)' = 0
      BY <3>1, <2>2, <1>c, <1>t
    <3>3. New(1 - cur)' = 0 /\ New(cur)' = 0
      <4>1. (cur' = 0 /\ 1 - cur' = 1) \/ (cur' = 1 /\ 1 - cur' = 0)
        BY <1>2, <1>t
      <4> QED BY <4>1, <3>2 DEF New
    <3> QED BY <3>2, <3>3 DEF Drained
  <2>12. Clear'
    BY <1>u, <1>2, <1>i, <2>m, <2>e, <1>c, <1>t DEF Clear
  <2> QED BY <2>5, <2>6, <2>7, <2>8, <2>9, <2>10, <2>11, <2>12 DEF Inv
<1> QED BY <1>1, <1>2 DEF Tick

-----------------------------------------------------------------------------
(* The theorems *)

LEMMA StutterStep == Inv /\ UNCHANGED vars => Inv'
<1> SUFFICES ASSUME Inv, UNCHANGED vars PROVE Inv'
  OBVIOUS
<1>u. /\ card' = card /\ pc' = pc /\ job' = job /\ src' = src /\ offer' = offer
      /\ moved' = moved /\ voids' = voids /\ cache' = cache /\ next' = next
      /\ stalled' = stalled /\ taken' = taken /\ UNCHANGED dmaVars
  BY DEF vars, callVars
<1>f. /\ mem' = mem /\ count' = count /\ dmaPointer' = dmaPointer
      /\ writePointer' = writePointer /\ running' = running /\ cur' = cur
      /\ waiting' = waiting /\ ready' = ready /\ out' = out /\ Q' = Q
      /\ New(0)' = New(0) /\ New(1)' = New(1)
      /\ New(cur)' = New(cur) /\ New(1 - cur)' = New(1 - cur)
  BY <1>u, DmaFrame
<1>i. TypeOK /\ Control /\ Counted /\ Fresh /\ Place /\ Order /\ Drained /\ Clear
  BY DEF Inv
<1>1. TypeOK'
  BY <1>u, <1>f, <1>i DEF TypeOK
<1>2. Control' /\ Counted' /\ Fresh' /\ Clear'
  BY <1>u, <1>f, <1>i DEF Control, Counted, Fresh, Clear
<1>3. Place'
  BY <1>u, <1>f, <1>i DEF Place, New, First
<1>4. Order'
  BY <1>u, <1>f, <1>i DEF Order, Busy
<1>5. Drained'
  BY <1>u, <1>f, <1>i DEF Drained, Busy
<1> QED BY <1>1, <1>2, <1>3, <1>4, <1>5 DEF Inv

LEMMA NextInv == Inv /\ [Next]_vars => Inv'
<1> SUFFICES ASSUME Inv, [Next]_vars PROVE Inv'
  OBVIOUS
<1>1. CASE Next
  BY <1>1, OpenStep, CloseStep, WriteStep, FlushStep, CacheDoneStep, DataDoneStep,
     PadDoneStep, VoidDoneStep, StartStep, SeeRunningStep, SyncStep, WaitStep, WakeStep,
     TickStep DEF Next, Step
<1>2. CASE UNCHANGED vars
  BY <1>2, StutterStep
<1> QED BY <1>1, <1>2

\* The samples handed over are in the cache, in the halves or with the call
\* in progress, in order, and the counters say which half may be written.
THEOREM Invariant == Spec => []Inv
<1> QED BY InitInv, NextInv, PTL DEF Spec

\* The counters stay below the threshold, and so in their 8 bits; the cache
\* and the halves never hold more than a half.
THEOREM TypeCorrect == Spec => []TypeOK
<1>1. Inv => TypeOK
  BY DEF Inv
<1> QED BY <1>1, Invariant, PTL

\* Between calls the application knows exactly which samples were taken.
THEOREM Acknowledges == Spec => []Acknowledged
<1>1. Inv => Acknowledged
  BY DEF Inv, Order, Acknowledged
<1> QED BY <1>1, Invariant, PTL

\* The internal codec never plays a half twice.
THEOREM NoRepeat == Spec => []NeverRepeats
<1>1. Inv => NeverRepeats
  BY DEF Inv, Clear, NeverRepeats, TypeOK
<1> QED BY <1>1, Invariant, PTL

\* A writer that looks at the counters never writes the half the DMA reads.
LEMMA AwayFromDma ==
  ASSUME Inv, Sync \/ Wake, running
  PROVE  Target # cur
<1>i. TypeOK /\ Control /\ Counted
  BY DEF Inv
<1>n. count[0] \in Nat /\ count[1] \in Nat /\ cur \in {0, 1}
  BY <1>i, Typed DEF Halves, TypeOK
<1>1. count[1 - cur] > 0
  BY <1>i, <1>n DEF Sync, Wake, Control, Counted, Halves
<1>2. dmaPointer = cur
  BY <1>1, <1>i DEF Counted
<1> QED BY <1>2, <1>n DEF Target

\* The half the DMA reads is never written.
THEOREM NoTear == Spec => NeverTorn
<1>1. Inv /\ [Next]_vars => (running /\ running' /\ cur' = cur => mem'[cur] = mem[cur])
  <2> SUFFICES ASSUME Inv, [Next]_vars, running, running', cur' = cur
               PROVE  mem'[cur] = mem[cur]
    OBVIOUS
  <2>i. cur \in {0, 1} /\ mem \in [Halves -> [lo : Nat \ {0}, n : 0 .. Half, fresh : BOOLEAN]]
    BY DEF Inv, TypeOK, Halves
  <2>1. CASE Open
    BY <2>1 DEF Open, Inv, Control
  <2>2. CASE Close
    BY <2>2 DEF Close
  <2>3. CASE Start
    BY <2>3 DEF Start
  <2>4. CASE Sync \/ Wake
    <3>1. Target # cur
      BY <2>4, AwayFromDma
    <3>2. mem' = [mem EXCEPT ![Target] = Chunk(src)]
      BY <2>4 DEF Sync, Wake, Refill
    <3> QED BY <3>1, <3>2, <2>i
  <2>5. CASE Tick
    <3>1. cur' = 1 - cur \/ running' = FALSE
      BY <2>5 DEF Tick
    <3> QED BY <3>1, <2>i
  <2>6. CASE Write \/ Flush \/ CacheDone \/ DataDone \/ PadDone \/ VoidDone \/ SeeRunning
    <3>1. UNCHANGED dmaVars
      BY <2>6 DEF Write, WriteCached, WriteBehind, WriteThrough, EnterWrite, Flush, CacheDone,
                  DataDone, PadDone, VoidDone, SeeRunning
    <3> QED BY <3>1 DEF dmaVars
  <2>7. CASE Wait
    BY <2>7 DEF Wait
  <2>8. CASE UNCHANGED vars
    BY <2>8 DEF vars, dmaVars
  <2> QED BY <2>1, <2>2, <2>3, <2>4, <2>5, <2>6, <2>7, <2>8 DEF Next, Step
<1> QED BY <1>1, Invariant, PTL DEF Spec, NeverTorn

\* When a flush returns, every sample has been played.
THEOREM Drains == Spec => FlushDrains
<1>1. Inv /\ [Next]_vars => (VoidDone /\ pc' = "idle" => Len(out) = taken)
  <2> SUFFICES ASSUME Inv, VoidDone, pc' = "idle" PROVE Len(out) = taken
    OBVIOUS
  <2>1. pc = "loop" /\ job = "void" /\ src.size < Half /\ voids = 0
    BY DEF VoidDone, Written
  <2>2. TypeOK /\ Order /\ Drained
    BY DEF Inv
  <2>3. src.size \in Nat /\ Half \in Nat /\ Half > 0 /\ Len(out) \in Nat /\ Q \in Nat
    BY <2>2, Typed
  <2>4. src.size = 0 /\ taken = Q
    BY <2>1, <2>2, <2>3 DEF Order, Busy
  <2>5. New(0) = 0 /\ New(1) = 0
    BY <2>1, <2>2, <2>4 DEF Drained, Busy
  <2> QED BY <2>3, <2>4, <2>5 DEF Q
<1> QED BY <1>1, Invariant, PTL DEF Spec, FlushDrains

\* What a step of the caller reads from its buffer only adds to taken.
LEMMA ReadsMore ==
  ASSUME Inv, Start \/ Sync \/ Wake
  PROVE  out' = out /\ taken' >= taken
<1>i. TypeOK /\ Control
  BY DEF Inv
<1>t. /\ src \in [lo : Nat \ {0}, n : Nat, size : Nat] /\ src.n <= src.size
      /\ src.size >= Half
  BY <1>i DEF TypeOK, Control, Start, Sync, Wake
<1>n. taken \in Nat /\ Half \in Nat /\ src.size \in Nat /\ src.n \in Nat
  BY <1>i, Typed
<1>c. /\ Rest(src) \in [lo : Nat \ {0}, n : Nat, size : Nat]
      /\ Rest(src).n <= Rest(src).size
      /\ Fill(src) \in Nat /\ Rest(src).n = src.n - Fill(src)
      /\ Rest(src).size = src.size - Half
  BY <1>t, ChunkFacts
<1>1. ASSUME NEW b, Read(b), b.n \in Nat, b.n <= src.n
      PROVE  taken' >= taken
  BY <1>1, <1>n DEF Read
<1>2. ASSUME Read(Rest(src)) PROVE taken' >= taken
  BY <1>1, <1>2, <1>c, <1>n
<1>3. ASSUME Read(Rest(Rest(src))), src.size >= 2 * Half PROVE taken' >= taken
  <2>1. Rest(src).size >= Half
    BY <1>3, <1>c, <1>n
  <2>2. /\ Fill(Rest(src)) \in Nat /\ Fill(Rest(src)) <= Rest(src).n
        /\ Rest(Rest(src)).n = Rest(src).n - Fill(Rest(src))
    BY <1>c, <2>1, ChunkFacts
  <2>3. Rest(Rest(src)).n \in Nat /\ Rest(Rest(src)).n <= src.n
    BY <2>2, <1>c, <1>n
  <2> QED BY <1>1, <1>3, <2>3
<1>4. CASE Start
  BY <1>2, <1>3, <1>4 DEF Start
<1>5. CASE Sync \/ Wake
  BY <1>2, <1>5 DEF Sync, Wake, Refill
<1> QED BY <1>4, <1>5

\* What the DMA has played is what comes next.
LEMMA PlaysNext ==
  ASSUME Inv, Tick, out' # out
  PROVE  Stream!Play
<1>i. TypeOK /\ Order /\ Place /\ Control
  BY DEF Inv
<1>u. /\ running /\ mem[cur].fresh /\ out' = out \o Samples(mem[cur]) /\ taken' = taken
      /\ pc # "closed"
  BY <1>i DEF Tick, Played, callVars, Control
<1> DEFINE m == mem[cur]
<1>t. /\ m \in [lo : Nat \ {0}, n : 0 .. Half, fresh : BOOLEAN] /\ cur \in {0, 1}
      /\ out \in Seq(Nat)
  BY <1>i DEF TypeOK, Halves
<1>n. /\ m.n \in Nat /\ m.lo \in Nat /\ Len(out) \in Nat /\ Q \in Nat /\ taken \in Nat
      /\ New(0) \in Nat /\ New(1) \in Nat /\ cache.n \in Nat /\ src.n \in Nat
  BY <1>i, <1>t, Typed DEF Halves
<1>1. m.n > 0
  <2>1. CASE m.n = 0
    <3>1. Samples(m) \in Seq(Nat) /\ Len(Samples(m)) = 0
      BY <2>1, <1>t, SamplesFacts
    <3>2. Samples(m) = << >>
      BY <3>1, EmptySeq
    <3>3. out \o << >> = out
      BY <1>t, ConcatEmptySeq
    <3> QED BY <1>u, <3>2, <3>3
  <2> QED BY <2>1, <1>n
<1>2. m.lo = Len(out) + 1 /\ Len(out) + m.n <= Q
  <2>1. New(cur) = m.n /\ First = cur /\ cur \in Halves
    BY <1>u, <1>t DEF New, First, Halves
  <2>2. m.lo = Len(out) + 1
    BY <2>1, <1>1, <1>u, <1>i DEF Place
  <2>3. cur = 0 \/ cur = 1
    BY <1>t
  <2>4. m.n <= New(0) + New(1)
    BY <2>1, <2>3, <1>n
  <2>5. Q = Len(out) + New(0) + New(1)
    BY DEF Q
  <2> HIDE DEF m
  <2> QED BY <2>2, <2>4, <2>5, <1>n
<1>3. Q <= taken
  <2>1. pc = "idle" \/ Busy
    BY <1>u, <1>i DEF Busy, TypeOK
  <2>2. taken = Q + cache.n \/ taken = Q + src.n \/ taken = Q
    BY <2>1, <1>i DEF Order
  <2> QED BY <2>2, <1>n
<1>4. Samples(m) = [i \in 1 .. m.n |-> Len(out) + i]
  BY <1>2, <1>n DEF Samples
<1>5. m.n \in 1 .. taken - Len(out)
  BY <1>1, <1>2, <1>3, <1>n
<1> QED BY <1>u, <1>4, <1>5 DEF Stream!Play

\* Playback implements SampleStream: no sample is lost, repeated or played
\* out of order, on either card, however late the writer comes.
THEOREM Implements == Spec => ImplementsStream
<1>1. Init => Stream!Init
  BY DEF Init, Stream!Init
<1>2. Inv /\ Inv' /\ [Next]_vars => [Stream!Next]_<<taken, out>>
  <2> SUFFICES ASSUME Inv, Inv', [Next]_vars PROVE [Stream!Next]_<<taken, out>>
    OBVIOUS
  <2>n. taken \in Nat /\ taken' \in Nat
    BY DEF Inv, TypeOK
  <2>t. ASSUME out' = out, taken' >= taken PROVE [Stream!Next]_<<taken, out>>
    <3>1. taken' = taken \/ taken' > taken
      BY <2>t, <2>n
    <3> QED BY <2>t, <2>n, <3>1 DEF Stream!Next, Stream!Take
  <2>1. CASE Close
    BY <2>1 DEF Close, Stream!Next, Stream!Close
  <2>2. CASE Start \/ Sync \/ Wake
    BY <2>2, <2>t, ReadsMore
  <2>3. CASE Tick
    <3>1. taken' = taken
      BY <2>3 DEF Tick, callVars
    <3> QED BY <2>3, <3>1, PlaysNext DEF Stream!Next
  <2>4. CASE Write
    <3>1. PICK c \in 1 .. MaxCount : WriteCached(c) \/ WriteBehind(c) \/ WriteThrough(c)
      BY <2>4 DEF Write
    <3>2. c \in Nat /\ cache.n \in Nat /\ cache.n <= Half /\ Half \in Nat
      BY Typed, BoundAssumption DEF Inv
    <3>3. out' = out
      BY <3>1 DEF WriteCached, WriteBehind, WriteThrough, EnterWrite, dmaVars
    <3>4. taken' = taken + c \/ taken' = taken + (Half - cache.n) \/ taken' = taken + 0
      BY <3>1 DEF WriteCached, WriteBehind, WriteThrough, EnterWrite
    <3> QED BY <3>2, <3>3, <3>4, <2>n, <2>t
  <2>5. CASE DataDone
    <3>1. out' = out /\ (taken' = taken \/ taken' = taken + src.n)
      BY <2>5 DEF DataDone, dmaVars
    <3>2. src.n \in Nat
      BY DEF Inv, TypeOK
    <3> QED BY <3>1, <3>2, <2>n, <2>t
  <2>6. CASE Open \/ Flush \/ CacheDone \/ PadDone \/ VoidDone \/ SeeRunning \/ Wait
    BY <2>6 DEF Open, Flush, CacheDone, PadDone, VoidDone, SeeRunning, Wait, dmaVars
  <2>7. CASE UNCHANGED vars
    BY <2>7 DEF vars, callVars, dmaVars
  <2> QED BY <2>1, <2>2, <2>3, <2>4, <2>5, <2>6, <2>7 DEF Next, Step
<1> QED BY <1>1, <1>2, Invariant, PTL DEF Spec, ImplementsStream, Stream!Spec

-----------------------------------------------------------------------------
(* What returning rests on *)

\* hal_i2s.c, xradio_internal_codec.c: the semaphore a waiting writer needs has
\* been released or will be by the interrupt of a running DMA; the one window in
\* which it will not (stalled) is the one between the look at txRunning and
\* HAL_DisableIRQ.
THEOREM WakeupNotLost == Spec => []NoLostWakeup
<1>1. Init => NoLostWakeup
  BY DEF Init, NoLostWakeup
<1>2. Inv /\ NoLostWakeup /\ [Next]_vars => NoLostWakeup'
  <2> SUFFICES ASSUME Inv, NoLostWakeup, [Next]_vars PROVE NoLostWakeup'
    OBVIOUS
  <2>i. TypeOK /\ Control /\ waiting \in BOOLEAN /\ ready \in BOOLEAN
    BY DEF Inv, TypeOK
  <2>1. CASE Open \/ Close
    BY <2>1 DEF Open, Close, NoLostWakeup
  <2>2. CASE Write \/ Flush \/ CacheDone \/ DataDone \/ PadDone \/ VoidDone \/ SeeRunning
    <3>1. ready' = ready /\ waiting' = waiting /\ pc # "wait"
      BY <2>2 DEF Write, WriteCached, WriteBehind, WriteThrough, EnterWrite, Flush,
         CacheDone, DataDone, PadDone, VoidDone, SeeRunning, Written, dmaVars
    <3>2. pc' # "wait"
      BY <2>2, <3>1 DEF Write, WriteCached, WriteBehind, WriteThrough, EnterWrite, Flush,
         CacheDone, DataDone, PadDone, VoidDone, SeeRunning, Written
    <3> QED BY <3>1, <3>2 DEF NoLostWakeup
  <2>3. CASE Start \/ Sync
    BY <2>3 DEF Start, Sync, Refill, NoLostWakeup
  <2>4. CASE Wait
    BY <2>i, <2>4 DEF Wait, NoLostWakeup, TypeOK
  <2>5. CASE Wake
    BY <2>i, <2>5 DEF Wake, Refill, NoLostWakeup
  <2>6. CASE Tick
    <3>1. /\ pc' = pc /\ waiting' = FALSE /\ ready' = (ready \/ waiting)
      BY <2>6 DEF Tick, Signal, callVars
    <3> QED BY <2>i, <3>1 DEF NoLostWakeup
  <2>7. CASE UNCHANGED vars
    BY <2>7 DEF vars, callVars, dmaVars, NoLostWakeup
  <2> QED BY <2>1, <2>2, <2>3, <2>4, <2>5, <2>6, <2>7 DEF Next, Step
<1> QED BY <1>1, <1>2, Invariant, PTL DEF Spec

LEMMA RankFacts ==
  ASSUME TypeOK
  PROVE  /\ Half \in Nat /\ Half > 0
         /\ src.n \in Nat /\ src.size \in Nat /\ offer.n \in Nat
         /\ voids \in {0, 1} /\ job \in {"data", "cache", "pad", "void"}
         /\ pc \in {"closed", "idle", "loop", "sync", "wait"}
         /\ Left \in Nat /\ Stage \in Nat
<1>1. /\ Half \in Nat /\ Half > 0
      /\ src.n \in Nat /\ src.size \in Nat /\ offer.n \in Nat
      /\ voids \in {0, 1} /\ job \in {"data", "cache", "pad", "void"}
      /\ pc \in {"closed", "idle", "loop", "sync", "wait"}
  BY Typed DEF TypeOK
<1>2. Left \in Nat
  BY <1>1 DEF Left
<1>3. Stage \in Nat
  BY <1>1 DEF Stage
<1> QED BY <1>1, <1>2, <1>3

LEMMA ThreeTimes ==
  ASSUME NEW l \in Nat, NEW s \in Nat, NEW m \in Nat, NEW t \in Nat, m + t < l + s
  PROVE  /\ 3 * (m + t) + 3 < 3 * (l + s) + 1 /\ 3 * (m + t) + 3 >= 0
         /\ 3 * (l + s) \in Nat
  OBVIOUS

\* audio_pcm.c, pcm_write of both drivers: a call of any size comes nearer to
\* its return with each of its steps: one more half, one stage further, or from
\* looking to waiting; the interrupt cannot send it back.
THEOREM CallEnds == Spec => CallDescends
<1>1. Inv /\ Inv' /\ [Next]_vars =>
        [/\ Step => CallRank' < CallRank /\ CallRank' >= 0
         /\ Tick => CallRank' = CallRank]_vars
  <2> SUFFICES ASSUME Inv, Inv'
               PROVE  /\ Step => CallRank' < CallRank /\ CallRank' >= 0
                      /\ Tick => CallRank' = CallRank
    OBVIOUS
  <2>i. TypeOK /\ TypeOK' /\ Order
    BY DEF Inv
  <2>t. /\ Half \in Nat /\ Half > 0
        /\ src.n \in Nat /\ src.size \in Nat /\ offer.n \in Nat
        /\ voids \in {0, 1} /\ job \in {"data", "cache", "pad", "void"}
        /\ Left \in Nat /\ Stage \in Nat
    BY <2>i, RankFacts
  <2>p. Left' \in Nat /\ Stage' \in Nat
    <3>1. Half \in Nat /\ Half > 0 /\ offer'.n \in Nat /\ src'.size \in Nat /\ voids' \in {0, 1}
          /\ job' \in {"data", "cache", "pad", "void"}
      BY <2>i, <2>t DEF TypeOK, Data
    <3>2. Left' \in Nat
      BY <3>1 DEF Left
    <3>3. Stage' \in Nat
      BY <3>1 DEF Stage
    <3> QED BY <3>2, <3>3
  <2>1. ASSUME Tick PROVE CallRank' = CallRank
    BY <2>1 DEF Tick, callVars, CallRank, Left, Stage
  <2> SUFFICES ASSUME Step PROVE CallRank' < CallRank /\ CallRank' >= 0
    BY <2>1
  <2>2. ASSUME pc = "loop", pc' = "idle" PROVE CallRank' < CallRank /\ CallRank' >= 0
    BY <2>2, <2>t DEF CallRank
  <2>3. ASSUME pc = "loop", pc' = "loop",
               NEW l \in Nat, NEW s \in Nat, NEW m \in Nat, NEW t \in Nat, m + t < l + s,
               Left = l, Stage = s, Left' = m, Stage' = t
        PROVE  CallRank' < CallRank /\ CallRank' >= 0
    <3>1. CallRank = 3 * (l + s) + 3 /\ CallRank' = 3 * (m + t) + 3
      BY <2>3 DEF CallRank
    <3>2. 3 * (m + t) + 3 < 3 * (l + s) + 1 /\ 3 * (m + t) + 3 >= 0 /\ 3 * (l + s) \in Nat
      BY <2>3, ThreeTimes
    <3> QED BY <3>1, <3>2
  <2>4. ASSUME pc \in {"sync", "wait"}, pc' = "loop",
               NEW l \in Nat, NEW s \in Nat, NEW m \in Nat, m < l,
               Left = l, Stage = s, Left' = m, Stage' = s
        PROVE  CallRank' < CallRank /\ CallRank' >= 0
    <3>1. CallRank \in {3 * (l + s) + 2, 3 * (l + s) + 1} /\ CallRank' = 3 * (m + s) + 3
      BY <2>4 DEF CallRank
    <3>2. m + s < l + s
      BY <2>4
    <3>3. 3 * (m + s) + 3 < 3 * (l + s) + 1 /\ 3 * (m + s) + 3 >= 0 /\ 3 * (l + s) \in Nat
      BY <2>4, <3>2, ThreeTimes
    <3> QED BY <3>1, <3>3
  <2>5. CASE CacheDone
    <3>1. /\ pc = "loop" /\ job = "cache" /\ src.size = 0
          /\ \/ pc' = "idle"
             \/ pc' = pc /\ job' = "data" /\ src'.size = offer.n
      BY <2>5, <2>i, <2>t DEF CacheDone, Written, Order, Busy, Buffer
    <3>2. CASE pc' = "idle"
      BY <2>2, <3>1, <3>2
    <3>3. CASE pc' = pc /\ job' = "data" /\ src'.size = offer.n
      <4>1. Left = offer.n /\ Stage = 1 /\ Left' = offer.n /\ Stage' = 0
        BY <3>1, <3>3, <2>t DEF Left, Stage
      <4> QED BY <2>3, <2>t, <3>1, <3>3, <4>1
    <3> QED BY <3>1, <3>2, <3>3
  <2>6. CASE DataDone
    BY <2>2, <2>6 DEF DataDone, Written
  <2>7. CASE PadDone
    <3>1. /\ pc = "loop" /\ pc' = "loop" /\ job = "pad" /\ job' = "void" /\ voids = 1
          /\ voids' = voids /\ src'.size = Half
      BY <2>7, <2>i DEF PadDone, Written, Order, Busy, Buffer
    <3>2. Left = src.size + 2 * Half /\ Stage = 2 /\ Left' = 2 * Half /\ Stage' = 1
      BY <3>1, <2>t DEF Left, Stage
    <3> QED BY <2>3, <2>t, <3>1, <3>2
  <2>8. CASE VoidDone
    <3>1. /\ pc = "loop" /\ job = "void" /\ job' = job
          /\ \/ pc' = "idle"
             \/ pc' = pc /\ voids = 1 /\ voids' = 0 /\ src'.size = Half
      BY <2>8, <2>t DEF VoidDone, Written, Buffer
    <3>2. CASE pc' = "idle"
      BY <2>2, <3>1, <3>2
    <3>3. CASE pc' = pc /\ voids = 1 /\ voids' = 0 /\ src'.size = Half
      <4>1. Left = src.size + Half /\ Stage = 1 /\ Left' = Half /\ Stage' = 0
        BY <3>1, <3>3, <2>t DEF Left, Stage
      <4> QED BY <2>3, <2>t, <3>1, <3>3, <4>1
    <3> QED BY <3>1, <3>2, <3>3
  <2>9. CASE Start
    <3>1. /\ pc = "loop" /\ pc' = pc /\ job' = job /\ offer' = offer /\ voids' = voids
          /\ src.size >= Half
          /\ src'.size = src.size - Half \/ src'.size = (src.size - Half) - Half
      BY <2>9 DEF Start, Read, Rest
    <3>2. src'.size < src.size
      BY <3>1, <2>t
    <3>3. Left' < Left /\ Stage' = Stage
      BY <3>1, <3>2, <2>t DEF Left, Stage
    <3> QED BY <2>3, <2>t, <2>p, <3>1, <3>3
  <2>10. CASE SeeRunning \/ Wait
    <3>1. /\ job' = job /\ src' = src /\ offer' = offer /\ voids' = voids
          /\ \/ pc = "loop" /\ pc' = "sync"
             \/ pc = "sync" /\ pc' = "wait"
      BY <2>10 DEF SeeRunning, Wait
    <3>2. Left' = Left /\ Stage' = Stage
      BY <3>1 DEF Left, Stage
    <3> QED BY <3>1, <3>2, <2>t DEF CallRank
  <2>11. CASE Sync \/ Wake
    <3>1. /\ pc \in {"sync", "wait"} /\ pc' = "loop" /\ job' = job /\ offer' = offer
          /\ voids' = voids /\ src'.size = src.size - Half /\ src.size >= Half
      BY <2>11 DEF Sync, Wake, Refill, Read, Rest, Inv, Control
    <3>2. src'.size < src.size
      BY <3>1, <2>t
    <3>3. Left' < Left /\ Stage' = Stage
      BY <3>1, <3>2, <2>t DEF Left, Stage
    <3>4. \E l \in Nat, s \in Nat, m \in Nat :
            m < l /\ Left = l /\ Stage = s /\ Left' = m /\ Stage' = s
      BY <2>t, <2>p, <3>3
    <3> QED BY <2>4, <3>1, <3>4
  <2> QED BY <2>1, <2>5, <2>6, <2>7, <2>8, <2>9, <2>10, <2>11 DEF Step
<1> QED BY <1>1, Invariant, PTL DEF Spec, CallDescends
=============================================================================
