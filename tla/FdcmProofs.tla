----------------------------- MODULE FdcmProofs -----------------------------
(***************************************************************************)
(* Proofs about the chunk journal of Fdcm, for every area size, set of     *)
(* chunks and chunk sizes.                                                 *)
(***************************************************************************)
EXTENDS Fdcm, TLAPS

LEMMA SizesNat == Sizes \subseteq Nat \ {0}
  BY SizeAssumption DEF Sizes

LEMMA BitmapMaxNat == BitmapMax \in Nat /\ BitmapMax >= 1 /\ ByteBits = 8 /\ HeaderSize = 8
  BY SMT DEF BitmapMax, ByteBits, HeaderSize

LEMMA ProductGrows ==
  ASSUME NEW d \in Nat, d >= 9, NEW q \in Nat
  PROVE  9 * q <= d * q
  <1> DEFINE e == d - 9
  <1>1. e \in Nat /\ d = 9 + e
    OBVIOUS
  <1>2. e * q >= 0 /\ (9 + e) * q = 9 * q + e * q
    BY <1>1, SMTT(20)
  <1> HIDE DEF e
  <1> QED
    BY <1>1, <1>2

\* Without truncation to w values: a quotient by a divisor of at least 9.
LEMMA Quotient ==
  ASSUME NEW w \in Nat, NEW n \in Nat, n < 9 * (w - 1), NEW d \in Nat, d >= 9
  PROVE  n \div d \in Nat /\ (n \div d + 1) % w = n \div d + 1
  <1> DEFINE q == n \div d
  <1>1. q \in Nat /\ d * q <= n
    BY SMTT(20)
  <1> HIDE DEF q
  <1>2. 9 * q <= n
    BY <1>1, ProductGrows, SMT
  <1>3. q + 1 \in Nat /\ q + 1 < w
    BY <1>1, <1>2, SMT
  <1>4. (q + 1) % w = q + 1
    BY <1>3, SMTT(20)
  <1> QED
    BY <1>1, <1>4, SMT DEF q

\* The bitmap has at least one byte, and no more than FDCM_INDEX_MAX.
LEMMA BitmapRange ==
  ASSUME NEW ds \in Nat \ {0}
  PROVE  BitmapSize(ds) \in Nat /\ 1 <= BitmapSize(ds) /\ BitmapSize(ds) <= BitmapMax
  <1> DEFINE n == AreaSize - HeaderSize - 1
             d == ds * ByteBits + 1
  <1>0. UInt16 \in Nat
    BY SMT DEF UInt16
  <1>1. n \in Nat /\ n < 9 * (UInt16 - 1) /\ d \in Nat /\ d >= 9
    BY <1>0, AreaAssumption, BitmapMaxNat, SMT
  <1> DEFINE q == n \div d
  <1> HIDE DEF n, d
  <1>2. q \in Nat /\ (q + 1) % UInt16 = q + 1
    BY <1>0, <1>1, Quotient DEF q
  <1>3. BitmapSize(ds) = IF q + 1 > BitmapMax THEN BitmapMax ELSE q + 1
    BY <1>2, SMT DEF BitmapSize, n, d
  <1> HIDE DEF q
  <1> QED
    BY <1>2, <1>3, BitmapMaxNat, SMT

\* A chunk that is not too big has a first slot, and a header for it is valid.
LEMMA FirstSlot ==
  ASSUME NEW ds \in Nat \ {0}, ~TooBig(ds)
  PROVE  Fits(ds, 1) /\ BitmapSize(ds) # 0 /\ BitmapSize(ds) + HeaderSize < AreaSize
  <1>1. ds * (1 - 1) = 0
    BY SMT
  <1> QED
    BY <1>1, BitmapRange, BitmapMaxNat, AreaAssumption, SMT DEF TooBig, Fits, SlotStart

\* A slot that fits for some chunk size is one of the slots of the model.
LEMMA FittingSlot ==
  ASSUME NEW ds \in Sizes, NEW s \in Nat \ {0}, Fits(ds, s)
  PROVE  s \in SlotId
  <1>1. s <= ByteBits * BitmapMax
    BY BitmapRange, SizesNat, BitmapMaxNat, SMT DEF Fits
  <1> QED
    BY <1>1, BitmapMaxNat, SMT DEF SlotId

\* The check of the append path is exactly that one more slot fits.
LEMMA RoomFits ==
  ASSUME NEW ds \in Nat \ {0}, used \in Nat
  PROVE  HasRoom(ds) <=> Fits(ds, used + 1)
  BY BitmapRange, BitmapMaxNat, SMT DEF HasRoom, Fits

\* Slots are laid out in increasing order.
LEMMA SlotsAscend ==
  ASSUME NEW ds \in Nat \ {0}, NEW s \in Nat \ {0}, NEW t \in Nat, t >= s
  PROVE  /\ SlotStart(ds, s) <= SlotStart(ds, t)
         /\ HeaderSize + BitmapSize(ds) <= SlotStart(ds, s)
  <1>1. ds * (s - 1) >= 0 /\ ds * (t - s) >= 0
    BY SMTT(20)
  <1>2. ds * (t - 1) = ds * (s - 1) + ds * (t - s)
    BY SMTT(20)
  <1>3. ds * (s - 1) \in Int /\ ds * (t - s) \in Int /\ ds * (t - 1) \in Int
    BY SMT
  <1> QED
    BY <1>1, <1>2, <1>3, BitmapRange, BitmapMaxNat, SMT DEF SlotStart

\* Cells, headers and chunks cannot be confused.
LEMMA CellsApart ==
  /\ Blank # Torn /\ Blank \notin Chunk /\ Torn \notin Chunk
  /\ Blank \notin Sizes /\ Torn \notin Sizes
  /\ \A c \in Chunk : Size[c] \in Sizes
  /\ SlotId \subseteq Nat \ {0}
  <1>1. Blank \notin Nat /\ Torn \notin Nat
    BY CellAssumption
  <1>2. SlotId \subseteq Nat \ {0}
    BY BitmapMaxNat, SMT DEF SlotId
  <1> QED
    BY <1>1, <1>2, CellAssumption, SizesNat DEF Sizes

-----------------------------------------------------------------------------
(* The inductive invariant *)

LEMMA InitInv == Init => IInv
  <1> SUFFICES ASSUME Init PROVE IInv
    OBVIOUS
  <1>1. TypeOK
    BY BitmapMaxNat, SMT DEF Init, TypeOK, AllSlots
  <1> QED
    BY <1>1, CellsApart DEF Init, IInv, Journal, Progress, Result

\* What the journal looks like when fdcm_write is about to fill a slot.
LEMMA DataSlot ==
  ASSUME IInv, pc = "data"
  PROVE  /\ used \in SlotId /\ slot[used] = Blank /\ header = Size[arg]
         /\ Fits(Size[arg], used) /\ HeaderValid(Size[arg])
  <1>1. header = Size[arg] /\ used > 0 /\ slot[used] = Blank /\ ~TooBig(Size[arg])
    BY DEF IInv, Progress
  <1>2. Size[arg] \in Sizes /\ used \in Nat \ {0}
    BY <1>1, CellsApart, BitmapMaxNat, SMT DEF IInv, TypeOK
  <1>3. Fits(Size[arg], used)
    BY <1>1, <1>2 DEF IInv, Journal
  <1> QED
    BY <1>1, <1>2, <1>3, FirstSlot, FittingSlot, SizesNat DEF HeaderValid

\* The facts every step starts from.
LEMMA InvFacts ==
  ASSUME IInv
  PROVE  /\ arg \in Chunk /\ Size[arg] \in Sizes /\ Size[arg] \in Nat \ {0}
         /\ used \in Nat /\ slot \in [SlotId -> Chunk \cup {Blank, Torn}]
  <1>1. arg \in Chunk /\ slot \in [SlotId -> Chunk \cup {Blank, Torn}]
    BY DEF IInv, TypeOK
  <1>2. used \in Nat
    BY BitmapMaxNat, SMT DEF IInv, TypeOK
  <1> QED
    BY <1>1, <1>2, CellsApart, SizesNat

LEMMA RejectInv == IInv /\ (\E c \in Chunk : RejectWrite(c)) => IInv'
  <1> SUFFICES ASSUME IInv, NEW c \in Chunk, RejectWrite(c) PROVE IInv'
    OBVIOUS
  <1> QED
    BY DEF IInv, TypeOK, Journal, Progress, Result, RejectWrite

LEMMA StartInv == IInv /\ (\E c \in Chunk : StartWrite(c)) => IInv'
  <1> SUFFICES ASSUME IInv, NEW c \in Chunk, StartWrite(c) PROVE IInv'
    OBVIOUS
  <1> USE DEF StartWrite
  <1>1. TypeOK'
    BY DEF IInv, TypeOK
  <1>2. Journal'
    BY DEF IInv, Journal
  <1>3. Progress'
    BY DEF IInv, Progress, HeaderValid, HasRoom
  <1>4. Result'
    BY DEF Result
  <1> QED
    BY <1>1, <1>2, <1>3, <1>4 DEF IInv

LEMMA EraseInv == IInv /\ EraseArea => IInv'
  <1> SUFFICES ASSUME IInv, EraseArea PROVE IInv'
    OBVIOUS
  <1> USE DEF EraseArea
  <1>1. TypeOK'
    BY BitmapMaxNat, SMT DEF IInv, TypeOK, AllSlots
  <1>2. Journal'
    BY CellsApart DEF Journal
  <1>3. Progress' /\ Result'
    BY DEF IInv, Progress, Result, AllSlots
  <1> QED
    BY <1>1, <1>2, <1>3 DEF IInv

LEMMA HeaderInv == IInv /\ WriteHeader => IInv'
  <1> SUFFICES ASSUME IInv, WriteHeader PROVE IInv'
    OBVIOUS
  <1> USE DEF WriteHeader
  <1>1. header = Blank /\ used = 0 /\ slot = AllSlots(Blank) /\ ~TooBig(Size[arg])
    BY DEF IInv, Progress
  <1>2. header' = Size[arg] /\ Size[arg] \in Sizes
    BY <1>1, InvFacts DEF Program
  <1>3. TypeOK'
    BY <1>2 DEF IInv, TypeOK
  <1>4. Journal'
    BY <1>1, <1>2 DEF Journal, AllSlots, TooBig
  <1>5. Progress' /\ Result'
    BY <1>1, <1>2 DEF IInv, Progress, Result, TooBig, AllSlots
  <1> QED
    BY <1>3, <1>4, <1>5 DEF IInv

LEMMA BitmapInv == IInv /\ WriteBitmap => IInv'
  <1> SUFFICES ASSUME IInv, WriteBitmap PROVE IInv'
    OBVIOUS
  <1> USE DEF WriteBitmap
  <1>1. header = Size[arg] /\ used = 0 /\ slot = AllSlots(Blank) /\ ~TooBig(Size[arg])
    BY DEF IInv, Progress
  <1>2. Fits(Size[arg], 1) /\ 1 \in SlotId
    BY <1>1, InvFacts, FirstSlot, FittingSlot
  <1>3. TypeOK'
    BY BitmapMaxNat, SMT DEF IInv, TypeOK
  <1>4. Journal'
    BY <1>1, <1>2 DEF Journal, AllSlots, TooBig, Fits, SlotStart
  <1>5. Progress'
    BY <1>1, <1>2, SMT DEF Progress, TooBig, AllSlots
  <1>6. Result'
    BY DEF Result
  <1> QED
    BY <1>3, <1>4, <1>5, <1>6 DEF IInv

LEMMA MarkInv == IInv /\ MarkSlot => IInv'
  <1> SUFFICES ASSUME IInv, MarkSlot PROVE IInv'
    OBVIOUS
  <1> USE DEF MarkSlot
  <1>1. header = Size[arg] /\ HasRoom(Size[arg]) /\ ~TooBig(Size[arg])
    BY DEF IInv, Progress
  <1>2. Fits(Size[arg], used + 1) /\ used + 1 \in SlotId
    BY <1>1, InvFacts, RoomFits, FittingSlot, SMT
  <1>3. slot[used + 1] = Blank
    BY <1>1, <1>2, InvFacts, SMT DEF IInv, Journal
  <1>4. TypeOK'
    BY <1>2, SMT DEF IInv, TypeOK, SlotId
  <1>5. Journal'
    BY <1>1, <1>2, InvFacts, CellsApart, SMT DEF IInv, Journal, TooBig, Fits, SlotStart
  <1>6. Progress' /\ Result'
    BY <1>1, <1>3, InvFacts, SMT DEF Progress, Result, TooBig
  <1> QED
    BY <1>4, <1>5, <1>6 DEF IInv

LEMMA DataInv == IInv /\ WriteData => IInv'
  <1> SUFFICES ASSUME IInv, WriteData PROVE IInv'
    OBVIOUS
  <1> USE DEF WriteData
  <1>1. /\ used \in SlotId /\ slot[used] = Blank /\ header = Size[arg]
        /\ used > 0
    BY DataSlot DEF IInv, Progress
  <1>2. slot' = [slot EXCEPT ![used] = arg]
    BY <1>1 DEF Program
  <1>3. TypeOK'
    BY <1>2, InvFacts DEF IInv, TypeOK
  <1>4. Journal'
    BY <1>2, InvFacts, CellsApart, SMT DEF IInv, Journal, TooBig, Fits, SlotStart
  <1>5. Progress' /\ Result'
    BY <1>1, <1>2, InvFacts DEF IInv, Progress, Result
  <1> QED
    BY <1>3, <1>4, <1>5 DEF IInv

\* An operation that does not complete: one case per operation it may be.
LEMMA DamageInv ==
  ASSUME IInv, pc # "idle", Damage, pc' = "idle", ret' # "ok",
         ret' \in {"ok", "fail", "none"}, UNCHANGED arg
  PROVE  IInv'
  <1>1. TypeOK' /\ Journal'
    <2>1. CASE UNCHANGED <<header, used, slot>>
      BY <2>1 DEF IInv, TypeOK, Journal, TooBig, Fits, SlotStart
    <2>2. CASE /\ pc = "erase"
               /\ \E cell \in {Blank, Torn} :
                    header' = cell /\ slot' = AllSlots(cell)
               /\ used' = 0
      <3>1. TypeOK'
        BY <2>2, BitmapMaxNat, SMT DEF IInv, TypeOK, AllSlots
      <3>2. Journal'
        BY <2>2, CellsApart DEF Journal
      <3> QED
        BY <3>1, <3>2
    <2>3. CASE /\ pc = "header"
               /\ header' \in {Torn, Size[arg]}
               /\ UNCHANGED <<used, slot>>
      <3>1. used = 0 /\ slot = AllSlots(Blank) /\ ~TooBig(Size[arg])
        BY <2>3 DEF IInv, Progress
      <3>2. TypeOK'
        BY <2>3, InvFacts DEF IInv, TypeOK
      <3>3. Journal'
        BY <2>3, <3>1, CellsApart DEF Journal, AllSlots, TooBig
      <3> QED
        BY <3>2, <3>3
    <2>4. CASE pc = "bitmap" /\ used' = 1 /\ UNCHANGED <<header, slot>>
      <3>1. header = Size[arg] /\ slot = AllSlots(Blank) /\ ~TooBig(Size[arg])
        BY <2>4 DEF IInv, Progress
      <3>2. TypeOK'
        BY <2>4, BitmapMaxNat, SMT DEF IInv, TypeOK
      <3>3. Journal'
        BY <2>4, <3>1, InvFacts, FirstSlot DEF Journal, AllSlots, TooBig, Fits, SlotStart
      <3> QED
        BY <3>2, <3>3
    <2>5. CASE pc = "mark" /\ used' = used + 1 /\ UNCHANGED <<header, slot>>
      <3>1. header = Size[arg] /\ HasRoom(Size[arg]) /\ ~TooBig(Size[arg])
        BY <2>5 DEF IInv, Progress
      <3>2. Fits(Size[arg], used + 1) /\ used + 1 \in SlotId
        BY <3>1, InvFacts, RoomFits, FittingSlot, SMT
      <3>3. TypeOK'
        BY <2>5, <3>2, SMT DEF IInv, TypeOK, SlotId
      <3>4. Journal'
        BY <2>5, <3>1, <3>2, InvFacts, CellsApart, SMT
           DEF IInv, Journal, TooBig, Fits, SlotStart
      <3> QED
        BY <3>3, <3>4
    <2>6. CASE /\ pc = "data"
               /\ \E new \in {Torn, arg} :
                    slot' = [slot EXCEPT ![used] = Program(@, new)]
               /\ UNCHANGED <<header, used>>
      <3>1. used \in SlotId /\ slot[used] = Blank
        BY <2>6, DataSlot
      <3>2. PICK new \in {Torn, arg} : slot' = [slot EXCEPT ![used] = new]
        BY <2>6, <3>1 DEF Program
      <3>3. TypeOK'
        BY <2>6, <3>2, InvFacts DEF IInv, TypeOK
      <3>4. Journal'
        BY <2>6, <3>2, InvFacts, CellsApart, SMT DEF IInv, Journal, TooBig, Fits, SlotStart
      <3> QED
        BY <3>3, <3>4
    <2> QED
      BY <2>1, <2>2, <2>3, <2>4, <2>5, <2>6 DEF Damage
  <1>2. Progress' /\ Result'
    BY DEF Progress, Result
  <1> QED
    BY <1>1, <1>2 DEF IInv

LEMMA EraseWholeInv == IInv /\ Erase => IInv'
  <1> SUFFICES ASSUME IInv, Erase PROVE IInv'
    OBVIOUS
  <1> USE DEF Erase
  <1>1. TypeOK'
    BY BitmapMaxNat, SMT DEF IInv, TypeOK, AllSlots
  <1>2. Journal'
    BY CellsApart DEF IInv, Journal, TooBig, Fits, SlotStart
  <1>3. Progress' /\ Result'
    BY DEF Progress, Result
  <1> QED
    BY <1>1, <1>2, <1>3 DEF IInv

LEMMA NextInv == IInv /\ [Next]_vars => IInv'
  <1> SUFFICES ASSUME IInv, [Next]_vars PROVE IInv'
    OBVIOUS
  <1>1. CASE \E c \in Chunk : RejectWrite(c) \/ StartWrite(c)
    BY <1>1, RejectInv, StartInv
  <1>2. CASE EraseArea
    BY <1>2, EraseInv
  <1>3. CASE WriteHeader
    BY <1>3, HeaderInv
  <1>4. CASE WriteBitmap
    BY <1>4, BitmapInv
  <1>5. CASE MarkSlot
    BY <1>5, MarkInv
  <1>6. CASE WriteData
    BY <1>6, DataInv
  <1>7. CASE FlashError \/ PowerLoss
    BY <1>7, DamageInv DEF FlashError, PowerLoss
  <1>8. CASE Erase
    BY <1>8, EraseWholeInv
  <1>9. CASE UNCHANGED vars
    BY <1>9 DEF vars, IInv, TypeOK, Journal, Progress, Result, TooBig, Fits, SlotStart,
                HeaderValid, HasRoom
  <1> QED
    BY <1>1, <1>2, <1>3, <1>4, <1>5, <1>6, <1>7, <1>8, <1>9 DEF Next

\* Every reachable state of the journal satisfies the invariant.
THEOREM Invariant == Spec => []IInv
  BY InitInv, NextInv, PTL DEF Spec

\* The state of fdcm.c keeps its shape, through errors and power losses.
THEOREM TypeCorrect == Spec => []TypeOK
  <1>1. IInv => TypeOK
    BY DEF IInv
  <1> QED
    BY <1>1, Invariant, PTL

\* A chunk whose fdcm_write returned data_size is what fdcm_read delivers,
\* with no read-back after the write.
THEOREM Durable == Spec => []WrittenIsReadable
  <1>1. IInv => WrittenIsReadable
    <2> SUFFICES ASSUME IInv, pc = "idle", ret = "ok" PROVE ReadChunk(Size[arg]) = arg
      BY DEF WrittenIsReadable
    <2>1. header = Size[arg] /\ used > 0 /\ slot[used] = arg
      BY DEF IInv, Result
    <2>2. Fits(Size[arg], used) /\ ~TooBig(Size[arg])
      BY <2>1, InvFacts DEF IInv, Journal
    <2>3. HeaderValid(Size[arg])
      BY <2>1, <2>2, InvFacts, FirstSlot DEF HeaderValid
    <2>4. used \in Nat \ {0}
      BY <2>1, InvFacts, SMT
    <2>5. used \in SlotId
      BY <2>2, <2>4, InvFacts, FittingSlot
    <2> QED
      BY <2>1, <2>3, <2>5, InvFacts DEF ReadChunk
  <1> QED
    BY <1>1, Invariant, PTL

\* fdcm_write never programs a cell that is not erased.
THEOREM NorDiscipline == Spec => []ProgramsBlankCells
  <1>1. IInv => ProgramsBlankCells
    BY DataSlot DEF IInv, Progress, ProgramsBlankCells
  <1> QED
    BY <1>1, Invariant, PTL

\* The slot fdcm_write fills lies between the bitmap and the end of the area.
THEOREM WritesConfined == Spec => []WritesInsideArea
  <1>1. IInv => WritesInsideArea
    <2> SUFFICES ASSUME IInv, pc = "data" PROVE WritesInsideArea
      BY DEF WritesInsideArea
    <2>1. /\ used \in SlotId /\ Fits(Size[arg], used) /\ HeaderValid(Size[arg])
      BY DataSlot
    <2>2. HeaderSize + BitmapSize(Size[arg]) <= SlotStart(Size[arg], used)
      BY <2>1, InvFacts, CellsApart, SlotsAscend, SMT
    <2>3. BitmapSize(Size[arg]) \in Nat /\ SlotStart(Size[arg], used) \in Int
      BY InvFacts, BitmapRange, BitmapMaxNat, SMT DEF SlotStart
    <2> QED
      BY <2>1, <2>2, <2>3, BitmapMaxNat, SMT DEF WritesInsideArea, Fits
  <1> QED
    BY <1>1, Invariant, PTL

\* fdcm_read: what it reads lies in the area, except under a header whose
\* write was never finished.
THEOREM ReadsConfined == Spec => []ReadInsideOnceWritten
  <1>1. IInv => ReadInsideOnceWritten
    <2> SUFFICES ASSUME IInv, NEW ds \in Sizes, pc = "idle", header = ds,
                        used > 0 \/ ret = "ok"
                 PROVE  /\ SlotStart(ds, used) >= HeaderSize + BitmapSize(ds)
                        /\ SlotStart(ds, used) + ds <= AreaSize
      BY DEF ReadInsideOnceWritten, HeaderValid, ReadStart
    <2>1. used > 0
      BY DEF IInv, Result
    <2>2. Fits(ds, used)
      BY <2>1 DEF IInv, Journal
    <2>3. ds \in Nat \ {0} /\ used \in Nat \ {0}
      BY <2>1, InvFacts, SizesNat, SMT
    <2>4. HeaderSize + BitmapSize(ds) <= SlotStart(ds, used)
      BY <2>3, SlotsAscend, SMT
    <2>5. BitmapSize(ds) \in Nat /\ SlotStart(ds, used) \in Int
      BY <2>3, BitmapRange, BitmapMaxNat, SMT DEF SlotStart
    <2> QED
      BY <2>2, <2>4, <2>5, BitmapMaxNat, SMT DEF Fits
  <1> QED
    BY <1>1, Invariant, PTL

\* A journal for the right chunk size is erased only when it is full.
THEOREM WearBound == Spec => ErasedOnlyWhenFull
  <1>1. IInv /\ [Next]_vars =>
          [EraseArea /\ HeaderValid(Size[arg]) =>
             \A s \in SlotId : Fits(Size[arg], s) => s <= used]_vars
    <2> SUFFICES ASSUME IInv, EraseArea, HeaderValid(Size[arg]),
                        NEW s \in SlotId, Fits(Size[arg], s)
                 PROVE  s <= used
      OBVIOUS
    <2> SUFFICES ASSUME s > used PROVE FALSE
      BY InvFacts, CellsApart, SMT
    <2>1. ~HasRoom(Size[arg]) /\ s \in Nat \ {0}
      BY CellsApart DEF IInv, Progress, EraseArea
    <2>2. used + 1 \in Nat \ {0} /\ s >= used + 1
      BY <2>1, InvFacts, SMT
    <2>3. SlotStart(Size[arg], used + 1) <= SlotStart(Size[arg], s)
      BY <2>1, <2>2, InvFacts, SlotsAscend
    <2>4. /\ BitmapSize(Size[arg]) \in Nat
          /\ SlotStart(Size[arg], used + 1) \in Int /\ SlotStart(Size[arg], s) \in Int
      BY <2>1, InvFacts, BitmapRange, BitmapMaxNat, SMT DEF SlotStart
    <2>5. Fits(Size[arg], used + 1)
      BY <2>1, <2>2, <2>3, <2>4, InvFacts, AreaAssumption, BitmapMaxNat, SMT DEF Fits
    <2> QED
      BY <2>1, <2>5, InvFacts, RoomFits
  <1> QED
    BY <1>1, Invariant, PTL DEF Spec, ErasedOnlyWhenFull

-----------------------------------------------------------------------------
(* The journal implements the register of FdcmRegister *)

\* Only a slot that holds a chunk makes the register non-void.
LEMMA VoidStored ==
  ASSUME ~(header \in Sizes /\ used \in SlotId /\ slot[used] \in Chunk)
  PROVE  (IF header \in Sizes THEN ReadChunk(header) ELSE Torn) = Torn
  BY DEF ReadChunk

\* The register's view of the block.
Stored == IF header \in Sizes THEN ReadChunk(header) ELSE Torn

\* While a slot is being marked or filled the register is void.
LEMMA VoidDuringWrite ==
  IInv /\ pc \in {"header", "bitmap", "data"} => Stored = Torn
  <1> SUFFICES ASSUME IInv, pc \in {"header", "bitmap", "data"} PROVE Stored = Torn
    OBVIOUS
  <1>1. CASE pc = "data"
    BY <1>1, DataSlot, CellsApart, VoidStored DEF Stored
  <1>2. CASE pc \in {"header", "bitmap"}
    BY <1>2, CellsApart, VoidStored DEF IInv, Progress, Stored
  <1> QED
    BY <1>1, <1>2

\* The next slot is blank, so marking it makes the register void.
LEMMA VoidAfterMark ==
  ASSUME IInv, pc = "mark", used' = used + 1, UNCHANGED <<header, slot>>
  PROVE  Stored' = Torn
  <1>1. header = Size[arg] /\ HasRoom(Size[arg])
    BY DEF IInv, Progress
  <1>2. used + 1 \in SlotId
    BY <1>1, InvFacts, RoomFits, FittingSlot, SMT
  <1>3. slot[used + 1] = Blank
    BY <1>1, <1>2, InvFacts, SMT DEF IInv, Journal
  <1> QED
    BY <1>3, CellsApart DEF Stored, ReadChunk, HeaderValid

LEMMA DamageEnds ==
  ASSUME IInv, pc # "idle", Damage, UNCHANGED arg
  PROVE  Stored' \in {Stored, Torn, arg}
  <1>1. CASE UNCHANGED <<header, used, slot>>
    BY <1>1 DEF Stored, ReadChunk, HeaderValid
  <1>2. CASE pc = "erase" /\ used' = 0
    BY <1>2, CellsApart DEF Stored, ReadChunk
  <1>3. CASE pc = "header" /\ UNCHANGED <<used, slot>>
    BY <1>3, CellsApart DEF IInv, Progress, Stored, ReadChunk
  <1>4. CASE pc = "bitmap" /\ used' = 1 /\ UNCHANGED <<header, slot>>
    <2>1. slot = AllSlots(Blank)
      BY <1>4 DEF IInv, Progress
    <2> QED
      BY <1>4, <2>1, CellsApart DEF Stored, ReadChunk, AllSlots
  <1>5. CASE pc = "mark" /\ used' = used + 1 /\ UNCHANGED <<header, slot>>
    BY <1>5, VoidAfterMark
  <1>6. CASE /\ pc = "data"
             /\ \E new \in {Torn, arg} :
                  slot' = [slot EXCEPT ![used] = Program(@, new)]
             /\ UNCHANGED <<header, used>>
    <2>1. used \in SlotId /\ slot[used] = Blank
      BY <1>6, DataSlot
    <2>2. slot'[used] \in {Torn, arg}
      BY <1>6, <2>1, InvFacts DEF Program
    <2> QED
      BY <1>6, <2>2, CellsApart DEF Stored, ReadChunk, HeaderValid
  <1> QED
    BY <1>1, <1>2, <1>3, <1>4, <1>5, <1>6 DEF Damage

\* fdcm.c implements a register whose pending write may lose the stored chunk
\* but never brings an older one back.
THEOREM Refinement == Spec => ImplementsRegister
  <1> DEFINE Pending == IF pc = "idle" THEN Blank ELSE arg
  <1>1. Init => Reg!RegInit
    BY CellsApart DEF Init, Reg!RegInit
  <1>2. IInv /\ IInv' /\ [Next]_vars => [Reg!RegNext]_Reg!regVars
    <2> SUFFICES ASSUME IInv, IInv', [Next]_vars PROVE [Reg!RegNext]_Reg!regVars
      OBVIOUS
    <2> USE DEF Reg!RegNext, Reg!regVars
    <2>1. ASSUME NEW c \in Chunk, RejectWrite(c) PROVE UNCHANGED Reg!regVars
      BY <2>1 DEF RejectWrite, ReadChunk, HeaderValid
    <2>2. ASSUME NEW c \in Chunk, StartWrite(c) PROVE Reg!Begin(c)
      BY <2>2 DEF StartWrite, Reg!Begin, ReadChunk, HeaderValid
    <2>3. CASE EraseArea
      <3>1. Stored' = Torn /\ Pending' = Pending /\ arg # Blank
        BY <2>3, InvFacts, CellsApart DEF EraseArea, Stored
      <3> QED
        BY <2>3, <3>1 DEF Reg!Lose, EraseArea, Stored
    <2>4. CASE WriteHeader \/ WriteBitmap
      <3>0. (IInv /\ pc \in {"header", "bitmap", "data"} => Stored = Torn)'
        BY VoidDuringWrite, PTL
      <3>1. Stored = Torn /\ Stored' = Torn /\ Pending' = Pending
        BY <2>4, <3>0, VoidDuringWrite DEF WriteHeader, WriteBitmap
      <3> QED
        BY <3>1 DEF Stored
    <2>5. CASE MarkSlot
      <3>1. Stored' = Torn /\ Pending' = Pending /\ arg # Blank
        BY <2>5, VoidAfterMark, InvFacts, CellsApart DEF MarkSlot
      <3> QED
        BY <2>5, <3>1 DEF Reg!Lose, MarkSlot, Stored
    <2>6. CASE WriteData
      <3>1. header' = Size[arg] /\ used' \in SlotId /\ slot'[used] = arg
        BY <2>6, DataSlot, InvFacts DEF WriteData, Program
      <3>2. HeaderValid(Size[arg])'
        BY <2>6, DataSlot DEF WriteData, HeaderValid
      <3>3. Stored' = arg /\ arg # Blank
        BY <2>6, <3>1, <3>2, InvFacts, CellsApart DEF WriteData, Stored, ReadChunk, HeaderValid
      <3> QED
        BY <2>6, <3>3 DEF WriteData, Reg!Commit, Stored
    <2>7. CASE FlashError \/ PowerLoss
      <3>1. pc # "idle" /\ pc' = "idle" /\ arg # Blank
        BY <2>7, InvFacts, CellsApart DEF FlashError, PowerLoss
      <3>2. Stored' \in {Stored, Torn, arg}
        BY <2>7, DamageEnds DEF FlashError, PowerLoss
      <3> QED
        BY <3>1, <3>2 DEF Reg!Abandon, Reg!Commit, Stored
    <2>8. CASE Erase
      <3>1. Pending = Blank /\ Pending' = Blank
        BY <2>8 DEF Erase
      <3>2. Stored' \in {Stored, Torn}
        BY <2>8, CellsApart DEF Erase, Stored, ReadChunk, HeaderValid
      <3> QED
        BY <3>1, <3>2 DEF Reg!Discard, Stored
    <2>9. CASE UNCHANGED vars
      BY <2>9 DEF vars, ReadChunk, HeaderValid
    <2> QED
      BY <2>1, <2>2, <2>3, <2>4, <2>5, <2>6, <2>7, <2>8, <2>9 DEF Next
  <1> QED
    BY <1>1, <1>2, Invariant, PTL DEF Spec, ImplementsRegister, Reg!RegSpec
=============================================================================
