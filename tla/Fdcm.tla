-------------------------------- MODULE Fdcm --------------------------------
(***************************************************************************)
(* The Flash Data Chunk Manager, rom_bin/src/image/fdcm.c: a journal of    *)
(* chunks in one erase block.  The block holds a header (which records the *)
(* chunk size), a bitmap whose leading zero bits count the used slots, and *)
(* the slots.  A write marks the next slot used and then fills it; when no *)
(* slot is left, or the header is not one for this chunk size, the block   *)
(* is erased and started again.  A read delivers the last used slot.       *)
(*                                                                         *)
(* One action is one flash operation, so that power can fail between any   *)
(* two of them, or in the middle of one.  Addresses are offsets from       *)
(* hdl->addr.                                                              *)
(*                                                                         *)
(* Abstractions.  The area is one erase block, as the image configuration  *)
(* and sysinfo areas are (4 KB).  A header or a chunk that was cut short   *)
(* reads as Torn, and an interrupted erase leaves the whole block Torn or  *)
(* Blank or untouched: the id_code of a torn header is taken not to match. *)
(* One caller at a time, as fdcm.c has no lock.                            *)
(***************************************************************************)
EXTENDS Integers

CONSTANTS Chunk,        \* chunks the callers store
          Size,         \* Size[c]: data_size of chunk c, in bytes
          AreaSize,     \* hdl->size
          Blank, Torn   \* contents of a cell that holds no chunk

HeaderSize   == 8       \* FDCM_HEADER_SIZE
ByteBits     == 8       \* FDCM_BYTE_BITS
BitmapMax    == 1024    \* FDCM_INDEX_MAX
UInt16       == 65536   \* header.bitmap_size is a uint16_t

ASSUME SizeAssumption == Size \in [Chunk -> Nat \ {0}]
\* Below this size bitmap_size is not truncated to 16 bits (areas are 4 KB).
ASSUME AreaAssumption ==
  AreaSize \in Nat /\ AreaSize > HeaderSize /\ AreaSize < 9 * UInt16
ASSUME CellAssumption ==
  /\ Blank # Torn
  /\ {Blank, Torn} \cap Chunk = {}
  /\ {Blank, Torn} \cap Nat = {}

Sizes == {Size[c] : c \in Chunk}

\* header.bitmap_size, computed in 16 bits, for chunks of ds bytes.
BitmapSize(ds) ==
  LET b == ((AreaSize - HeaderSize - 1) \div (ds * ByteBits + 1) + 1) % UInt16
  IN  IF b > BitmapMax THEN BitmapMax ELSE b

SlotStart(ds, s) == HeaderSize + BitmapSize(ds) + ds * (s - 1)

\* Slot s has a bit in the bitmap and lies inside the area.
Fits(ds, s) ==
  /\ s <= ByteBits * BitmapSize(ds)
  /\ SlotStart(ds, s) + ds <= AreaSize

SlotId == {s \in 1 .. ByteBits * BitmapMax : \E ds \in Sizes : Fits(ds, s)}

TooBig(ds) == ds > AreaSize - HeaderSize - BitmapSize(ds)

VARIABLES header,   \* Blank, Torn or the data_size written in the header
          used,     \* fdcm_bit_count of the bitmap
          slot,     \* contents of the slots
          pc,       \* the flash operation fdcm_write does next
          arg,      \* the chunk of the last fdcm_write
          ret       \* its outcome: "ok" (data_size), "fail" (less), "none"
                    \* (unknown, or the area erased since)

vars == <<header, used, slot, pc, arg, ret>>

\* The sanity check of the header in fdcm_read and fdcm_write.
HeaderValid(ds) ==
  /\ header = ds
  /\ BitmapSize(ds) # 0
  /\ BitmapSize(ds) + HeaderSize < AreaSize

\* Programming clears bits only: a cell takes new contents when erased.
Program(cell, new) == IF cell = Blank THEN new ELSE Torn

AllSlots(cell) == [s \in SlotId |-> cell]

Init ==
  /\ header = Blank
  /\ used = 0
  /\ slot = AllSlots(Blank)
  /\ pc = "idle"
  /\ arg \in Chunk
  /\ ret = "none"

-----------------------------------------------------------------------------
(* fdcm_write *)

\* Faulty variants of definitions, used to test the properties, end in Bug.
\* The end of the slot is not counted.
HasRoomStartBug(ds) == used < ByteBits * BitmapSize(ds)
                       /\ SlotStart(ds, used + 1) <= AreaSize
\* A slot that ends exactly at the end of the area is refused.
HasRoomTightBug(ds) == used < ByteBits * BitmapSize(ds)
                       /\ SlotStart(ds, used + 1) + ds < AreaSize

HasRoom(ds) == used < ByteBits * BitmapSize(ds)
               /\ SlotStart(ds, used + 1) + ds <= AreaSize

\* The chunk does not fit into the area at all: nothing is written.
RejectWrite(c) ==
  /\ pc = "idle"
  /\ TooBig(Size[c])
  /\ arg' = c
  /\ ret' = "fail"
  /\ UNCHANGED <<header, used, slot, pc>>

StartWrite(c) ==
  /\ pc = "idle"
  /\ ~TooBig(Size[c])
  /\ arg' = c
  /\ ret' = "none"
  /\ pc' = IF HeaderValid(Size[c]) /\ HasRoom(Size[c]) THEN "mark" ELSE "erase"
  /\ UNCHANGED <<header, used, slot>>

\* Only the header is reset: bitmap and slots keep their contents.
EraseAreaBug ==
  /\ pc = "erase"
  /\ header' = Blank
  /\ pc' = "header"
  /\ UNCHANGED <<used, slot, arg, ret>>

\* The header records the size of the area.
WriteHeaderBug ==
  /\ pc = "header"
  /\ header' = Program(header, AreaSize)
  /\ pc' = "bitmap"
  /\ UNCHANGED <<used, slot, arg, ret>>

\* The first bitmap byte is written as 0xFF.
WriteBitmapBug ==
  /\ pc = "bitmap"
  /\ pc' = "data"
  /\ UNCHANGED <<header, used, slot, arg, ret>>

\* The bit of the last used slot is cleared again.
MarkSlotBug ==
  /\ pc = "mark"
  /\ pc' = "data"
  /\ UNCHANGED <<header, used, slot, arg, ret>>

\* fdcm_rewrite: erase, header, first bitmap byte 0xFE, data.
EraseArea ==
  /\ pc = "erase"
  /\ header' = Blank
  /\ used' = 0
  /\ slot' = AllSlots(Blank)
  /\ pc' = "header"
  /\ UNCHANGED <<arg, ret>>

WriteHeader ==
  /\ pc = "header"
  /\ header' = Program(header, Size[arg])
  /\ pc' = "bitmap"
  /\ UNCHANGED <<used, slot, arg, ret>>

WriteBitmap ==
  /\ pc = "bitmap"
  /\ used' = 1
  /\ pc' = "data"
  /\ UNCHANGED <<header, slot, arg, ret>>

\* The append path: the slot is marked used before it is filled.
MarkSlot ==
  /\ pc = "mark"
  /\ used' = used + 1
  /\ pc' = "data"
  /\ UNCHANGED <<header, slot, arg, ret>>

WriteData ==
  /\ pc = "data"
  /\ slot' = [slot EXCEPT ![used] = Program(@, arg)]
  /\ pc' = "idle"
  /\ ret' = "ok"
  /\ UNCHANGED <<header, used, arg>>

-----------------------------------------------------------------------------
(* A flash operation that does not complete *)

\* What the operation in progress may have done to the block.
Damage ==
  \/ /\ pc = "erase"
     /\ \E cell \in {Blank, Torn} :
          header' = cell /\ slot' = AllSlots(cell)
     /\ used' = 0
  \/ /\ pc = "header"
     /\ header' \in {Torn, Size[arg]}
     /\ UNCHANGED <<used, slot>>
  \/ /\ pc = "bitmap"
     /\ used' = 1
     /\ UNCHANGED <<header, slot>>
  \/ /\ pc = "mark"
     /\ used' = used + 1
     /\ UNCHANGED <<header, slot>>
  \/ /\ pc = "data"
     /\ \E new \in {Torn, arg} :
          slot' = [slot EXCEPT ![used] = Program(@, new)]
     /\ UNCHANGED <<header, used>>
  \/ UNCHANGED <<header, used, slot>>

\* A flash call reports an error: fdcm_write returns less than data_size.
FlashError ==
  /\ pc # "idle"
  /\ Damage
  /\ pc' = "idle"
  /\ ret' = "fail"
  /\ UNCHANGED arg

\* The caller never learns the outcome: it reboots.
PowerLoss ==
  /\ pc # "idle"
  /\ Damage
  /\ pc' = "idle"
  /\ ret' = "none"
  /\ UNCHANGED arg

\* fdcm_erase, between two writes, complete or cut short as in Damage.
Erase ==
  /\ pc = "idle"
  /\ \/ /\ \E cell \in {Blank, Torn} :
             header' = cell /\ slot' = AllSlots(cell)
        /\ used' = 0
     \/ UNCHANGED <<header, used, slot>>
  /\ ret' = "none"
  /\ UNCHANGED <<pc, arg>>

Next ==
  \/ \E c \in Chunk : RejectWrite(c) \/ StartWrite(c)
  \/ EraseArea \/ WriteHeader \/ WriteBitmap \/ MarkSlot \/ WriteData
  \/ FlashError \/ PowerLoss \/ Erase

Spec == Init /\ [][Next]_vars

-----------------------------------------------------------------------------
(* fdcm_read *)

\* Where fdcm_read takes the chunk from once the header passed its check.
ReadStart(ds) == SlotStart(ds, used)

\* The chunk a read of ds bytes delivers, Torn when it delivers none.
ReadChunk(ds) ==
  IF HeaderValid(ds) /\ used \in SlotId /\ slot[used] \in Chunk
  THEN slot[used] ELSE Torn

-----------------------------------------------------------------------------
(* Properties *)

TypeOK ==
  /\ header \in Sizes \cup {Blank, Torn}
  /\ used \in 0 .. ByteBits * BitmapMax
  /\ slot \in [SlotId -> Chunk \cup {Blank, Torn}]
  /\ pc \in {"idle", "erase", "header", "bitmap", "mark", "data"}
  /\ arg \in Chunk
  /\ ret \in {"ok", "fail", "none"}

\* Once fdcm_write returned data_size, and until the next fdcm_write or
\* fdcm_erase begins, a read of that size delivers the chunk, whatever errors and power losses earlier writes met (no read-back needed).
WrittenIsReadable ==
  pc = "idle" /\ ret = "ok" => ReadChunk(Size[arg]) = arg

\* NOR flash only takes data into erased cells: every operation of fdcm_write
\* programs a cell that is blank, also after an earlier write was cut short.
ProgramsBlankCells ==
  /\ pc = "header" => header = Blank
  /\ pc \in {"bitmap", "header"} => used = 0
  /\ pc = "data" => used \in SlotId /\ slot[used] = Blank

\* The slot being written belongs to the area: above header and bitmap, below
\* the end, and its bit exists (the limits of fdcm_write are tight).
WritesInsideArea ==
  pc = "data" =>
    /\ HeaderValid(Size[arg])
    /\ SlotStart(Size[arg], used) >= HeaderSize + BitmapSize(Size[arg])
    /\ SlotStart(Size[arg], used) + Size[arg] <= AreaSize
    /\ used <= ByteBits * BitmapSize(Size[arg])

\* Erasing wears the block: a journal with a header for this size is only
\* erased when every slot that fits has been used.
ErasedOnlyWhenFull ==
  [][EraseArea /\ HeaderValid(Size[arg]) =>
       \A s \in SlotId : Fits(Size[arg], s) => s <= used]_vars

\* fdcm.c:167 "Read a data chunk from the specified area": the bytes a read
\* returns lie in the area.  (fdcm_read does not test bit_cnt for 0.)
ReadInsideArea ==
  \A ds \in Sizes : pc = "idle" /\ HeaderValid(ds) => ReadStart(ds) >= 0

\* Which reads do: the chunk lies between the bitmap and the end of the area
\* unless no bit of the bitmap is cleared, which takes a write that did not
\* succeed.
ReadInsideOnceWritten ==
  \A ds \in Sizes : pc = "idle" /\ HeaderValid(ds) /\ (used > 0 \/ ret = "ok") =>
    /\ ReadStart(ds) >= HeaderSize + BitmapSize(ds)
    /\ ReadStart(ds) + ds <= AreaSize

\* The inductive invariant behind the properties above.
Journal ==   \* a header in place: used slots fit, later slots are blank
  header \in Sizes =>
    /\ ~TooBig(header)
    /\ used > 0 => Fits(header, used)
    /\ \A s \in SlotId : s > used => slot[s] = Blank

Progress ==  \* what fdcm_write knows before each flash operation
  /\ pc # "idle" => ~TooBig(Size[arg])
  /\ pc = "erase" /\ HeaderValid(Size[arg]) => ~HasRoom(Size[arg])
  /\ pc = "header" => header = Blank
  /\ pc \in {"header", "bitmap"} => used = 0 /\ slot = AllSlots(Blank)
  /\ pc \in {"bitmap", "mark", "data"} => header = Size[arg]
  /\ pc = "mark" => HasRoom(Size[arg])
  /\ pc = "data" => used > 0 /\ slot[used] = Blank

Result ==    \* what a successful fdcm_write leaves behind
  pc = "idle" /\ ret = "ok" =>
    header = Size[arg] /\ used > 0 /\ slot[used] = arg

IInv == TypeOK /\ Journal /\ Progress /\ Result

\* What the area holds and the write in progress, as the callers see them.
Reg == INSTANCE FdcmRegister WITH
         Void    <- Torn,
         Nothing <- Blank,
         stored  <- IF header \in Sizes THEN ReadChunk(header) ELSE Torn,
         pending <- IF pc = "idle" THEN Blank ELSE arg

\* fdcm.c implements the register its callers count on.
ImplementsRegister == Reg!RegSpec
=============================================================================
