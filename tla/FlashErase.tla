----------------------------- MODULE FlashErase -----------------------------
(***************************************************************************)
(* flash_erase (image/flash.c), which clears the area of an image before   *)
(* it is written, with the HAL_Flash_Erase and defaultErase it calls.  It  *)
(* splits an area into runs of 4, 32 and 64 KB blocks, as the chip allows, *)
(* and erases run after run, block after block.                            *)
(*                                                                         *)
(* Addresses are in units of 2 KB, so that a request may be misaligned.    *)
(* HAL_Flash_Erase checks a run once; its blocks pass the check together.  *)
(* The device mutex is free: the calls of flash_erase follow each other.   *)
(***************************************************************************)
EXTENDS Integers, Sequences

CONSTANTS ChipSize,     \* cfg.mSize
          Chips,        \* the values of cfg.mEraseSizeSupport
          MaxStart,     \* bound: areas asked for start here at the latest
          MaxEnd        \* bound: areas asked for end here at the latest

K4  == 2                \* BLOCK_SIZE_4K, FLASH_ERASE_4KB
K32 == 16               \* BLOCK_SIZE_32K, FLASH_ERASE_32KB
K64 == 32               \* BLOCK_SIZE_64K, FLASH_ERASE_64KB
Mode == {K4, K32, K64}

ASSUME ChipAssumption == ChipSize \in Nat /\ Chips \subseteq SUBSET Mode
ASSUME BoundAssumption == MaxStart \in Nat /\ MaxEnd \in Nat

VARIABLES modes,        \* what the chip supports
          addr, size,   \* the area to erase
          todo,         \* the runs not finished yet
          erased,       \* flash: the units erased since the call began
          ret,          \* "none" until the call returns, then "ok" or "fail"
          lost          \* history: an erase command did not reach the chip

vars == <<modes, addr, size, todo, erased, ret, lost>>

Area == addr .. addr + size - 1

\* A run of blocks of one size.
Run(m, a, b) == [mode |-> m, from |-> a, to |-> b]
Units(r) == r.from .. r.to - 1

\* Faulty variants of definitions, used to test the properties, end in Bug.
AlignDownBug(a, b) == a

AlignDown(a, b) == a - (a % b)

AlignUpBug(a, b) == AlignDown(a, b)

AlignUp(a, b) == AlignDown(a + b - 1, b)

\* The 32 KB block behind the 64 KB ones is forgotten.
By64Bug(a, e) ==
  <<Run(K4, a, AlignUp(a, K32)), Run(K4, AlignDown(e, K32), e),
    Run(K32, AlignUp(a, K32), AlignUp(a, K64)),
    Run(K64, AlignUp(a, K64), AlignDown(e, K64))>>

\* flash_erase: the runs of the area from a to e, in the order of execution.
By64(a, e) ==
  <<Run(K4, a, AlignUp(a, K32)), Run(K4, AlignDown(e, K32), e),
    Run(K32, AlignUp(a, K32), AlignUp(a, K64)),
    Run(K32, AlignDown(e, K64), AlignDown(e, K32)),
    Run(K64, AlignUp(a, K64), AlignDown(e, K64))>>

\* The 4 KB blocks ahead reach to the end of the area.
By32Bug(a, e) ==
  <<Run(K4, a, e), Run(K4, AlignDown(e, K32), e),
    Run(K32, AlignUp(a, K32), AlignDown(e, K32))>>

By32(a, e) ==
  <<Run(K4, a, AlignUp(a, K32)), Run(K4, AlignDown(e, K32), e),
    Run(K32, AlignUp(a, K32), AlignDown(e, K32))>>

RunsOf(a, n) ==
  IF n >= K64 /\ K64 \in modes THEN By64(a, a + n)
  ELSE IF n >= K32 /\ K32 \in modes THEN By32(a, a + n)
  ELSE IF n >= K4 /\ K4 \in modes THEN <<Run(K4, a, a + n)>>
  ELSE << >>

Init ==
  /\ modes \in Chips
  /\ addr = 0 /\ size = 0
  /\ todo = << >> /\ erased = {}
  /\ ret = "ok" /\ lost = FALSE

\* A call; ret is "none" while it runs.
Begin(a, n) ==
  /\ ret = "ok" /\ size = 0
  /\ addr' = a /\ size' = n
  /\ erased' = {} /\ lost' = FALSE
  /\ \/ /\ a % K4 # 0 \/ n % K4 # 0
        /\ todo' = << >> /\ ret' = "fail"
     \/ /\ a % K4 = 0 /\ n % K4 = 0
        /\ todo' = RunsOf(a, n) /\ ret' = "none"
  /\ UNCHANGED modes

Busy == ret = "none" /\ todo # << >>

\* The block the next erase command is about.
Block == todo[1].from .. todo[1].from + todo[1].mode - 1

\* HAL_Flash_Erase returns HAL_INVALID.
RejectRun ==
  /\ Busy /\ todo[1].from # todo[1].to
  /\ todo[1].to > ChipSize \/ todo[1].from % todo[1].mode # 0
  /\ ret' = "fail"
  /\ UNCHANGED <<modes, addr, size, todo, erased, lost>>

\* The size of the chip is not checked.
EraseBlockBug ==
  /\ Busy /\ todo[1].from # todo[1].to
  /\ erased' = erased \cup Block
  /\ todo' = [todo EXCEPT ![1].from = @ + todo[1].mode]
  /\ UNCHANGED <<modes, addr, size, ret, lost>>

\* One block.  The result of chip->erase, negative when the chip does not
\* support the size or the command could not be transferred, is replaced by
\* that of the wait.  Bound: one command is lost in a call.
EraseBlock ==
  /\ Busy /\ todo[1].from # todo[1].to
  /\ todo[1].to <= ChipSize /\ todo[1].from % todo[1].mode = 0
  /\ \/ erased' = (IF todo[1].mode \in modes THEN erased \cup Block ELSE erased)
        /\ UNCHANGED lost
     \/ ~lost /\ lost' = TRUE /\ UNCHANGED erased
  /\ todo' = [todo EXCEPT ![1].from = @ + todo[1].mode]
  /\ UNCHANGED <<modes, addr, size, ret>>

\* HAL_Flash_WaitCompl times out while the block is being erased.
EraseTimeout ==
  /\ Busy /\ todo[1].from # todo[1].to
  /\ todo[1].to <= ChipSize /\ todo[1].from % todo[1].mode = 0
  /\ todo[1].mode \in modes
  /\ ret' = "fail"
  /\ UNCHANGED <<modes, addr, size, todo, erased, lost>>

\* A run is finished, or was empty.
NextRun ==
  /\ Busy /\ todo[1].from = todo[1].to
  /\ todo' = Tail(todo)
  /\ UNCHANGED <<modes, addr, size, erased, ret, lost>>

Return ==
  /\ ret = "none" /\ todo = << >>
  /\ ret' = "ok"
  /\ UNCHANGED <<modes, addr, size, todo, erased, lost>>

\* The area is written before the next call.
Rewritten ==
  /\ ret # "none"
  /\ addr' = 0 /\ size' = 0
  /\ todo' = << >> /\ erased' = {}
  /\ ret' = "ok" /\ lost' = FALSE
  /\ UNCHANGED modes

Next == \/ \E a \in 0 .. MaxStart : \E n \in 0 .. MaxEnd - a : Begin(a, n)
        \/ RejectRun \/ EraseBlock \/ EraseTimeout \/ NextRun \/ Return
        \/ Rewritten

Spec == Init /\ [][Next]_vars

-----------------------------------------------------------------------------
(* Properties *)

TypeOK ==
  /\ modes \in Chips
  /\ addr \in Nat /\ size \in Nat
  /\ todo \in Seq([mode : Mode, from : Nat, to : Nat])
  /\ erased \subseteq 0 .. ChipSize - 1
  /\ ret \in {"none", "ok", "fail"}
  /\ lost \in BOOLEAN

\* "return 0 on success": the area is then erased, every unit of it.
ErasesArea == ret = "ok" /\ ~lost => Area \subseteq erased

\* No neighbour of the area, another image or the configuration, is touched.
ErasesOnlyArea == erased \subseteq Area

\* Every run starts at a multiple of its block size and is a whole number of
\* blocks: an aligned area inside the chip is not refused half way.
RunsFit ==
  ret = "none" /\ addr + size <= ChipSize =>
    \A i \in 1 .. Len(todo) :
       /\ todo[i].from % todo[i].mode = 0 /\ todo[i].to % todo[i].mode = 0
       /\ todo[i].from <= todo[i].to /\ todo[i].to <= ChipSize

\* No block is erased twice in one call: a flash cell wears with each erase.
NoBlockTwice == [][EraseBlock => Block \cap erased = {}]_vars

\* Why a call ends: with every step a run less is left, or less of the first
\* one, and a run that does not end with a block is not run past its end.
RunLeft == IF todo = << >> THEN 0 ELSE todo[1].to - todo[1].from

CallDescends ==
  [][ret = "none" /\ ret' = "none" =>
       \/ Len(todo') < Len(todo)
       \/ Len(todo') = Len(todo) /\ RunLeft' < RunLeft /\ RunLeft' >= 0]_vars

-----------------------------------------------------------------------------
(* The inductive invariant behind the safety properties *)

\* The chips flash_erase is right for.
Usable == \A c \in Chips : K4 \in c /\ (K64 \in c => K32 \in c)

Aligned(r) == \E m \in Mode : r.mode = m /\ r.from % m = 0 /\ r.to % m = 0

Runs ==        \* the runs left fit, are erasable, and not erased yet
  \A i \in 1 .. Len(todo) :
     /\ Aligned(todo[i])
     /\ todo[i].from <= todo[i].to
     /\ addr <= todo[i].from /\ todo[i].to <= addr + size
     /\ Usable => todo[i].mode \in modes
     /\ \A u \in Units(todo[i]) : u \notin erased

Disjoint ==    \* no two runs overlap
  \A i, j \in 1 .. Len(todo) :
     i # j => todo[i].to <= todo[j].from \/ todo[j].to <= todo[i].from

Covered ==     \* what is not erased is in a run
  Usable /\ ~lost =>
    \A u \in Area : u \in erased \/ \E i \in 1 .. Len(todo) : u \in Units(todo[i])

IInv ==
  /\ TypeOK
  /\ ErasesOnlyArea
  /\ ret = "none" => Runs /\ Disjoint /\ Covered
  /\ Usable => ErasesArea
=============================================================================
