-------------------------------- MODULE Heap --------------------------------
(***************************************************************************)
(* The heap of sys_heap.c (heap_4 of FreeRTOS with a realloc of its own):  *)
(* first fit, blocks are split, and coalesced when they are freed.         *)
(*                                                                         *)
(* Addresses and sizes count units of the alignment, 16 bytes; a block     *)
(* begins with a header of one unit.  The heap ends at pxEnd, address      *)
(* Units.  Every call runs with the scheduler suspended (sys_heap_free     *)
(* clears the bit of its own block before, which nobody else reads).  A    *)
(* call that returns NULL changes nothing and is no action.  Each owner    *)
(* has one block at most, and writes into the i-th of the units it asked   *)
(* for its name and i.                                                     *)
(***************************************************************************)
EXTENDS Integers, FiniteSets

CONSTANTS Units,     \* the size of the heap
          Owner,     \* who may have a block
          MaxWanted, \* bound: the units asked for
          Link       \* what a header holds: a list link and a size

ASSUME UnitsAssumption == Units \in Nat \ {0, 1}
ASSUME WantedAssumption == MaxWanted \in Nat
ASSUME LinkAssumption == Link \notin Owner \X (1 .. MaxWanted)

Unit == 0 .. Units - 1
None == Units
MinBlock == 2        \* heapMinmun_Block_Size: twice the header

VARIABLES free,      \* the free list: size of the block at each address
          remaining, \* xFreeBytesRemaining
          least,     \* xMinimumEverFreeBytesRemaining
          at,        \* the address of an owner's block, or None
          size,      \* and its size, header included
          len,       \* history: the units its owner stores in
          mem        \* the memory

vars == <<free, remaining, least, at, size, len, mem>>

-----------------------------------------------------------------------------
Span(a, n) == a .. a + n - 1

\* Merging with the block below is forgotten.
InsertBug(f, a, n) ==
  [b \in (DOMAIN f \ {a + n}) \cup {a} |->
     IF b = a THEN n + IF a + n \in DOMAIN f THEN f[a + n] ELSE 0 ELSE f[b]]

\* sys_heap_prvInsertBlockIntoFreeList: the block is merged with the free
\* blocks right before and right behind it.
Insert(f, a, n) ==
  LET below == {b \in DOMAIN f : b + f[b] = a}
      start == IF below = {} THEN a ELSE CHOOSE b \in below : TRUE
      above == IF a + n \in DOMAIN f THEN f[a + n] ELSE 0
  IN [b \in (DOMAIN f \ {a + n}) \cup {start} |->
        IF b = start THEN a - start + n + above ELSE f[b]]

Without(f, a) == [b \in DOMAIN f \ {a} |-> f[b]]

Fits(n) == {a \in DOMAIN free : free[a] >= n}
FirstFit(n) == {a \in Fits(n) : \A b \in Fits(n) : a <= b}

SplitsBug(a, n) == free[a] - n >= 0
Splits(a, n) == free[a] - n > MinBlock

\* Of block a, n units are taken, or all.
Taken(a, n) == IF Splits(a, n) THEN n ELSE free[a]
Left(a, n) == IF Splits(a, n) THEN Insert(Without(free, a), a + n, free[a] - n)
                              ELSE Without(free, a)

Lowest(n) == IF n < least THEN n ELSE least

\* Every block, free or not, has its header.
Stamped(m) ==
  mem' = [u \in Unit |-> IF u \in DOMAIN free' \/ \E o \in Owner : u = at'[o] THEN Link ELSE m[u]]

Init ==
  /\ free = [a \in {0} |-> Units] /\ remaining = Units /\ least = Units
  /\ at = [o \in Owner |-> None] /\ size = [o \in Owner |-> 0] /\ len = [o \in Owner |-> 0]
  /\ mem = [u \in Unit |-> Link]

-----------------------------------------------------------------------------
\* sys_heap_malloc.
Malloc(o, w) ==
  /\ at[o] = None /\ w + 1 <= remaining
  /\ \E a \in FirstFit(w + 1) :
       /\ free' = Left(a, w + 1)
       /\ at' = [at EXCEPT ![o] = a] /\ size' = [size EXCEPT ![o] = Taken(a, w + 1)]
       /\ remaining' = remaining - Taken(a, w + 1)
       /\ least' = Lowest(remaining')
       /\ Stamped([u \in Unit |-> IF a < u /\ u <= a + w THEN <<o, u - a>> ELSE mem[u]])
  /\ len' = [len EXCEPT ![o] = w]

\* sys_heap_free, and sys_heap_realloc to size 0.
Free(o) ==
  /\ at[o] # None
  /\ free' = Insert(free, at[o], size[o])
  /\ remaining' = remaining + size[o]
  /\ at' = [at EXCEPT ![o] = None] /\ size' = [size EXCEPT ![o] = 0]
  /\ len' = [len EXCEPT ![o] = 0]
  /\ Stamped(mem)
  /\ UNCHANGED least

Capacity(o) == size[o] - 1
Behind(o) == at[o] + size[o]

\* The free block behind the owner's is large enough to give something away.
Extensible(o, w) ==
  /\ Behind(o) \in DOMAIN free
  /\ Capacity(o) <= w /\ w < free[Behind(o)] /\ free[Behind(o)] - w > MinBlock

\* What is asked for is subtracted, not what is added.
AddedBug(o, w) == w
Added(o, w) == w - Capacity(o)

\* sys_heap_realloc that extends the block.
Extend(o, w) ==
  LET add == w - Capacity(o)
      b == Behind(o)
  IN /\ at[o] # None /\ w <= remaining
     /\ Extensible(o, w) /\ add > 0
     /\ UNCHANGED at
     /\ free' = Insert(Without(free, b), b + add, free[b] - add)
     /\ size' = [size EXCEPT ![o] = @ + add] /\ len' = [len EXCEPT ![o] = w]
     /\ remaining' = remaining - Added(o, w)
     /\ least' = Lowest(remaining')
     /\ Stamped([u \in Unit |-> IF at[o] + len[o] < u /\ u <= at[o] + w THEN <<o, u - at[o]>> ELSE mem[u]])

\* The units that were in use come with the old block, which needs no change.
Same(o, w) ==
  /\ at[o] # None /\ w <= remaining
  /\ Extensible(o, w) /\ w = Capacity(o)
  /\ len' = [len EXCEPT ![o] = w]
  /\ mem' = [u \in Unit |-> IF at[o] + len[o] < u /\ u <= at[o] + w THEN <<o, u - at[o]>> ELSE mem[u]]
  /\ UNCHANGED <<free, remaining, least, at, size>>

\* The comparison is the wrong way round.
CopiedBug(o, w) == IF Capacity(o) > w THEN Capacity(o) ELSE w
Copied(o, w) == IF Capacity(o) > w THEN w ELSE Capacity(o)

\* sys_heap_realloc that takes a new block, copies, and frees the old one.
Move(o, w) ==
  /\ at[o] # None /\ w <= remaining
  /\ ~Extensible(o, w)
  /\ w + 1 <= remaining
  /\ \E a \in FirstFit(w + 1) :
       /\ free' = Insert(Left(a, w + 1), at[o], size[o])
       /\ at' = [at EXCEPT ![o] = a] /\ size' = [size EXCEPT ![o] = Taken(a, w + 1)]
       /\ remaining' = remaining - Taken(a, w + 1) + size[o]
       /\ least' = Lowest(remaining - Taken(a, w + 1))
       /\ Stamped([u \in Unit |->
            IF a + len[o] < u /\ u <= a + w THEN <<o, u - a>>
            ELSE IF a < u /\ u <= a + Copied(o, w) THEN mem[at[o] + u - a]
            ELSE mem[u]])
  /\ len' = [len EXCEPT ![o] = w]

Next == \E o \in Owner : \/ Free(o)
                         \/ \E w \in 1 .. MaxWanted : \/ Malloc(o, w) \/ Extend(o, w)
                                                      \/ Same(o, w) \/ Move(o, w)

Spec == Init /\ [][Next]_vars

-----------------------------------------------------------------------------
TypeOK ==
  /\ DOMAIN free \subseteq Unit
  /\ \A a \in DOMAIN free : free[a] \in 2 .. Units - a
  /\ remaining \in Nat /\ least \in Nat
  /\ at \in [Owner -> Unit \cup {None}] /\ size \in [Owner -> Nat] /\ len \in [Owner -> Nat]
  /\ mem \in [Unit -> (Owner \X (1 .. MaxWanted)) \cup {Link}]

Block(o) == IF at[o] = None THEN {} ELSE Span(at[o], size[o])
Covered(f) == {u \in Unit : \E a \in DOMAIN f : u \in Span(a, f[a])}
FreeUnits == Covered(free)

\* Every unit of the heap belongs to one block: nothing is lost, nothing given
\* out twice, and free blocks never lie side by side.
Tiled ==
  /\ \A a, b \in DOMAIN free : a < b => a + free[a] < b
  /\ \A o \in Owner : Block(o) \cap FreeUnits = {}
  /\ \A o, p \in Owner : o # p => Block(o) \cap Block(p) = {}
  /\ Unit = FreeUnits \cup UNION {Block(o) : o \in Owner}

\* The count malloc and realloc refuse by is what the free list holds, after
\* any mixture of splitting, merging and growing.
Counted == remaining = Cardinality(FreeUnits)

\* What an owner has stored stays there, in its place, whatever is done with
\* other blocks and wherever realloc puts it.
Private == \A o \in Owner : \A u \in Unit :
             at[o] # None /\ at[o] < u /\ u <= at[o] + len[o] => mem[u] = <<o, u - at[o]>>

=============================================================================
