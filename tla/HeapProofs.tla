----------------------------- MODULE HeapProofs -----------------------------
(***************************************************************************)
(* Proofs about sys_heap.c, for every size of the heap and any number of   *)
(* owners.  The lemmas say what inserting into and taking out of the free  *)
(* list does to the units it covers; each action then moves units between  *)
(* the free list and the block of one owner.                               *)
(***************************************************************************)
EXTENDS Heap, FiniteSetTheorems, TLAPS

\* The free blocks lie in the heap, and never side by side.
Good(f) ==
  /\ DOMAIN f \subseteq Unit
  /\ \A a \in DOMAIN f : f[a] \in Nat /\ f[a] >= 2 /\ a + f[a] <= Units
  /\ \A a, b \in DOMAIN f : a < b => a + f[a] < b

LEMMA UnitNat == /\ Units \in Nat /\ Unit \subseteq Nat /\ None \notin Unit /\ None \in Nat
                 /\ \A u : (u \in Unit) <=> (u \in Nat /\ u < Units)
  BY UnitsAssumption, SMT DEF Unit, None

LEMMA Spans ==
  ASSUME NEW a \in Nat, NEW n \in Nat
  PROVE  \A u : (u \in Span(a, n)) <=> (u \in Nat /\ a <= u /\ u < a + n)
  BY SMT DEF Span

LEMMA CoveredUnits ==
  ASSUME NEW f, Good(f)
  PROVE  /\ \A u : (u \in Covered(f)) <=> (u \in Nat /\ \E a \in DOMAIN f : a <= u /\ u < a + f[a])
         /\ Covered(f) \subseteq Unit
         /\ DOMAIN f \subseteq Covered(f)
  <1>1. \A a \in DOMAIN f : a \in Nat /\ f[a] \in Nat /\ f[a] >= 2 /\ a + f[a] <= Units
    BY UnitNat DEF Good
  <1>2. \A u, a : a \in DOMAIN f =>
          ((u \in Span(a, f[a])) <=> (u \in Nat /\ a <= u /\ u < a + f[a]))
    BY <1>1, Spans
  <1>3. \A u : (u \in Covered(f)) <=> (u \in Nat /\ \E a \in DOMAIN f : a <= u /\ u < a + f[a])
    <2> SUFFICES ASSUME NEW u
                 PROVE (u \in Covered(f)) <=> (u \in Nat /\ \E a \in DOMAIN f : a <= u /\ u < a + f[a])
      OBVIOUS
    <2>1. ASSUME u \in Nat, NEW a \in DOMAIN f, a <= u, u < a + f[a] PROVE u \in Unit
      BY <1>1, <2>1, UnitNat, SMT
    <2> QED
      BY <1>2, <2>1, UnitNat DEF Covered
  <1>4. \A a \in DOMAIN f : a <= a /\ a < a + f[a]
    BY <1>1, SMT
  <1> QED
    BY <1>1, <1>3, <1>4 DEF Covered

\* What is not covered is on one side of every free block.
LEMMA Apart ==
  ASSUME NEW f, Good(f), NEW a \in Nat, NEW n \in Nat, n >= 1,
         Span(a, n) \cap Covered(f) = {}, NEW b \in DOMAIN f
  PROVE  b + f[b] <= a \/ a + n <= b
  <1>1. b \in Nat /\ f[b] \in Nat /\ f[b] >= 2
    BY UnitNat DEF Good
  <1>2. \A u : ~(u \in Nat /\ a <= u /\ u < a + n /\ b <= u /\ u < b + f[b])
    BY Spans, CoveredUnits
  <1>3. ~(a <= b /\ b < a + n)
    BY <1>1, <1>2, SMT
  <1>4. ~(b <= a /\ a < b + f[b])
    BY <1>1, <1>2, SMT
  <1> QED
    BY <1>1, <1>3, <1>4, SMT

\* A block that is put into the free list.
LEMMA Inserting ==
  ASSUME NEW f, Good(f), NEW a \in Nat, NEW n \in Nat, n >= 2, a + n <= Units,
         Span(a, n) \cap Covered(f) = {}
  PROVE  /\ Good(Insert(f, a, n))
         /\ Covered(Insert(f, a, n)) = Covered(f) \cup Span(a, n)
  <1> DEFINE below == {b \in DOMAIN f : b + f[b] = a}
             start == IF below = {} THEN a ELSE CHOOSE b \in below : TRUE
             above == IF a + n \in DOMAIN f THEN f[a + n] ELSE 0
             g == Insert(f, a, n)
  <1>1. \A b \in DOMAIN f : /\ b \in Nat /\ f[b] \in Nat /\ f[b] >= 2 /\ b + f[b] <= Units
                            /\ b + f[b] <= a \/ a + n <= b
    BY Apart, UnitNat, SMT DEF Good
  <1>2. \A b, c \in DOMAIN f : b < c => b + f[b] < c
    BY DEF Good
  <1>3. \/ (start \in DOMAIN f /\ start + f[start] = a)
        \/ (start = a /\ \A b \in DOMAIN f : b + f[b] # a)
    OBVIOUS
  <1>4. above \in Nat /\ ((a + n \in DOMAIN f /\ above = f[a + n]) \/ (a + n \notin DOMAIN f /\ above = 0))
    BY <1>1
  <1>5. /\ DOMAIN g = (DOMAIN f \ {a + n}) \cup {start}
        /\ g[start] = a - start + n + above
        /\ \A b \in DOMAIN g : b # start => (b \in DOMAIN f /\ b # a + n /\ g[b] = f[b])
    BY DEF Insert
  <1> HIDE DEF below, start, above, g
  <1>6. start \in Nat /\ start <= a
    BY <1>1, <1>3, SMT
  <1>7. /\ start \in Unit /\ g[start] \in Nat /\ g[start] >= 2
        /\ start + g[start] = a + n + above /\ start + g[start] <= Units
    <2>1. a + n + above <= Units
      BY <1>1, <1>4, UnitNat, SMT
    <2> QED
      BY <2>1, <1>4, <1>5, <1>6, UnitNat, SMT
  <1>8. \A b, c \in DOMAIN g : b < c => b + g[b] < c
    <2> SUFFICES ASSUME NEW b \in DOMAIN g, NEW c \in DOMAIN g, b < c PROVE b + g[b] < c
      OBVIOUS
    <2>1. CASE b = start
      <3>1. c \in DOMAIN f /\ c # a + n /\ c \in Nat /\ f[c] \in Nat /\ f[c] >= 2
        BY <2>1, <1>1, <1>5, <1>6, SMT
      <3>2. ~(c + f[c] <= a)
        BY <3>1, <2>1, <1>1, <1>2, <1>3, <1>6, SMT
      <3>3. a + n < c
        BY <3>1, <3>2, <1>1, SMT
      <3> QED
        BY <2>1, <3>1, <3>3, <1>1, <1>2, <1>4, <1>7, SMT
    <2>2. CASE b # start /\ c = start
      <3>1. b \in DOMAIN f /\ g[b] = f[b] /\ b \in Nat /\ f[b] \in Nat
        BY <2>2, <1>1, <1>5
      <3> QED
        BY <3>1, <2>2, <1>1, <1>2, <1>3, SMT
    <2>3. CASE b # start /\ c # start
      BY <2>3, <1>2, <1>5
    <2> QED
      BY <2>1, <2>2, <2>3
  <1>9. Good(g)
    <2>1. \A b \in DOMAIN g : b \in Unit /\ g[b] \in Nat /\ g[b] >= 2 /\ b + g[b] <= Units
      BY <1>1, <1>5, <1>7 DEF Good
    <2> QED
      BY <2>1, <1>8 DEF Good
  <1>10. \A u \in Nat : (\E b \in DOMAIN g : b <= u /\ u < b + g[b]) <=>
           ((\E b \in DOMAIN f : b <= u /\ u < b + f[b]) \/ (a <= u /\ u < a + n))
    <2> SUFFICES ASSUME NEW u \in Nat
                 PROVE (\E b \in DOMAIN g : b <= u /\ u < b + g[b]) <=>
                   ((\E b \in DOMAIN f : b <= u /\ u < b + f[b]) \/ (a <= u /\ u < a + n))
      OBVIOUS
    <2>1. (start <= u /\ u < start + g[start]) <=>
            \/ a <= u /\ u < a + n
            \/ start # a /\ start <= u /\ u < a
            \/ a + n \in DOMAIN f /\ a + n <= u /\ u < a + n + f[a + n]
      BY <1>1, <1>4, <1>6, <1>7, SMT
    <2>2. ASSUME NEW b \in DOMAIN g, b <= u, u < b + g[b]
          PROVE (\E c \in DOMAIN f : c <= u /\ u < c + f[c]) \/ (a <= u /\ u < a + n)
      BY <2>1, <2>2, <1>3, <1>5
    <2>3. ASSUME NEW b \in DOMAIN f, b <= u, u < b + f[b]
          PROVE \E c \in DOMAIN g : c <= u /\ u < c + g[c]
      <3>1. CASE b = a + n
        BY <3>1, <2>1, <2>3, <1>5
      <3>2. CASE b = start
        <4>1. start + f[start] = a
          BY <3>2, <1>1, <1>3, SMT
        <4>2. start # a
          BY <4>1, <3>2, <1>1, SMT
        <4> QED
          BY <4>1, <4>2, <3>2, <2>1, <2>3, <1>5
      <3>3. CASE b # a + n /\ b # start
        BY <3>3, <2>3, <1>5
      <3> QED
        BY <3>1, <3>2, <3>3
    <2>4. ASSUME a <= u, u < a + n PROVE \E c \in DOMAIN g : c <= u /\ u < c + g[c]
      BY <2>1, <2>4, <1>5
    <2> QED
      BY <2>2, <2>3, <2>4
  <1>11. Covered(g) = Covered(f) \cup Span(a, n)
    <2>1. \A u : (u \in Covered(g)) <=> (u \in Nat /\ \E b \in DOMAIN g : b <= u /\ u < b + g[b])
      BY <1>9, CoveredUnits
    <2>2. \A u : (u \in Covered(f)) <=> (u \in Nat /\ \E b \in DOMAIN f : b <= u /\ u < b + f[b])
      BY CoveredUnits
    <2>3. \A u : (u \in Span(a, n)) <=> (u \in Nat /\ a <= u /\ u < a + n)
      BY Spans
    <2>4. \A u : (u \in Covered(g)) <=> (u \in Covered(f) \/ u \in Span(a, n))
      BY <2>1, <2>2, <2>3, <1>10
    <2> QED
      BY <2>4
  <1> QED
    BY <1>9, <1>11 DEF g

\* A block that is taken out of it.
LEMMA Removing ==
  ASSUME NEW f, Good(f), NEW a \in DOMAIN f
  PROVE  /\ Good(Without(f, a))
         /\ Covered(Without(f, a)) = Covered(f) \ Span(a, f[a])
  <1> DEFINE g == Without(f, a)
  <1>1. DOMAIN g = DOMAIN f \ {a} /\ \A b \in DOMAIN g : g[b] = f[b]
    BY DEF Without
  <1> HIDE DEF g
  <1>2. Good(g)
    BY <1>1 DEF Good
  <1>3. /\ \A b \in DOMAIN f : b \in Nat /\ f[b] \in Nat
        /\ \A b, c \in DOMAIN f : b < c => b + f[b] < c
    BY UnitNat DEF Good
  <1>4. \A u \in Nat : \A b \in DOMAIN f :
          b # a /\ b <= u /\ u < b + f[b] => ~(a <= u /\ u < a + f[a])
    BY <1>3, SMT
  <1>5. \A u : (u \in Span(a, f[a])) <=> (u \in Nat /\ a <= u /\ u < a + f[a])
    BY <1>3, Spans
  <1>6. \A u : (u \in Covered(g)) <=> (u \in Covered(f) /\ u \notin Span(a, f[a]))
    <2>1. \A u : (u \in Covered(g)) <=> (u \in Nat /\ \E b \in DOMAIN g : b <= u /\ u < b + g[b])
      BY <1>2, CoveredUnits
    <2>2. \A u : (u \in Covered(f)) <=> (u \in Nat /\ \E b \in DOMAIN f : b <= u /\ u < b + f[b])
      BY CoveredUnits
    <2> QED
      BY <1>1, <1>4, <1>5, <2>1, <2>2
  <1> QED
    BY <1>2, <1>6 DEF g

\* Of a free block the first n units are taken.
LEMMA Cutting ==
  ASSUME NEW f, Good(f), NEW a \in DOMAIN f, NEW n \in Nat, n >= 1, n + 2 <= f[a]
  PROVE  LET g == Insert(Without(f, a), a + n, f[a] - n)
         IN Good(g) /\ Covered(g) = Covered(f) \ Span(a, n)
  <1> DEFINE h == Without(f, a)
  <1>1. Good(h) /\ Covered(h) = Covered(f) \ Span(a, f[a])
    BY Removing
  <1>2. /\ a \in Nat /\ f[a] \in Nat /\ a + f[a] <= Units
        /\ a + n \in Nat /\ f[a] - n \in Nat /\ f[a] - n >= 2 /\ (a + n) + (f[a] - n) <= Units
    BY UnitNat, SMT DEF Good
  <1> HIDE DEF h
  <1>3. \A u : /\ (u \in Span(a, f[a])) <=> (u \in Nat /\ a <= u /\ u < a + f[a])
               /\ (u \in Span(a, n)) <=> (u \in Nat /\ a <= u /\ u < a + n)
               /\ (u \in Span(a + n, f[a] - n)) <=> (u \in Nat /\ a + n <= u /\ u < (a + n) + (f[a] - n))
    BY <1>2, Spans
  <1>4. Span(a, f[a]) = Span(a, n) \cup Span(a + n, f[a] - n) /\ Span(a, n) \cap Span(a + n, f[a] - n) = {}
    <2>1. \A u \in Nat : (a <= u /\ u < a + f[a]) <=>
            ((a <= u /\ u < a + n) \/ (a + n <= u /\ u < (a + n) + (f[a] - n)))
      BY <1>2, SMT
    <2>2. \A u \in Nat : ~((a <= u /\ u < a + n) /\ (a + n <= u /\ u < (a + n) + (f[a] - n)))
      BY <1>2, SMT
    <2> QED
      BY <1>3, <2>1, <2>2
  <1>5. Span(a, f[a]) \subseteq Covered(f)
    BY <1>3, CoveredUnits
  <1>6. Good(Insert(h, a + n, f[a] - n)) /\ Covered(Insert(h, a + n, f[a] - n)) = Covered(h) \cup Span(a + n, f[a] - n)
    BY <1>1, <1>2, <1>4, Inserting
  <1> QED
    BY <1>1, <1>4, <1>5, <1>6 DEF h

-----------------------------------------------------------------------------
\* The first units of a free block are free.
LEMMA TakenCovered ==
  ASSUME NEW f, Good(f), NEW a \in DOMAIN f, NEW n \in Nat, n <= f[a]
  PROVE  Span(a, n) \subseteq Covered(f)
  <1>1. a \in Nat /\ f[a] \in Nat
    BY UnitNat DEF Good
  <1>2. \A u \in Nat : u < a + n => u < a + f[a]
    BY <1>1, SMT
  <1> QED
    BY <1>1, <1>2, Spans, CoveredUnits

\* What malloc takes of a free block.
LEMMA Takes ==
  ASSUME Good(free), NEW a \in DOMAIN free, NEW n \in Nat, n >= 2, n <= free[a]
  PROVE  /\ Taken(a, n) \in Nat /\ n <= Taken(a, n) /\ a + Taken(a, n) <= Units
         /\ Good(Left(a, n))
         /\ Covered(Left(a, n)) = FreeUnits \ Span(a, Taken(a, n))
         /\ Span(a, Taken(a, n)) \subseteq FreeUnits
  <1>1. a \in Nat /\ free[a] \in Nat /\ a + free[a] <= Units
    BY UnitNat DEF Good
  <1>2. CASE Splits(a, n)
    <2>1. n + 2 <= free[a]
      BY <1>1, <1>2, SMT DEF Splits, MinBlock
    <2>2. Taken(a, n) = n /\ Left(a, n) = Insert(Without(free, a), a + n, free[a] - n)
      BY <1>2 DEF Taken, Left
    <2>3. Good(Left(a, n)) /\ Covered(Left(a, n)) = Covered(free) \ Span(a, n)
      BY <2>1, <2>2, Cutting
    <2>4. n <= n /\ a + n <= Units
      BY <1>1, UnitNat, SMT
    <2> QED
      BY <2>2, <2>3, <2>4, <1>1, TakenCovered DEF FreeUnits
  <1>3. CASE ~Splits(a, n)
    <2>1. Taken(a, n) = free[a] /\ Left(a, n) = Without(free, a)
      BY <1>3 DEF Taken, Left
    <2>2. Good(Left(a, n)) /\ Covered(Left(a, n)) = Covered(free) \ Span(a, free[a])
      BY <2>1, Removing
    <2>3. free[a] <= free[a]
      BY <1>1, SMT
    <2> QED
      BY <2>1, <2>2, <2>3, <1>1, TakenCovered DEF FreeUnits
  <1> QED
    BY <1>2, <1>3

\* The units of a block: none without a block.
Area(a, n) == IF a = None THEN {} ELSE Span(a, n)

LEMMA BlockArea ==
  /\ \A o \in Owner : Block(o) = Area(at[o], size[o])
  /\ \A o \in Owner : Block(o)' = Area(at'[o], size'[o])
  BY DEF Block, Area

\* The blocks and what the owners asked for.
Sound(o) ==
  \/ at[o] = None /\ size[o] = 0 /\ len[o] = 0
  \/ at[o] \in Unit /\ size[o] >= 2 /\ at[o] + size[o] <= Units /\ len[o] < size[o]

\* What the heap's memory may hold.
Value == (Owner \X (1 .. MaxWanted)) \cup {Link}

Typed ==
  /\ remaining \in Nat /\ least \in Nat
  /\ at \in [Owner -> Unit \cup {None}] /\ size \in [Owner -> Nat] /\ len \in [Owner -> Nat]
  /\ mem \in [Unit -> Value]

Tiling ==
  /\ \A o \in Owner : Block(o) \cap FreeUnits = {}
  /\ \A o, p \in Owner : o # p => Block(o) \cap Block(p) = {}
  /\ Unit = FreeUnits \cup UNION {Block(o) : o \in Owner}

IInv == /\ Typed
        /\ Good(free)
        /\ \A o \in Owner : Sound(o)
        /\ Tiling
        /\ Counted
        /\ Private

\* Units move between the free list and the block of one owner.
LEMMA Moves ==
  ASSUME Tiling, NEW o \in Owner,
         \A p \in Owner \ {o} : Block(p)' = Block(p),
         FreeUnits' \cup Block(o)' = FreeUnits \cup Block(o),
         FreeUnits' \cap Block(o)' = {}
  PROVE  Tiling'
  <1>1. \A p \in Owner : p # o => /\ Block(p)' = Block(p)
                                  /\ Block(p) \cap FreeUnits = {} /\ Block(p) \cap Block(o) = {}
    BY DEF Tiling
  <1>2. \A p \in Owner : p # o => /\ Block(p)' \cap FreeUnits' = {}
                                  /\ Block(p)' \cap Block(o)' = {}
    BY <1>1
  <1>3. \A p \in Owner : Block(p)' \cap FreeUnits' = {}
    BY <1>2
  <1>4. \A p, q \in Owner : p # q => Block(p)' \cap Block(q)' = {}
    BY <1>1, <1>2 DEF Tiling
  <1>5. \A u : (u \in Unit) <=> (u \in FreeUnits \/ \E p \in Owner : u \in Block(p))
    BY DEF Tiling
  <1>6. \A u : (u \in Unit) <=> (u \in FreeUnits' \/ \E p \in Owner : u \in Block(p)')
    BY <1>1, <1>5
  <1>7. Unit = FreeUnits' \cup UNION {Block(p)' : p \in Owner}
    BY <1>6
  <1> QED
    BY <1>3, <1>4, <1>7 DEF Tiling

\* A block is in the heap, and its header and its data are in the block.
LEMMA InArea ==
  ASSUME NEW a \in Unit, NEW n \in Nat, NEW l \in Nat, n >= 2, a + n <= Units, l < n
  PROVE  /\ a \in Nat /\ a # None /\ a \in Area(a, n) /\ Area(a, n) \subseteq Unit
         /\ \A u \in Unit : a <= u /\ u <= a + l => u \in Area(a, n)
  <1>1. a \in Nat /\ a # None
    BY UnitNat
  <1>2. \A u : (u \in Area(a, n)) <=> (u \in Nat /\ a <= u /\ u < a + n)
    BY <1>1, Spans DEF Area
  <1>3. a <= a /\ a < a + n
    BY <1>1, SMT
  <1>4. \A u \in Nat : u < a + n => u < Units
    BY <1>1, UnitNat, SMT
  <1>5. \A u \in Nat : u <= a + l => u < a + n
    BY <1>1, SMT
  <1> QED
    BY <1>1, <1>2, <1>3, <1>4, <1>5, UnitNat

LEMMA InBlock ==
  ASSUME Typed, NEW o \in Owner, Sound(o), at[o] # None
  PROVE  /\ at[o] \in Nat /\ size[o] \in Nat /\ len[o] \in Nat
         /\ size[o] >= 2 /\ at[o] + size[o] <= Units /\ len[o] < size[o]
         /\ at[o] \in Block(o) /\ Block(o) \subseteq Unit /\ Block(o) = Span(at[o], size[o])
         /\ \A u \in Unit : at[o] <= u /\ u <= at[o] + len[o] => u \in Block(o)
  <1>1. /\ at[o] \in Unit /\ size[o] \in Nat /\ len[o] \in Nat
        /\ size[o] >= 2 /\ at[o] + size[o] <= Units /\ len[o] < size[o]
    BY DEF Sound, Typed
  <1>2. /\ at[o] \in Nat /\ at[o] \in Area(at[o], size[o]) /\ Area(at[o], size[o]) \subseteq Unit
        /\ \A u \in Unit : at[o] <= u /\ u <= at[o] + len[o] => u \in Area(at[o], size[o])
    BY <1>1, InArea
  <1> QED
    BY <1>1, <1>2, BlockArea DEF Area

\* No header is written into what an owner stores.
LEMMA Stamps ==
  ASSUME Typed', Good(free)', (\A o \in Owner : Sound(o))', Tiling',
         NEW m, Stamped(m), NEW p \in Owner, NEW u \in Unit,
         at'[p] # None, at'[p] < u, u <= at'[p] + len'[p]
  PROVE  mem'[u] = m[u]
  <1>1. /\ \A o \in Owner : at'[o] # None =>
             /\ at'[o] \in Nat /\ at'[o] \in Block(o)'
             /\ \A v \in Unit : at'[o] <= v /\ v <= at'[o] + len'[o] => v \in Block(o)'
    <2> SUFFICES ASSUME NEW o \in Owner, at'[o] # None
                 PROVE /\ at'[o] \in Nat /\ at'[o] \in Block(o)'
                       /\ \A v \in Unit : at'[o] <= v /\ v <= at'[o] + len'[o] => v \in Block(o)'
      OBVIOUS
    <2>1. /\ at'[o] \in Unit /\ size'[o] \in Nat /\ len'[o] \in Nat
          /\ size'[o] >= 2 /\ at'[o] + size'[o] <= Units /\ len'[o] < size'[o]
      BY DEF Sound, Typed
    <2>2. /\ at'[o] \in Nat /\ at'[o] \in Area(at'[o], size'[o])
          /\ \A v \in Unit : at'[o] <= v /\ v <= at'[o] + len'[o] => v \in Area(at'[o], size'[o])
      BY <2>1, InArea
    <2> QED
      BY <2>2, BlockArea
  <1>2. u \in Block(p)'
    <2>1. at'[p] <= u
      BY <1>1, UnitNat, SMT
    <2> QED
      BY <1>1, <2>1
  <1>3. u \notin DOMAIN free'
    <2>1. DOMAIN free' \subseteq FreeUnits'
      BY CoveredUnits DEF FreeUnits
    <2> QED
      BY <1>2, <2>1 DEF Tiling
  <1>4. \A o \in Owner : u # at'[o]
    <2> SUFFICES ASSUME NEW o \in Owner, u = at'[o] PROVE FALSE
      OBVIOUS
    <2>1. at'[o] # None
      BY UnitNat
    <2>2. o # p
      BY <2>1, <1>1, UnitNat, SMT
    <2> QED
      BY <1>1, <1>2, <2>1, <2>2 DEF Tiling
  <1> QED
    BY <1>3, <1>4 DEF Stamped

LEMMA UnitFinite == IsFiniteSet(Unit)
  <1>1. 0 \in Int /\ Units - 1 \in Int
    BY UnitsAssumption, SMT
  <1> QED
    BY <1>1, FS_Interval DEF Unit

\* The units of a span that is free, or is not.
LEMMA CountTaken ==
  ASSUME Good(free), NEW a \in Nat, NEW n \in Nat, Span(a, n) \subseteq FreeUnits
  PROVE  /\ Cardinality(FreeUnits \ Span(a, n)) = Cardinality(FreeUnits) - n
         /\ Cardinality(FreeUnits) \in Nat
         /\ Cardinality(FreeUnits \ Span(a, n)) \in Nat
  <1>1. IsFiniteSet(FreeUnits)
    BY CoveredUnits, UnitFinite, FS_Subset DEF FreeUnits
  <1>2. IsFiniteSet(Span(a, n)) /\ Cardinality(Span(a, n)) = n
    <2>1. a \in Int /\ a + n - 1 \in Int
      BY SMT
    <2>2. IsFiniteSet(a .. a + n - 1)
          /\ Cardinality(a .. a + n - 1) = IF a > a + n - 1 THEN 0 ELSE (a + n - 1) - a + 1
      BY <2>1, FS_Interval
    <2> QED
      BY <2>2, SMT DEF Span
  <1>3. FreeUnits \cap Span(a, n) = Span(a, n)
    OBVIOUS
  <1>4. /\ IsFiniteSet(FreeUnits \ Span(a, n))
        /\ Cardinality(FreeUnits \ Span(a, n)) = Cardinality(FreeUnits) - Cardinality(FreeUnits \cap Span(a, n))
    BY <1>1, FS_Difference
  <1> QED
    BY <1>1, <1>2, <1>3, <1>4, FS_CardinalityType

LEMMA CountGiven ==
  ASSUME NEW F, F \subseteq Unit, NEW a \in Nat, NEW n \in Nat, Span(a, n) \cap F = {}
  PROVE  Cardinality(F \cup Span(a, n)) = Cardinality(F) + n /\ Cardinality(F) \in Nat
  <1>1. IsFiniteSet(F)
    BY UnitFinite, FS_Subset
  <1>2. IsFiniteSet(Span(a, n)) /\ Cardinality(Span(a, n)) = n
    <2>1. a \in Int /\ a + n - 1 \in Int
      BY SMT
    <2>2. IsFiniteSet(a .. a + n - 1)
          /\ Cardinality(a .. a + n - 1) = IF a > a + n - 1 THEN 0 ELSE (a + n - 1) - a + 1
      BY <2>1, FS_Interval
    <2> QED
      BY <2>2, SMT DEF Span
  <1>3. F \cap Span(a, n) = {}
    OBVIOUS
  <1>4. Cardinality(F \cup Span(a, n)) = Cardinality(F) + Cardinality(Span(a, n)) - Cardinality(F \cap Span(a, n))
    BY <1>1, <1>2, FS_Union
  <1>5. Cardinality(F \cap Span(a, n)) = 0
    BY <1>3, FS_EmptySet
  <1>6. Cardinality(F) \in Nat
    BY <1>1, FS_CardinalityType
  <1> QED
    BY <1>2, <1>4, <1>5, <1>6, SMT

-----------------------------------------------------------------------------
\* The owner's block is now the n units at a, and it stores in l of them.
LEMMA Changes ==
  ASSUME IInv, NEW o \in Owner, NEW a \in Unit \cup {None}, NEW n \in Nat, NEW l \in Nat,
         at' = [at EXCEPT ![o] = a], size' = [size EXCEPT ![o] = n], len' = [len EXCEPT ![o] = l],
         \/ a = None /\ n = 0 /\ l = 0
         \/ a \in Unit /\ n >= 2 /\ a + n <= Units /\ l < n
  PROVE  /\ at' \in [Owner -> Unit \cup {None}] /\ size' \in [Owner -> Nat] /\ len' \in [Owner -> Nat]
         /\ (\A p \in Owner : Sound(p))'
         /\ at'[o] = a /\ size'[o] = n /\ len'[o] = l /\ Block(o)' = Area(a, n)
         /\ \A p \in Owner \ {o} : /\ at'[p] = at[p] /\ size'[p] = size[p] /\ len'[p] = len[p]
                                   /\ Block(p)' = Block(p)
  <1>1. /\ at' \in [Owner -> Unit \cup {None}] /\ size' \in [Owner -> Nat] /\ len' \in [Owner -> Nat]
        /\ at'[o] = a /\ size'[o] = n /\ len'[o] = l
        /\ \A p \in Owner \ {o} : at'[p] = at[p] /\ size'[p] = size[p] /\ len'[p] = len[p]
    BY DEF IInv, Typed
  <1>2. Sound(o)'
    BY <1>1 DEF Sound
  <1>3. \A p \in Owner \ {o} : Sound(p)'
    BY <1>1 DEF IInv, Sound
  <1>4. Block(o)' = Area(a, n) /\ \A p \in Owner \ {o} : Block(p)' = Block(p)
    BY <1>1, BlockArea
  <1> QED
    BY <1>1, <1>2, <1>3, <1>4

\* What the owners store is of their names; a step has only to keep it in what
\* it writes besides the headers.
LEMMA Stores ==
  ASSUME Typed', Good(free)', (\A o \in Owner : Sound(o))', Tiling',
         NEW m, Stamped(m),
         \A p \in Owner : \A u \in Unit :
           at'[p] # None /\ at'[p] < u /\ u <= at'[p] + len'[p] => m[u] = <<p, u - at'[p]>>
  PROVE  Private'
  BY Stamps DEF Private

LEMMA StampedType ==
  ASSUME NEW m \in [Unit -> Value], Stamped(m)
  PROVE  mem' \in [Unit -> Value]
  BY DEF Stamped, Value

\* What an owner writes behind address b, from the l-th unit on.
LEMMA Writes ==
  ASSUME NEW o \in Owner, NEW w \in 1 .. MaxWanted, NEW b \in Nat, NEW l \in Nat
  PROVE  \A u \in Unit : b + l < u /\ u <= b + w => <<o, u - b>> \in Value
  <1>1. \A u \in Unit : b + l < u /\ u <= b + w => u - b \in 1 .. MaxWanted
    BY WantedAssumption, UnitNat, SMT
  <1> QED
    BY <1>1 DEF Value

LEMMA LowestNat == ASSUME least \in Nat, NEW n \in Nat PROVE Lowest(n) \in Nat
  BY DEF Lowest

LEMMA MallocInv ==
  ASSUME IInv, NEW o \in Owner, NEW w \in 1 .. MaxWanted, Malloc(o, w)
  PROVE  IInv'
  <1>1. w \in Nat /\ w >= 1 /\ w + 1 \in Nat /\ w + 1 >= 2
    BY WantedAssumption, SMT
  <1>2. PICK a \in FirstFit(w + 1) :
          /\ free' = Left(a, w + 1)
          /\ at' = [at EXCEPT ![o] = a] /\ size' = [size EXCEPT ![o] = Taken(a, w + 1)]
          /\ remaining' = remaining - Taken(a, w + 1)
          /\ least' = Lowest(remaining')
          /\ Stamped([u \in Unit |-> IF a < u /\ u <= a + w THEN <<o, u - a>> ELSE mem[u]])
    BY DEF Malloc
  <1>3. a \in DOMAIN free /\ a \in Unit /\ a \in Nat /\ free[a] \in Nat /\ w + 1 <= free[a]
    BY <1>1, <1>2, UnitNat, SMT DEF FirstFit, Fits, IInv, Good
  <1> DEFINE t == Taken(a, w + 1)
             m == [u \in Unit |-> IF a < u /\ u <= a + w THEN <<o, u - a>> ELSE mem[u]]
  <1>4. /\ t \in Nat /\ w + 1 <= t /\ a + t <= Units
        /\ Good(free') /\ Covered(free') = FreeUnits \ Span(a, t)
        /\ Span(a, t) \subseteq FreeUnits
    BY <1>1, <1>2, <1>3, Takes DEF IInv
  <1>5. at' = [at EXCEPT ![o] = a] /\ size' = [size EXCEPT ![o] = t] /\ remaining' = remaining - t
        /\ len' = [len EXCEPT ![o] = w] /\ least' = Lowest(remaining') /\ Stamped(m)
    BY <1>2 DEF Malloc
  <1>6. \A u \in Unit : m[u] = IF a < u /\ u <= a + w THEN <<o, u - a>> ELSE mem[u]
    OBVIOUS
  <1>7. m \in [Unit -> Value]
    <2>1. \A u \in Unit : a < u /\ u <= a + w => <<o, u - a>> \in Value
      <3>1. 0 \in Nat /\ a + 0 = a
        BY <1>3, SMT
      <3> QED
        BY <3>1, <1>3, Writes
    <2> QED
      BY <2>1 DEF IInv, Typed
  <1> HIDE DEF t, m
  <1>8. t >= 2 /\ w < t /\ a + w < a + t
    BY <1>1, <1>3, <1>4, SMT
  <1>9. /\ at' \in [Owner -> Unit \cup {None}] /\ size' \in [Owner -> Nat] /\ len' \in [Owner -> Nat]
        /\ (\A p \in Owner : Sound(p))'
        /\ at'[o] = a /\ size'[o] = t /\ len'[o] = w /\ Block(o)' = Area(a, t)
        /\ \A p \in Owner \ {o} : /\ at'[p] = at[p] /\ size'[p] = size[p] /\ len'[p] = len[p]
                                  /\ Block(p)' = Block(p)
    BY <1>1, <1>3, <1>4, <1>5, <1>8, Changes
  <1>10. Block(o)' = Span(a, t) /\ Block(o) = {} /\ FreeUnits' = FreeUnits \ Span(a, t)
    BY <1>3, <1>4, <1>9, UnitNat DEF Area, Malloc, Block, FreeUnits
  <1>11. Tiling'
    BY <1>4, <1>9, <1>10, Moves DEF IInv
  <1>12. Counted' /\ remaining' \in Nat
    <2>1. /\ Cardinality(FreeUnits \ Span(a, t)) = Cardinality(FreeUnits) - t
          /\ Cardinality(FreeUnits \ Span(a, t)) \in Nat
      BY <1>3, <1>4, CountTaken DEF IInv
    <2>2. remaining' = Cardinality(FreeUnits')
      BY <2>1, <1>5, <1>10 DEF IInv, Counted
    <2> QED
      BY <2>1, <2>2, <1>10 DEF Counted
  <1>13. Typed'
    BY <1>5, <1>7, <1>9, <1>12, LowestNat, StampedType DEF IInv, Typed
  <1>14. Private'
    <2> SUFFICES ASSUME NEW p \in Owner, NEW u \in Unit,
                        at'[p] # None, at'[p] < u, u <= at'[p] + len'[p]
                 PROVE m[u] = <<p, u - at'[p]>>
      BY <1>4, <1>5, <1>9, <1>11, <1>13, Stores
    <2>1. CASE p = o
      BY <2>1, <1>6, <1>9
    <2>2. CASE p # o
      <3>1. at[p] # None /\ at[p] < u /\ u <= at[p] + len[p]
        BY <2>2, <1>9
      <3>2. u \in Block(p)
        <4>1. at[p] <= u
          BY <3>1, UnitNat, InBlock, SMT DEF IInv
        <4> QED
          BY <3>1, <4>1, InBlock DEF IInv
      <3>3. u \notin Span(a, t)
        BY <3>2, <1>4 DEF IInv, Tiling
      <3>4. ~(a < u /\ u <= a + w)
        BY <3>3, <1>1, <1>3, <1>4, <1>8, UnitNat, Spans, SMT
      <3>5. mem[u] = <<p, u - at[p]>>
        BY <3>1 DEF IInv, Private
      <3>6. at'[p] = at[p]
        BY <2>2, <1>9
      <3>7. m[u] = mem[u]
        BY <3>4, <1>6
      <3> QED
        BY <3>5, <3>6, <3>7
    <2> QED
      BY <2>1, <2>2
  <1> QED
    BY <1>4, <1>9, <1>11, <1>12, <1>13, <1>14 DEF IInv

LEMMA FreeInv ==
  ASSUME IInv, NEW o \in Owner, Free(o)
  PROVE  IInv'
  <1>1. /\ at[o] \in Unit /\ at[o] \in Nat /\ size[o] \in Nat /\ size[o] >= 2 /\ at[o] + size[o] <= Units
        /\ Block(o) = Span(at[o], size[o]) /\ at[o] # None
    BY InBlock DEF Free, IInv, Sound
  <1>2. Span(at[o], size[o]) \cap FreeUnits = {}
    BY <1>1 DEF IInv, Tiling
  <1>3. /\ Good(free')
        /\ FreeUnits' = FreeUnits \cup Block(o)
    BY <1>1, <1>2, Inserting DEF IInv, Free, FreeUnits
  <1>4. /\ at' = [at EXCEPT ![o] = None] /\ size' = [size EXCEPT ![o] = 0] /\ len' = [len EXCEPT ![o] = 0]
        /\ remaining' = remaining + size[o] /\ least' = least /\ Stamped(mem)
    BY DEF Free
  <1>5. /\ at' \in [Owner -> Unit \cup {None}] /\ size' \in [Owner -> Nat] /\ len' \in [Owner -> Nat]
        /\ (\A p \in Owner : Sound(p))'
        /\ at'[o] = None /\ Block(o)' = Area(None, 0)
        /\ \A p \in Owner \ {o} : /\ at'[p] = at[p] /\ size'[p] = size[p] /\ len'[p] = len[p]
                                  /\ Block(p)' = Block(p)
    BY <1>4, Changes
  <1>6. Tiling'
    <2>1. Block(o)' = {}
      BY <1>5 DEF Area
    <2> QED
      BY <2>1, <1>3, <1>5, Moves DEF IInv
  <1>7. Counted' /\ remaining' \in Nat
    <2>1. FreeUnits \subseteq Unit
      BY CoveredUnits DEF IInv, FreeUnits
    <2>2. Cardinality(FreeUnits \cup Span(at[o], size[o])) = Cardinality(FreeUnits) + size[o]
          /\ Cardinality(FreeUnits) \in Nat
      BY <2>1, <1>1, <1>2, CountGiven
    <2>3. remaining' = Cardinality(FreeUnits')
      BY <2>2, <1>1, <1>3, <1>4 DEF IInv, Counted
    <2> QED
      BY <2>2, <2>3, <1>1, <1>4 DEF Counted, IInv, Typed
  <1>8. Typed'
    <2>1. mem' \in [Unit -> Value]
      BY <1>4, StampedType DEF IInv, Typed
    <2> QED
      BY <2>1, <1>4, <1>5, <1>7 DEF IInv, Typed
  <1>9. Private'
    <2> SUFFICES ASSUME NEW p \in Owner, NEW u \in Unit,
                        at'[p] # None, at'[p] < u, u <= at'[p] + len'[p]
                 PROVE mem[u] = <<p, u - at'[p]>>
      BY <1>3, <1>4, <1>5, <1>6, <1>8, Stores
    <2>1. p # o
      BY <1>5
    <2> QED
      BY <2>1, <1>5 DEF IInv, Private
  <1> QED
    BY <1>3, <1>5, <1>6, <1>7, <1>8, <1>9 DEF IInv

\* What realloc has of the owner, before it does anything.
LEMMA Owned ==
  ASSUME IInv, NEW o \in Owner, at[o] # None
  PROVE  /\ at[o] \in Unit /\ at[o] \in Nat /\ size[o] \in Nat /\ len[o] \in Nat
         /\ size[o] >= 2 /\ at[o] + size[o] <= Units /\ len[o] < size[o]
         /\ Block(o) = Span(at[o], size[o]) /\ Block(o) \subseteq Unit
         /\ Capacity(o) \in Nat /\ Capacity(o) >= 1 /\ size[o] = Capacity(o) + 1
         /\ Behind(o) = at[o] + size[o] /\ Behind(o) \in Nat
  <1>1. /\ at[o] \in Unit /\ at[o] \in Nat /\ size[o] \in Nat /\ len[o] \in Nat
        /\ size[o] >= 2 /\ at[o] + size[o] <= Units /\ len[o] < size[o]
        /\ Block(o) = Span(at[o], size[o]) /\ Block(o) \subseteq Unit
    BY InBlock DEF IInv, Sound
  <1> QED
    BY <1>1, SMT DEF Capacity, Behind

\* What another owner stores is in its block, and stays.
LEMMA Elsewhere ==
  ASSUME IInv, NEW o \in Owner, NEW p \in Owner \ {o}, NEW u \in Unit,
         at'[p] = at[p], len'[p] = len[p],
         at'[p] # None, at'[p] < u, u <= at'[p] + len'[p]
  PROVE  mem[u] = <<p, u - at[p]>> /\ u \in Block(p) /\ u \notin FreeUnits /\ u \notin Block(o)
  <1>1. at[p] # None /\ at[p] < u /\ u <= at[p] + len[p]
    OBVIOUS
  <1>2. at[p] <= u
    BY <1>1, UnitNat, InBlock, SMT DEF IInv
  <1>3. u \in Block(p)
    BY <1>1, <1>2, InBlock DEF IInv
  <1> QED
    BY <1>1, <1>3 DEF IInv, Private, Tiling

LEMMA ExtendInv ==
  ASSUME IInv, NEW o \in Owner, NEW w \in 1 .. MaxWanted, Extend(o, w)
  PROVE  IInv'
  <1> DEFINE add == w - Capacity(o)
             b == Behind(o)
             m == [u \in Unit |-> IF at[o] + len[o] < u /\ u <= at[o] + w THEN <<o, u - at[o]>> ELSE mem[u]]
  <1>1. /\ at[o] # None /\ b \in DOMAIN free /\ Capacity(o) <= w
        /\ w < free[b] /\ free[b] - w > 2 /\ add > 0
        /\ at' = at /\ free' = Insert(Without(free, b), b + add, free[b] - add)
        /\ size' = [size EXCEPT ![o] = size[o] + add] /\ len' = [len EXCEPT ![o] = w]
        /\ remaining' = remaining - add /\ least' = Lowest(remaining')
        /\ Stamped(m)
    BY DEF Extend, Extensible, Added, MinBlock
  <1>2. \A u \in Unit : m[u] = IF at[o] + len[o] < u /\ u <= at[o] + w THEN <<o, u - at[o]>> ELSE mem[u]
    OBVIOUS
  <1>3. m \in [Unit -> Value]
    <2>1. at[o] \in Nat /\ len[o] \in Nat
      BY <1>1, Owned
    <2>2. \A u \in Unit : at[o] + len[o] < u /\ u <= at[o] + w => <<o, u - at[o]>> \in Value
      BY <2>1, Writes
    <2> QED
      BY <2>2 DEF IInv, Typed
  <1>4. w \in Nat
    BY WantedAssumption
  <1>5. /\ at[o] \in Unit /\ at[o] \in Nat /\ size[o] \in Nat /\ len[o] \in Nat
        /\ size[o] >= 2 /\ at[o] + size[o] <= Units /\ len[o] < size[o]
        /\ Block(o) = Span(at[o], size[o])
        /\ Capacity(o) \in Nat /\ Capacity(o) >= 1 /\ size[o] = Capacity(o) + 1
        /\ b = at[o] + size[o] /\ b \in Nat
    BY <1>1, Owned
  <1>6. free[b] \in Nat /\ b + free[b] <= Units
    BY <1>1 DEF IInv, Good
  <1>7. /\ add \in Nat /\ add >= 1 /\ add + 2 <= free[b] /\ size[o] + add = w + 1
        /\ size[o] + add \in Nat /\ size[o] + add >= 2 /\ at[o] + (size[o] + add) <= Units
        /\ w < size[o] + add /\ add <= free[b]
    BY <1>1, <1>4, <1>5, <1>6, UnitNat, SMT
  <1> HIDE DEF add, b, m
  <1>8. Good(free') /\ FreeUnits' = FreeUnits \ Span(b, add)
    BY <1>1, <1>7, Cutting DEF IInv, FreeUnits
  <1>9. Span(b, add) \subseteq FreeUnits
    BY <1>1, <1>7, TakenCovered DEF IInv, FreeUnits
  <1>10. /\ at' = [at EXCEPT ![o] = at[o]] /\ size' = [size EXCEPT ![o] = size[o] + add]
         /\ len' = [len EXCEPT ![o] = w]
         /\ at[o] \in Unit \cup {None}
    BY <1>1, <1>5 DEF IInv, Typed
  <1>11. /\ at' \in [Owner -> Unit \cup {None}] /\ size' \in [Owner -> Nat] /\ len' \in [Owner -> Nat]
         /\ (\A p \in Owner : Sound(p))'
         /\ at'[o] = at[o] /\ len'[o] = w /\ Block(o)' = Area(at[o], size[o] + add)
         /\ \A p \in Owner \ {o} : /\ at'[p] = at[p] /\ size'[p] = size[p] /\ len'[p] = len[p]
                                   /\ Block(p)' = Block(p)
    BY <1>4, <1>5, <1>7, <1>10, Changes
  <1>12. Block(o)' = Block(o) \cup Span(b, add)
    <2>1. \A u : /\ (u \in Span(at[o], size[o] + add)) <=> (u \in Nat /\ at[o] <= u /\ u < at[o] + (size[o] + add))
                 /\ (u \in Span(at[o], size[o])) <=> (u \in Nat /\ at[o] <= u /\ u < at[o] + size[o])
                 /\ (u \in Span(b, add)) <=> (u \in Nat /\ b <= u /\ u < b + add)
      BY <1>5, <1>7, Spans
    <2>2. \A u \in Nat : (at[o] <= u /\ u < at[o] + (size[o] + add)) <=>
            ((at[o] <= u /\ u < at[o] + size[o]) \/ (b <= u /\ u < b + add))
      BY <1>5, <1>7, SMT
    <2>3. Span(at[o], size[o] + add) = Span(at[o], size[o]) \cup Span(b, add)
      BY <2>1, <2>2
    <2> QED
      BY <2>3, <1>1, <1>5, <1>11 DEF Area
  <1>13. Tiling'
    <2>1. Block(o) \cap FreeUnits = {}
      BY DEF IInv, Tiling
    <2> QED
      BY <2>1, <1>8, <1>9, <1>11, <1>12, Moves DEF IInv
  <1>14. Counted' /\ remaining' \in Nat
    <2>1. /\ Cardinality(FreeUnits \ Span(b, add)) = Cardinality(FreeUnits) - add
          /\ Cardinality(FreeUnits \ Span(b, add)) \in Nat
      BY <1>5, <1>7, <1>9, CountTaken DEF IInv
    <2>2. remaining' = Cardinality(FreeUnits')
      BY <2>1, <1>1, <1>8 DEF IInv, Counted
    <2> QED
      BY <2>1, <2>2, <1>8 DEF Counted
  <1>15. Typed'
    <2>1. mem' \in [Unit -> Value]
      BY <1>1, <1>3, StampedType
    <2> QED
      BY <2>1, <1>1, <1>11, <1>14, LowestNat DEF IInv, Typed
  <1>16. Private'
    <2> SUFFICES ASSUME NEW p \in Owner, NEW u \in Unit,
                        at'[p] # None, at'[p] < u, u <= at'[p] + len'[p]
                 PROVE m[u] = <<p, u - at'[p]>>
      BY <1>1, <1>8, <1>11, <1>13, <1>15, Stores
    <2>1. CASE p = o
      <3>1. at[o] < u /\ u <= at[o] + w
        BY <2>1, <1>11
      <3>2. CASE u <= at[o] + len[o]
        BY <2>1, <3>1, <3>2, <1>1, <1>2 DEF IInv, Private
      <3>3. CASE ~(u <= at[o] + len[o])
        <4>1. at[o] + len[o] < u
          BY <3>3, <1>5, UnitNat, SMT
        <4>2. m[u] = <<o, u - at[o]>>
          BY <3>1, <4>1, <1>2
        <4> QED
          BY <2>1, <4>2, <1>11
      <3> QED
        BY <3>2, <3>3
    <2>2. CASE p # o
      <3>1. mem[u] = <<p, u - at[p]>> /\ u \notin FreeUnits /\ u \notin Block(o)
        BY <2>2, <1>11, Elsewhere
      <3>2. u \notin Span(at[o], size[o] + add)
        BY <3>1, <1>1, <1>9, <1>11, <1>12 DEF Area
      <3>3. ~(at[o] + len[o] < u /\ u <= at[o] + w)
        <4>1. ~(at[o] <= u /\ u < at[o] + (size[o] + add))
          BY <3>2, <1>5, <1>7, UnitNat, Spans
        <4> QED
          BY <4>1, <1>4, <1>5, <1>7, UnitNat, SMT
      <3>4. m[u] = mem[u]
        BY <3>3, <1>2
      <3>5. at'[p] = at[p]
        BY <2>2, <1>11
      <3> QED
        BY <3>1, <3>4, <3>5
    <2> QED
      BY <2>1, <2>2
  <1> QED
    BY <1>8, <1>11, <1>13, <1>14, <1>15, <1>16 DEF IInv

LEMMA SameInv ==
  ASSUME IInv, NEW o \in Owner, NEW w \in 1 .. MaxWanted, Same(o, w)
  PROVE  IInv'
  <1> USE DEF IInv
  <1>1. /\ at[o] # None /\ w = Capacity(o) /\ len' = [len EXCEPT ![o] = w]
        /\ mem' = [u \in Unit |-> IF at[o] + len[o] < u /\ u <= at[o] + w THEN <<o, u - at[o]>> ELSE mem[u]]
        /\ free' = free /\ remaining' = remaining /\ least' = least /\ at' = at /\ size' = size
    BY DEF Same
  <1>2. /\ at[o] \in Unit /\ at[o] \in Nat /\ size[o] \in Nat /\ len[o] \in Nat
        /\ size[o] >= 2 /\ at[o] + size[o] <= Units /\ len[o] < size[o] /\ Block(o) = Span(at[o], size[o])
        /\ w \in Nat /\ w < size[o]
    BY <1>1, Owned, SMT
  <1>3. at' = [at EXCEPT ![o] = at[o]] /\ size' = [size EXCEPT ![o] = size[o]]
    BY <1>1 DEF Typed
  <1>4. /\ len' \in [Owner -> Nat] /\ (\A p \in Owner : Sound(p))' /\ at'[o] = at[o] /\ len'[o] = w
        /\ \A p \in Owner \ {o} : at'[p] = at[p] /\ len'[p] = len[p]
    BY <1>1, <1>2, <1>3, Changes
  <1>5. FreeUnits' = FreeUnits /\ (\A p \in Owner : Block(p)' = Block(p))
    BY <1>1 DEF FreeUnits, Block
  <1>6. Tiling' /\ Counted' /\ Good(free)'
    BY <1>1, <1>5 DEF Tiling, Counted
  <1>7. Typed'
    <2>1. \A u \in Unit : at[o] + len[o] < u /\ u <= at[o] + w => <<o, u - at[o]>> \in Value
      BY <1>2, Writes
    <2>2. mem' \in [Unit -> Value]
      BY <2>1, <1>1 DEF Typed
    <2> QED
      BY <2>2, <1>1, <1>4 DEF Typed
  <1>8. Private'
    <2> SUFFICES ASSUME NEW p \in Owner, NEW u \in Unit,
                        at'[p] # None, at'[p] < u, u <= at'[p] + len'[p]
                 PROVE mem'[u] = <<p, u - at'[p]>>
      BY DEF Private
    <2>1. CASE p = o
      <3>1. at[o] < u /\ u <= at[o] + w
        BY <2>1, <1>4
      <3>2. CASE u <= at[o] + len[o]
        BY <2>1, <3>1, <3>2, <1>1 DEF Private
      <3>3. CASE ~(u <= at[o] + len[o])
        <4>1. at[o] + len[o] < u
          BY <3>3, <1>2, UnitNat, SMT
        <4> QED
          BY <2>1, <3>1, <4>1, <1>1
      <3> QED
        BY <3>2, <3>3
    <2>2. CASE p # o
      <3>1. mem[u] = <<p, u - at[p]>> /\ u \notin Block(o)
        BY <2>2, <1>4, Elsewhere
      <3>2. ~(at[o] + len[o] < u /\ u <= at[o] + w)
        <4>1. ~(at[o] <= u /\ u < at[o] + size[o])
          BY <3>1, <1>2, UnitNat, Spans
        <4> QED
          BY <4>1, <1>2, UnitNat, SMT
      <3> QED
        BY <3>1, <3>2, <1>1
    <2> QED
      BY <2>1, <2>2
  <1> QED
    BY <1>4, <1>6, <1>7, <1>8

LEMMA MoveInv ==
  ASSUME IInv, NEW o \in Owner, NEW w \in 1 .. MaxWanted, Move(o, w)
  PROVE  IInv'
  <1>1. w \in Nat /\ w >= 1 /\ w + 1 \in Nat /\ w + 1 >= 2
    BY WantedAssumption, SMT
  <1>2. PICK a \in FirstFit(w + 1) :
          /\ free' = Insert(Left(a, w + 1), at[o], size[o])
          /\ at' = [at EXCEPT ![o] = a] /\ size' = [size EXCEPT ![o] = Taken(a, w + 1)]
          /\ remaining' = remaining - Taken(a, w + 1) + size[o]
          /\ least' = Lowest(remaining - Taken(a, w + 1))
          /\ Stamped([u \in Unit |->
               IF a + len[o] < u /\ u <= a + w THEN <<o, u - a>>
               ELSE IF a < u /\ u <= a + Copied(o, w) THEN mem[at[o] + u - a]
               ELSE mem[u]])
    BY DEF Move
  <1>3. a \in DOMAIN free /\ a \in Unit /\ a \in Nat /\ free[a] \in Nat /\ w + 1 <= free[a]
    BY <1>1, <1>2, UnitNat, SMT DEF FirstFit, Fits, IInv, Good
  <1> DEFINE t == Taken(a, w + 1)
             m == [u \in Unit |->
                     IF a + len[o] < u /\ u <= a + w THEN <<o, u - a>>
                     ELSE IF a < u /\ u <= a + Copied(o, w) THEN mem[at[o] + u - a]
                     ELSE mem[u]]
             f == Left(a, w + 1)
  <1>4. /\ t \in Nat /\ w + 1 <= t /\ a + t <= Units
        /\ Good(f) /\ Covered(f) = FreeUnits \ Span(a, t)
        /\ Span(a, t) \subseteq FreeUnits
    BY <1>1, <1>2, <1>3, Takes DEF IInv
  <1>5. /\ at' = [at EXCEPT ![o] = a] /\ size' = [size EXCEPT ![o] = t] /\ len' = [len EXCEPT ![o] = w]
        /\ free' = Insert(f, at[o], size[o]) /\ remaining' = remaining - t + size[o]
        /\ least' = Lowest(remaining - t) /\ Stamped(m) /\ at[o] # None
    BY <1>2 DEF Move
  <1>6. \A u \in Unit : m[u] =
          IF a + len[o] < u /\ u <= a + w THEN <<o, u - a>>
          ELSE IF a < u /\ u <= a + Copied(o, w) THEN mem[at[o] + u - a]
          ELSE mem[u]
    OBVIOUS
  <1>7. /\ at[o] \in Unit /\ at[o] \in Nat /\ size[o] \in Nat /\ len[o] \in Nat
        /\ size[o] >= 2 /\ at[o] + size[o] <= Units /\ len[o] < size[o]
        /\ Block(o) = Span(at[o], size[o]) /\ Block(o) \subseteq Unit
        /\ Capacity(o) \in Nat /\ size[o] = Capacity(o) + 1
    BY <1>5, Owned
  <1>8. /\ Copied(o, w) \in Nat /\ Copied(o, w) <= w /\ Copied(o, w) <= Capacity(o)
        /\ (Copied(o, w) = w \/ Copied(o, w) = Capacity(o))
    BY <1>1, <1>7, SMT DEF Copied
  <1>9. m \in [Unit -> Value]
    <2>3. \A u \in Unit : a + len[o] < u /\ u <= a + w => <<o, u - a>> \in Value
      BY <1>3, <1>7, Writes
    <2>1. \A u \in Unit : a < u /\ u <= a + Copied(o, w) => at[o] + u - a \in Unit
      BY <1>3, <1>7, <1>8, UnitNat, SMT
    <2>2. mem \in [Unit -> Value]
      BY DEF IInv, Typed
    <2> QED
      BY <2>1, <2>2, <2>3
  <1> HIDE DEF t, m, f
  <1>10. t >= 2 /\ w < t /\ a + w < a + t
    BY <1>1, <1>3, <1>4, SMT
  <1>11. /\ at' \in [Owner -> Unit \cup {None}] /\ size' \in [Owner -> Nat] /\ len' \in [Owner -> Nat]
         /\ (\A p \in Owner : Sound(p))'
         /\ at'[o] = a /\ len'[o] = w /\ Block(o)' = Area(a, t)
         /\ \A p \in Owner \ {o} : /\ at'[p] = at[p] /\ size'[p] = size[p] /\ len'[p] = len[p]
                                   /\ Block(p)' = Block(p)
    BY <1>1, <1>3, <1>4, <1>5, <1>10, Changes
  <1>12. Block(o) \cap FreeUnits = {}
    BY DEF IInv, Tiling
  <1>13. /\ Good(free') /\ FreeUnits' = (FreeUnits \ Span(a, t)) \cup Block(o)
    <2>1. Span(at[o], size[o]) \cap Covered(f) = {}
      BY <1>4, <1>7, <1>12
    <2>2. Good(Insert(f, at[o], size[o]))
          /\ Covered(Insert(f, at[o], size[o])) = Covered(f) \cup Span(at[o], size[o])
      BY <2>1, <1>4, <1>7, Inserting
    <2> QED
      BY <2>2, <1>4, <1>5, <1>7 DEF FreeUnits
  <1>14. Block(o)' = Span(a, t)
    BY <1>3, <1>11, UnitNat DEF Area
  <1>15. Tiling'
    <2>1. FreeUnits' \cup Block(o)' = FreeUnits \cup Block(o)
      BY <1>4, <1>13, <1>14
    <2>2. FreeUnits' \cap Block(o)' = {}
      BY <1>4, <1>12, <1>13, <1>14
    <2> QED
      BY <2>1, <2>2, <1>11, Moves DEF IInv
  <1>16. Counted' /\ remaining' \in Nat /\ remaining - t \in Nat
    <2>1. /\ Cardinality(FreeUnits \ Span(a, t)) = Cardinality(FreeUnits) - t
          /\ Cardinality(FreeUnits \ Span(a, t)) \in Nat
      BY <1>3, <1>4, CountTaken DEF IInv
    <2>2. Cardinality((FreeUnits \ Span(a, t)) \cup Span(at[o], size[o]))
            = Cardinality(FreeUnits \ Span(a, t)) + size[o]
      <3>1. FreeUnits \ Span(a, t) \subseteq Unit /\ Span(at[o], size[o]) \cap (FreeUnits \ Span(a, t)) = {}
        BY <1>7, <1>12, CoveredUnits DEF IInv, FreeUnits
      <3> QED
        BY <3>1, <1>7, CountGiven
    <2>3. Cardinality(FreeUnits') = Cardinality(FreeUnits) - t + size[o]
      BY <2>1, <2>2, <1>7, <1>13
    <2>4. remaining = Cardinality(FreeUnits)
      BY DEF IInv, Counted
    <2>5. remaining - t \in Nat
      BY <2>1, <2>4
    <2>6. remaining' \in Nat
      BY <2>5, <1>5, <1>7, SMT
    <2>7. remaining' = Cardinality(FreeUnits')
      BY <2>3, <2>4, <1>5
    <2> QED
      BY <2>5, <2>6, <2>7 DEF Counted
  <1>17. Typed'
    <2>1. mem' \in [Unit -> Value]
      BY <1>5, <1>9, StampedType
    <2>2. least' \in Nat
      BY <1>5, <1>16, LowestNat DEF IInv, Typed
    <2> QED
      BY <2>1, <2>2, <1>11, <1>16 DEF Typed
  <1>18. Private'
    <2> SUFFICES ASSUME NEW p \in Owner, NEW u \in Unit,
                        at'[p] # None, at'[p] < u, u <= at'[p] + len'[p]
                 PROVE m[u] = <<p, u - at'[p]>>
      BY <1>5, <1>11, <1>13, <1>15, <1>17, Stores
    <2>1. CASE p = o
      <3>1. a < u /\ u <= a + w /\ u \in Nat
        BY <2>1, <1>11, UnitNat
      <3>2. CASE a + len[o] < u
        <4>1. m[u] = <<o, u - a>>
          BY <3>1, <3>2, <1>6
        <4> QED
          BY <2>1, <4>1, <1>11
      <3>3. CASE ~(a + len[o] < u)
        <4> DEFINE v == at[o] + u - a
        <4>1. /\ v \in Nat /\ v < Units /\ at[o] < v /\ v <= at[o] + len[o]
              /\ u <= a + Copied(o, w) /\ v - at[o] = u - a
          BY <3>1, <3>3, <1>1, <1>3, <1>7, <1>8, UnitNat, SMT
        <4>2. m[u] = mem[v]
          BY <3>1, <3>3, <4>1, <1>6
        <4> HIDE DEF v
        <4>3. v \in Unit
          BY <4>1, UnitNat
        <4>4. mem[v] = <<o, v - at[o]>>
          BY <4>1, <4>3, <1>5 DEF IInv, Private
        <4> QED
          BY <2>1, <4>1, <4>2, <4>4, <1>11
      <3> QED
        BY <3>2, <3>3
    <2>2. CASE p # o
      <3>1. mem[u] = <<p, u - at[p]>> /\ u \notin Span(a, t)
        BY <2>2, <1>4, <1>11, Elsewhere
      <3>2. ~(a <= u /\ u < a + t) /\ u \in Nat
        BY <3>1, <1>3, <1>4, UnitNat, Spans
      <3>3. ~(a < u /\ u <= a + w) /\ ~(a < u /\ u <= a + Copied(o, w))
        BY <3>2, <1>1, <1>3, <1>8, <1>10, <1>4, SMT
      <3>4. ~(a + len[o] < u /\ u <= a + w)
        BY <3>2, <3>3, <1>1, <1>3, <1>7, SMT
      <3>5. m[u] = mem[u]
        BY <3>3, <3>4, <1>6
      <3>6. at'[p] = at[p]
        BY <2>2, <1>11
      <3> QED
        BY <3>1, <3>5, <3>6
    <2> QED
      BY <2>1, <2>2
  <1> QED
    BY <1>11, <1>13, <1>15, <1>16, <1>17, <1>18 DEF IInv

-----------------------------------------------------------------------------
LEMMA InitInv == Init => IInv
  <1> SUFFICES ASSUME Init PROVE IInv
    OBVIOUS
  <1>1. /\ DOMAIN free = {0} /\ free[0] = Units /\ remaining = Units /\ least = Units
        /\ at = [o \in Owner |-> None] /\ size = [o \in Owner |-> 0] /\ len = [o \in Owner |-> 0]
        /\ mem = [u \in Unit |-> Link]
    BY DEF Init
  <1>2. Units \in Nat /\ Units >= 2 /\ 0 \in Unit
    BY UnitsAssumption, SMT DEF Unit
  <1>3. Good(free)
    BY <1>1, <1>2, SMT DEF Good
  <1>4. FreeUnits = Unit
    <2>1. \A u : (u \in Covered(free)) <=> (u \in Nat /\ \E a \in DOMAIN free : a <= u /\ u < a + free[a])
      BY <1>3, CoveredUnits
    <2>2. \A u \in Nat : (0 <= u /\ u < 0 + Units) <=> u < Units
      BY <1>2, SMT
    <2>3. \A u : (u \in Covered(free)) <=> (u \in Unit)
      BY <2>1, <2>2, <1>1, UnitNat
    <2> QED
      BY <2>3 DEF FreeUnits
  <1>5. \A o \in Owner : Block(o) = {} /\ Sound(o) /\ at[o] = None
    BY <1>1 DEF Block, Sound
  <1>6. Tiling
    BY <1>4, <1>5 DEF Tiling
  <1>7. Counted
    <2>1. 0 \in Int /\ Units - 1 \in Int
      BY <1>2, SMT
    <2>2. Cardinality(0 .. Units - 1) = IF 0 > Units - 1 THEN 0 ELSE (Units - 1) - 0 + 1
      BY <2>1, FS_Interval
    <2>3. Cardinality(0 .. Units - 1) = Units
      BY <2>2, <1>2, SMT
    <2> QED
      BY <2>3, <1>1, <1>4 DEF Counted, Unit
  <1>8. Typed
    BY <1>1, <1>2 DEF Typed, Value
  <1>9. Private
    BY <1>5 DEF Private
  <1> QED
    BY <1>3, <1>5, <1>6, <1>7, <1>8, <1>9 DEF IInv

LEMMA NextInv == IInv /\ [Next]_vars => IInv'
  <1> SUFFICES ASSUME IInv, [Next]_vars PROVE IInv'
    OBVIOUS
  <1>1. CASE UNCHANGED vars
    BY <1>1 DEF IInv, vars, Typed, Good, Sound, Tiling, Counted, Private, FreeUnits, Block
  <1>2. CASE Next
    <2>1. ASSUME NEW o \in Owner, Free(o) PROVE IInv'
      BY <2>1, FreeInv
    <2>2. ASSUME NEW o \in Owner, NEW w \in 1 .. MaxWanted, Malloc(o, w) PROVE IInv'
      BY <2>2, MallocInv
    <2>3. ASSUME NEW o \in Owner, NEW w \in 1 .. MaxWanted, Extend(o, w) PROVE IInv'
      BY <2>3, ExtendInv
    <2>4. ASSUME NEW o \in Owner, NEW w \in 1 .. MaxWanted, Same(o, w) PROVE IInv'
      BY <2>4, SameInv
    <2>5. ASSUME NEW o \in Owner, NEW w \in 1 .. MaxWanted, Move(o, w) PROVE IInv'
      BY <2>5, MoveInv
    <2> QED
      BY <1>2, <2>1, <2>2, <2>3, <2>4, <2>5 DEF Next
  <1> QED
    BY <1>1, <1>2

\* The free list, the blocks, the count and the contents stay consistent,
\* whatever malloc, free and realloc do.
THEOREM Invariant == Spec => []IInv
  BY InitInv, NextInv, PTL DEF Spec

\* Free blocks have room for a header and end inside the heap.
THEOREM TypeCorrect == Spec => []TypeOK
  <1>1. IInv => TypeOK
    <2> SUFFICES ASSUME IInv PROVE TypeOK
      OBVIOUS
    <2>1. \A a \in DOMAIN free : a \in Nat /\ free[a] \in Nat /\ free[a] >= 2 /\ a + free[a] <= Units
      BY UnitNat DEF IInv, Good
    <2>2. \A a \in DOMAIN free : free[a] \in 2 .. Units - a
      BY <2>1, UnitNat, SMT
    <2> QED
      BY <2>2 DEF IInv, Good, Typed, TypeOK, Value
  <1> QED
    BY <1>1, Invariant, PTL

\* Every unit of the heap is in exactly one block, and adjacent free blocks
\* have been merged.
THEOREM Tiles == Spec => []Tiled
  <1>1. IInv => Tiled
    BY DEF IInv, Good, Tiling, Tiled
  <1> QED
    BY <1>1, Invariant, PTL

\* xFreeBytesRemaining is what the free list holds.
THEOREM Counts == Spec => []Counted
  <1>1. IInv => Counted
    BY DEF IInv
  <1> QED
    BY <1>1, Invariant, PTL

\* What an owner stores survives the calls of the others, and realloc.
THEOREM KeepsPrivate == Spec => []Private
  <1>1. IInv => Private
    BY DEF IInv
  <1> QED
    BY <1>1, Invariant, PTL

=============================================================================
