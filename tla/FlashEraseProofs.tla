-------------------------- MODULE FlashEraseProofs --------------------------
(***************************************************************************)
(* Proofs about flash_erase, for every area, chip size and set of erase    *)
(* sizes; that nothing is left out needs a Usable chip.                    *)
(***************************************************************************)
EXTENDS FlashErase, TLAPS

LEMMA Sizes == K4 = 2 /\ K32 = 16 /\ K64 = 32 /\ Mode = {2, 16, 32}
  BY DEF K4, K32, K64, Mode

\* Rounding to a multiple of the block size.
LEMMA Rounding ==
  ASSUME NEW a \in Nat, NEW b \in {2, 16, 32}
  PROVE  /\ AlignDown(a, b) \in Nat /\ AlignUp(a, b) \in Nat
         /\ AlignDown(a, b) <= a /\ a < AlignDown(a, b) + b
         /\ a <= AlignUp(a, b) /\ AlignUp(a, b) < a + b
         /\ AlignDown(a, b) % b = 0 /\ AlignUp(a, b) % b = 0
  <1>1. CASE b = 2
    BY <1>1, SMT DEF AlignDown, AlignUp
  <1>2. CASE b = 16
    BY <1>2, SMT DEF AlignDown, AlignUp
  <1>3. CASE b = 32
    BY <1>3, SMT DEF AlignDown, AlignUp
  <1> QED
    BY <1>1, <1>2, <1>3

\* What the plan of a call has to be: runs of whole blocks inside the area,
\* disjoint, and covering it.
Plan(p, a, e, use) ==
  /\ p \in Seq([mode : Mode, from : Nat, to : Nat])
  /\ \A i \in 1 .. Len(p) :
       /\ Aligned(p[i]) /\ p[i].mode \in use
       /\ p[i].from <= p[i].to /\ a <= p[i].from /\ p[i].to <= e
  /\ \A i, j \in 1 .. Len(p) :
       i # j => p[i].to <= p[j].from \/ p[j].to <= p[i].from
  /\ \A u \in a .. e - 1 : \E i \in 1 .. Len(p) : u \in Units(p[i])

LEMMA Plan64 ==
  ASSUME NEW a \in Nat, NEW e \in Nat, a % 2 = 0, e % 2 = 0, e >= a + 32
  PROVE  Plan(By64(a, e), a, e, {K4, K32, K64})
  <1> DEFINE au == AlignUp(a, 16)
             bu == AlignUp(a, 32)
             ad == AlignDown(e, 16)
             bd == AlignDown(e, 32)
             p == By64(a, e)
  <1>1. /\ au \in Nat /\ bu \in Nat /\ ad \in Nat /\ bd \in Nat
        /\ a <= au /\ au <= bu /\ bu <= bd /\ bd <= ad /\ ad <= e
        /\ au % 2 = 0 /\ au % 16 = 0 /\ bu % 16 = 0 /\ bu % 32 = 0
        /\ ad % 2 = 0 /\ ad % 16 = 0 /\ bd % 16 = 0 /\ bd % 32 = 0
    BY SMT DEF AlignUp, AlignDown
  <1> HIDE DEF au, bu, ad, bd
  <1>2. p = <<[mode |-> 2, from |-> a, to |-> au], [mode |-> 2, from |-> ad, to |-> e],
              [mode |-> 16, from |-> au, to |-> bu],
              [mode |-> 16, from |-> bd, to |-> ad],
              [mode |-> 32, from |-> bu, to |-> bd]>>
    BY Sizes DEF By64, Run, au, bu, ad, bd
  <1> HIDE DEF p
  <1>3. p \in Seq([mode : Mode, from : Nat, to : Nat]) /\ Len(p) = 5
    BY <1>1, <1>2, Sizes, SMT
  <1>4. /\ p[1] = [mode |-> 2, from |-> a, to |-> au]
        /\ p[2] = [mode |-> 2, from |-> ad, to |-> e]
        /\ p[3] = [mode |-> 16, from |-> au, to |-> bu]
        /\ p[4] = [mode |-> 16, from |-> bd, to |-> ad]
        /\ p[5] = [mode |-> 32, from |-> bu, to |-> bd]
    BY <1>2
  <1>5. \A i \in 1 .. 5 : i = 1 \/ i = 2 \/ i = 3 \/ i = 4 \/ i = 5
    BY SMT
  <1>6. \A i \in 1 .. 5 :
          /\ Aligned(p[i]) /\ p[i].mode \in {K4, K32, K64}
          /\ p[i].from <= p[i].to /\ a <= p[i].from /\ p[i].to <= e
    BY <1>1, <1>4, <1>5, Sizes, SMT DEF Aligned
  <1>7. \A i, j \in 1 .. 5 :
          i # j => p[i].to <= p[j].from \/ p[j].to <= p[i].from
    BY <1>1, <1>4, <1>5, SMT
  <1>8. \A u \in a .. e - 1 : \E i \in 1 .. 5 : u \in Units(p[i])
    <2> SUFFICES ASSUME NEW u \in a .. e - 1 PROVE \E i \in 1 .. 5 : u \in Units(p[i])
      OBVIOUS
    <2>1. \/ u \in a .. au - 1 \/ u \in ad .. e - 1 \/ u \in au .. bu - 1
          \/ u \in bd .. ad - 1 \/ u \in bu .. bd - 1
      BY <1>1, SMT
    <2>2. 1 \in 1 .. 5 /\ 2 \in 1 .. 5 /\ 3 \in 1 .. 5 /\ 4 \in 1 .. 5 /\ 5 \in 1 .. 5
      BY SMT
    <2> QED
      BY <2>1, <2>2, <1>4 DEF Units
  <1> QED
    BY <1>3, <1>6, <1>7, <1>8 DEF Plan, p

LEMMA Plan32 ==
  ASSUME NEW a \in Nat, NEW e \in Nat, a % 2 = 0, e % 2 = 0, e >= a + 16
  PROVE  Plan(By32(a, e), a, e, {K4, K32})
  <1> DEFINE au == AlignUp(a, 16)
             ad == AlignDown(e, 16)
             p == By32(a, e)
  <1>1. /\ au \in Nat /\ ad \in Nat /\ a <= au /\ au <= ad /\ ad <= e
        /\ au % 2 = 0 /\ au % 16 = 0 /\ ad % 2 = 0 /\ ad % 16 = 0
    BY SMT DEF AlignUp, AlignDown
  <1> HIDE DEF au, ad
  <1>2. p = <<[mode |-> 2, from |-> a, to |-> au], [mode |-> 2, from |-> ad, to |-> e],
              [mode |-> 16, from |-> au, to |-> ad]>>
    BY Sizes DEF By32, Run, au, ad
  <1> HIDE DEF p
  <1>3. p \in Seq([mode : Mode, from : Nat, to : Nat]) /\ Len(p) = 3
    BY <1>1, <1>2, Sizes, SMT
  <1>4. /\ p[1] = [mode |-> 2, from |-> a, to |-> au]
        /\ p[2] = [mode |-> 2, from |-> ad, to |-> e]
        /\ p[3] = [mode |-> 16, from |-> au, to |-> ad]
    BY <1>2
  <1>5. \A i \in 1 .. 3 : i = 1 \/ i = 2 \/ i = 3
    BY SMT
  <1>6. \A i \in 1 .. 3 :
          /\ Aligned(p[i]) /\ p[i].mode \in {K4, K32}
          /\ p[i].from <= p[i].to /\ a <= p[i].from /\ p[i].to <= e
    BY <1>1, <1>4, <1>5, Sizes, SMT DEF Aligned
  <1>7. \A i, j \in 1 .. 3 :
          i # j => p[i].to <= p[j].from \/ p[j].to <= p[i].from
    BY <1>1, <1>4, <1>5, SMT
  <1>8. \A u \in a .. e - 1 : \E i \in 1 .. 3 : u \in Units(p[i])
    <2> SUFFICES ASSUME NEW u \in a .. e - 1 PROVE \E i \in 1 .. 3 : u \in Units(p[i])
      OBVIOUS
    <2>1. u \in a .. au - 1 \/ u \in ad .. e - 1 \/ u \in au .. ad - 1
      BY <1>1, SMT
    <2>2. 1 \in 1 .. 3 /\ 2 \in 1 .. 3 /\ 3 \in 1 .. 3
      BY SMT
    <2> QED
      BY <2>1, <2>2, <1>4 DEF Units
  <1> QED
    BY <1>3, <1>6, <1>7, <1>8 DEF Plan, p

LEMMA Plan4 ==
  ASSUME NEW a \in Nat, NEW e \in Nat, a % 2 = 0, e % 2 = 0, a <= e
  PROVE  Plan(<<Run(K4, a, e)>>, a, e, {K4})
  BY Sizes, SMT DEF Plan, Run, Units, Aligned

LEMMA Plan0 == ASSUME NEW a \in Nat PROVE Plan(<< >>, a, a, {K4})
  BY Sizes, SMT DEF Plan

-----------------------------------------------------------------------------
LEMMA InitInv == Init => IInv
  <1> SUFFICES ASSUME Init PROVE IInv
    OBVIOUS
  <1>1. addr .. addr + size - 1 = {}
    BY SMT DEF Init
  <1>2. todo \in Seq([mode : Mode, from : Nat, to : Nat])
    BY SMT DEF Init
  <1>3. 0 \in Nat /\ {} \subseteq 0 .. ChipSize - 1
    OBVIOUS
  <1> QED
    BY <1>1, <1>2, <1>3 DEF Init, IInv, TypeOK, ErasesOnlyArea, ErasesArea, Area

\* A planned call starts in the invariant.
LEMMA PlannedInv ==
  ASSUME TypeOK, NEW a \in Nat, NEW n \in Nat, NEW use,
         addr' = a, size' = n, erased' = {}, modes' = modes, ret' = "none",
         lost' = FALSE, Usable => use \subseteq modes,
         Plan(todo', a, a + n, use)
  PROVE  IInv'
  <1>1. TypeOK'
    BY DEF TypeOK, Plan
  <1>2. Runs'
    BY DEF Plan, Runs
  <1>3. Disjoint'
    BY DEF Plan, Disjoint
  <1>4. Covered'
    BY DEF Plan, Covered, Area
  <1>5. ErasesOnlyArea' /\ ErasesArea'
    BY DEF ErasesOnlyArea, ErasesArea
  <1> QED
    BY <1>1, <1>2, <1>3, <1>4, <1>5 DEF IInv

LEMMA BeginInv ==
  ASSUME IInv, NEW a \in Nat, NEW n \in Nat, Begin(a, n)
  PROVE  IInv'
  <1>u. /\ addr' = a /\ size' = n /\ erased' = {} /\ lost' = FALSE /\ modes' = modes
    BY DEF Begin
  <1>t. TypeOK /\ modes \in Chips
    BY DEF IInv, TypeOK
  <1>1. CASE todo' = << >> /\ ret' = "fail"
    <2>1. todo' \in Seq([mode : Mode, from : Nat, to : Nat])
      BY <1>1, SMT
    <2> QED
      BY <1>u, <1>t, <1>1, <2>1 DEF IInv, TypeOK, ErasesOnlyArea, ErasesArea
  <1>2. CASE a % K4 = 0 /\ n % K4 = 0 /\ todo' = RunsOf(a, n) /\ ret' = "none"
    <2>0. /\ a % 2 = 0 /\ n % 2 = 0 /\ (a + n) % 2 = 0 /\ a + n \in Nat
          /\ a <= a + n
      BY <1>2, Sizes, SMT
    <2>u. Usable => K4 \in modes /\ (K64 \in modes => K32 \in modes)
      BY <1>t DEF Usable
    <2>1. CASE n >= K64 /\ K64 \in modes
      <3>1. Plan(todo', a, a + n, {K4, K32, K64})
        <4>1. a + n >= a + 32
          BY <2>1, Sizes, SMT
        <4> QED
          BY <1>2, <2>0, <2>1, <4>1, Plan64 DEF RunsOf
      <3> QED
        BY <1>u, <1>t, <1>2, <2>1, <2>u, <3>1, PlannedInv
    <2>2. CASE ~(n >= K64 /\ K64 \in modes) /\ n >= K32 /\ K32 \in modes
      <3>1. Plan(todo', a, a + n, {K4, K32})
        <4>1. a + n >= a + 16
          BY <2>2, Sizes, SMT
        <4> QED
          BY <1>2, <2>0, <2>2, <4>1, Plan32 DEF RunsOf
      <3> QED
        BY <1>u, <1>t, <1>2, <2>2, <2>u, <3>1, PlannedInv
    <2>3. CASE /\ ~(n >= K64 /\ K64 \in modes) /\ ~(n >= K32 /\ K32 \in modes)
               /\ n >= K4 /\ K4 \in modes
      <3>1. Plan(todo', a, a + n, {K4})
        BY <1>2, <2>0, <2>3, Plan4 DEF RunsOf
      <3> QED
        BY <1>u, <1>t, <1>2, <2>u, <3>1, PlannedInv
    <2>4. CASE /\ ~(n >= K64 /\ K64 \in modes) /\ ~(n >= K32 /\ K32 \in modes)
               /\ ~(n >= K4 /\ K4 \in modes)
      <3>1. todo' = << >>
        BY <1>2, <2>4 DEF RunsOf
      <3>2. Usable => n = 0
        BY <2>0, <2>4, <2>u, Sizes, SMT
      <3>3. TypeOK'
        <4>1. todo' \in Seq([mode : Mode, from : Nat, to : Nat])
          BY <3>1, SMT
        <4> QED
          BY <1>u, <1>t, <1>2, <4>1 DEF TypeOK
      <3>4. Runs' /\ Disjoint'
        <4>1. 1 .. Len(todo') = {}
          BY <3>1, SMT
        <4> QED
          BY <4>1 DEF Runs, Disjoint
      <3>5. Covered'
        <4>1. n = 0 => a .. a + n - 1 = {}
          BY SMT
        <4> QED
          BY <1>u, <3>2, <4>1 DEF Covered, Area
      <3> QED
        BY <1>u, <1>2, <3>3, <3>4, <3>5 DEF IInv, ErasesOnlyArea, ErasesArea
    <2> QED
      BY <2>1, <2>2, <2>3, <2>4
  <1> QED
    BY <1>1, <1>2 DEF Begin

LEMMA Element ==
  ASSUME NEW S, NEW s \in Seq(S), NEW i \in 1 .. Len(s) PROVE s[i] \in S
  BY SMT

\* The first run, while there is one.
LEMMA First ==
  ASSUME IInv, Busy
  PROVE  /\ TypeOK /\ Runs /\ Disjoint /\ Covered /\ ret = "none"
         /\ Len(todo) \in Nat /\ 1 \in 1 .. Len(todo)
         /\ todo[1] \in [mode : Mode, from : Nat, to : Nat]
         /\ \A i \in 1 .. Len(todo) : todo[i] \in [mode : Mode, from : Nat, to : Nat]
  <1>1. TypeOK /\ Runs /\ Disjoint /\ Covered /\ ret = "none" /\ todo # << >>
    BY DEF IInv, Busy
  <1>2. Len(todo) \in Nat /\ 1 \in 1 .. Len(todo)
    BY <1>1, SMT DEF TypeOK
  <1>3. \A i \in 1 .. Len(todo) : todo[i] \in [mode : Mode, from : Nat, to : Nat]
    BY <1>1, Element DEF TypeOK
  <1> QED
    BY <1>1, <1>2, <1>3

LEMMA RejectRunInv == IInv /\ RejectRun => IInv'
  BY DEF RejectRun, IInv, TypeOK, ErasesOnlyArea, ErasesArea, Area

LEMMA EraseTimeoutInv == IInv /\ EraseTimeout => IInv'
  BY DEF EraseTimeout, IInv, TypeOK, ErasesOnlyArea, ErasesArea, Area

LEMMA ReturnInv == IInv /\ Return => IInv'
  <1> SUFFICES ASSUME IInv, Return PROVE IInv'
    OBVIOUS
  <1>1. TypeOK' /\ ErasesOnlyArea' /\ ret' = "ok"
    BY DEF Return, IInv, TypeOK, ErasesOnlyArea, Area
  <1>2. Usable /\ ~lost => Area \subseteq erased
    <2>1. 1 .. Len(todo) = {}
      BY SMT DEF Return
    <2> QED
      BY <2>1 DEF Return, IInv, Covered
  <1>3. Usable => ErasesArea'
    BY <1>2 DEF Return, ErasesArea, Area
  <1> QED
    BY <1>1, <1>3 DEF IInv

LEMMA RewrittenInv == IInv /\ Rewritten => IInv'
  <1> SUFFICES ASSUME IInv, Rewritten PROVE IInv'
    OBVIOUS
  <1>u. /\ modes' = modes /\ addr' = 0 /\ size' = 0 /\ todo' = << >>
        /\ erased' = {} /\ ret' = "ok" /\ lost' = FALSE
    BY DEF Rewritten
  <1>1. addr' .. addr' + size' - 1 = {}
    BY <1>u, SMT
  <1>2. todo' \in Seq([mode : Mode, from : Nat, to : Nat])
    BY <1>u, SMT
  <1> QED
    BY <1>u, <1>1, <1>2 DEF IInv, TypeOK, ErasesOnlyArea, ErasesArea, Area

LEMMA NextRunInv == IInv /\ NextRun => IInv'
  <1> SUFFICES ASSUME IInv, NextRun PROVE IInv'
    OBVIOUS
  <1>u. /\ modes' = modes /\ addr' = addr /\ size' = size /\ erased' = erased
        /\ ret' = ret /\ lost' = lost /\ todo' = Tail(todo) /\ Busy
        /\ todo[1].from = todo[1].to
    BY DEF NextRun
  <1>f. /\ TypeOK /\ Runs /\ Disjoint /\ Covered /\ ret = "none"
        /\ Len(todo) \in Nat /\ 1 \in 1 .. Len(todo)
        /\ todo[1] \in [mode : Mode, from : Nat, to : Nat]
        /\ todo \in Seq([mode : Mode, from : Nat, to : Nat])
    BY <1>u, First DEF TypeOK
  <1>s. /\ Len(todo') = Len(todo) - 1
        /\ \A i \in 1 .. Len(todo') : i + 1 \in 1 .. Len(todo) /\ todo'[i] = todo[i + 1]
        /\ \A i \in 1 .. Len(todo) : i = 1 \/ (i - 1 \in 1 .. Len(todo') /\ todo'[i - 1] = todo[i])
        /\ todo' \in Seq([mode : Mode, from : Nat, to : Nat])
    BY <1>u, <1>f, SMT DEF Busy
  <1>1. TypeOK'
    BY <1>u, <1>f, <1>s DEF TypeOK
  <1>2. Runs'
    BY <1>u, <1>f, <1>s DEF Runs, Aligned, Units
  <1>3. Disjoint'
    <2>1. \A i, j \in 1 .. Len(todo') : i # j => i + 1 # j + 1
      BY SMT
    <2> QED
      BY <1>f, <1>s, <2>1 DEF Disjoint
  <1>4. Covered'
    <2>1. \A u : u \notin Units(todo[1])
      BY <1>u, <1>f, SMT DEF Units
    <2> SUFFICES ASSUME Usable, ~lost, NEW u \in Area
                 PROVE u \in erased \/ \E i \in 1 .. Len(todo') : u \in Units(todo'[i])
      BY <1>u DEF Covered, Area, Units
    <2>2. CASE u \in erased
      BY <2>2
    <2>3. ASSUME NEW i \in 1 .. Len(todo), u \in Units(todo[i])
          PROVE \E k \in 1 .. Len(todo') : u \in Units(todo'[k])
      BY <1>s, <2>1, <2>3
    <2> QED
      BY <1>f, <2>2, <2>3 DEF Covered
  <1> QED
    BY <1>u, <1>f, <1>1, <1>2, <1>3, <1>4 DEF IInv, ErasesOnlyArea, ErasesArea, Area

\* A block of the first run: it does not reach beyond the run's end, and the
\* run is shorter by it.
LEMMA Advance ==
  ASSUME IInv, EraseBlock
  PROVE  LET b == todo[1]
             T == [mode : Mode, from : Nat, to : Nat]
         IN /\ b.from \in Nat /\ b.to \in Nat /\ b.mode \in {2, 16, 32}
            /\ b.from + b.mode <= b.to /\ addr <= b.from /\ b.to <= addr + size
            /\ addr \in Nat /\ size \in Nat
            /\ todo'[1] = [mode |-> b.mode, from |-> b.from + b.mode, to |-> b.to]
            /\ \A i \in 1 .. Len(todo) : i # 1 => todo'[i] = todo[i]
            /\ Len(todo') = Len(todo)
            /\ todo' \in Seq(T)
  <1> DEFINE b == todo[1]
             T == [mode : Mode, from : Nat, to : Nat]
  <1>u. /\ todo' = [todo EXCEPT ![1].from = @ + b.mode] /\ Busy
        /\ b.from # b.to
    BY DEF EraseBlock
  <1>f. /\ TypeOK /\ Runs /\ Len(todo) \in Nat /\ 1 \in 1 .. Len(todo) /\ b \in T
        /\ \A i \in 1 .. Len(todo) : todo[i] \in T
        /\ todo \in Seq(T)
    BY <1>u, First DEF TypeOK
  <1>m. /\ b.from \in Nat /\ b.to \in Nat /\ b.mode \in {2, 16, 32}
        /\ b.from + b.mode <= b.to /\ addr <= b.from /\ b.to <= addr + size
        /\ addr \in Nat /\ size \in Nat
    <2>1. b.from \in Nat /\ b.to \in Nat /\ b.mode \in {2, 16, 32} /\ b.from <= b.to
      BY <1>f, Sizes DEF Runs
    <2>2. b.from % b.mode = 0 /\ b.to % b.mode = 0
      BY <1>f DEF Runs, Aligned
    <2>3. b.from + b.mode <= b.to
      <3>1. CASE b.mode = 2
        BY <1>u, <2>1, <2>2, <3>1, SMT
      <3>2. CASE b.mode = 16
        BY <1>u, <2>1, <2>2, <3>2, SMT
      <3>3. CASE b.mode = 32
        BY <1>u, <2>1, <2>2, <3>3, SMT
      <3> QED
        BY <2>1, <3>1, <3>2, <3>3
    <2> QED
      BY <1>f, <2>1, <2>3 DEF Runs, TypeOK
  <1>s. /\ todo'[1] = [mode |-> b.mode, from |-> b.from + b.mode, to |-> b.to]
        /\ \A i \in 1 .. Len(todo) : i # 1 => todo'[i] = todo[i]
        /\ Len(todo') = Len(todo)
        /\ todo' \in Seq(T)
    <2>1. [b EXCEPT !.from = @ + b.mode]
            = [mode |-> b.mode, from |-> b.from + b.mode, to |-> b.to]
      BY <1>f
    <2>2. [b EXCEPT !.from = @ + b.mode] \in T
      <3>1. b.from + b.mode \in Nat
        BY <1>m, SMT
      <3> QED
        BY <1>f, <2>1, <3>1
    <2>3. todo' = [todo EXCEPT ![1] = [b EXCEPT !.from = @ + b.mode]]
      BY <1>u
    <2> HIDE DEF T, b
    <2>4. DOMAIN todo = 1 .. Len(todo)
      BY <1>f, SMT
    <2>5. todo' \in Seq(T) /\ Len(todo') = Len(todo)
      BY <1>f, <2>2, <2>3, SMT
    <2> QED
      BY <1>f, <2>1, <2>3, <2>4, <2>5
  <1> QED
    BY <1>m, <1>s

LEMMA EraseBlockInv == IInv /\ EraseBlock => IInv' /\ Block \cap erased = {}
  <1> SUFFICES ASSUME IInv, EraseBlock PROVE IInv' /\ Block \cap erased = {}
    OBVIOUS
  <1> DEFINE b == todo[1]
             T == [mode : Mode, from : Nat, to : Nat]
  <1>u. /\ modes' = modes /\ addr' = addr /\ size' = size /\ ret' = ret
        /\ todo' = [todo EXCEPT ![1].from = @ + b.mode] /\ Busy
        /\ b.from # b.to /\ b.to <= ChipSize
        /\ \/ /\ erased' = (IF b.mode \in modes THEN erased \cup Block ELSE erased)
              /\ lost' = lost
           \/ erased' = erased /\ lost' = TRUE
    BY DEF EraseBlock
  <1>f. /\ TypeOK /\ Runs /\ Disjoint /\ Covered /\ ret = "none"
        /\ Len(todo) \in Nat /\ 1 \in 1 .. Len(todo) /\ b \in T
        /\ \A i \in 1 .. Len(todo) : todo[i] \in T
        /\ todo \in Seq(T)
    BY <1>u, First DEF TypeOK
  <1>m. /\ b.from \in Nat /\ b.to \in Nat /\ b.mode \in {2, 16, 32}
        /\ b.from + b.mode <= b.to /\ addr <= b.from /\ b.to <= addr + size
        /\ addr \in Nat /\ size \in Nat
    BY Advance
  <1>s. /\ todo'[1] = [mode |-> b.mode, from |-> b.from + b.mode, to |-> b.to]
        /\ \A i \in 1 .. Len(todo) : i # 1 => todo'[i] = todo[i]
        /\ Len(todo') = Len(todo)
        /\ todo' \in Seq(T)
    BY Advance
  <1> HIDE DEF b, T
  <1>b. Block = b.from .. b.from + b.mode - 1
    BY DEF Block, b
  <1>c. /\ Block \subseteq Area /\ Block \subseteq 0 .. ChipSize - 1
        /\ Block \subseteq Units(b)
        /\ \A u \in Units(b) : u \in Block \/ u \in Units(todo'[1])
        /\ \A u \in Units(todo'[1]) : u \in Units(b) /\ u \notin Block
    <2>1. ChipSize \in Nat
      BY ChipAssumption
    <2>2. Units(todo'[1]) = b.from + b.mode .. b.to - 1
      BY <1>s DEF Units
    <2>3. Units(b) = b.from .. b.to - 1
      BY DEF Units
    <2>4. b.to <= ChipSize
      BY <1>u
    <2>6. b.mode \in Nat
      BY <1>m, SMT
    <2>7. b.from .. b.from + b.mode - 1 \subseteq addr .. addr + size - 1
      BY <1>m, <2>6, SMT
    <2>8. b.from .. b.from + b.mode - 1 \subseteq 0 .. ChipSize - 1
      BY <1>m, <2>1, <2>4, <2>6, SMT
    <2>9. b.from .. b.from + b.mode - 1 \subseteq b.from .. b.to - 1
      BY <1>m, <2>6, SMT
    <2>10. /\ \A u \in b.from .. b.to - 1 :
                u \in b.from .. b.from + b.mode - 1 \/ u \in b.from + b.mode .. b.to - 1
           /\ \A u \in b.from + b.mode .. b.to - 1 :
                u \in b.from .. b.to - 1 /\ u \notin b.from .. b.from + b.mode - 1
      BY <1>m, <2>6, SMT
    <2> QED
      BY <1>b, <2>2, <2>3, <2>7, <2>8, <2>9, <2>10 DEF Area
  <1>d. \A i \in 1 .. Len(todo) : i # 1 => \A u \in Units(todo[i]) : u \notin Block
    <2> SUFFICES ASSUME NEW i \in 1 .. Len(todo), i # 1, NEW u \in Units(todo[i])
                 PROVE u \notin Block
      OBVIOUS
    <2>1. todo[i].to <= b.from \/ b.to <= todo[i].from
      BY <1>f DEF Disjoint, b
    <2>2. todo[i].from \in Nat /\ todo[i].to \in Nat
      BY <1>f DEF T
    <2>3. u \in todo[i].from .. todo[i].to - 1
      BY DEF Units
    <2>4. \A f, t, m, x, y \in Nat : f + m <= t /\ (y <= f \/ t <= x) =>
             \A w \in x .. y - 1 : w \notin f .. f + m - 1
      BY SMT
    <2>5. b.mode \in Nat
      BY <1>m, SMT
    <2> QED
      BY <1>m, <1>b, <2>1, <2>2, <2>3, <2>4, <2>5
  <1>e. Block \cap erased = {}
    BY <1>c, <1>f DEF Runs, b
  <1>1. TypeOK'
    BY <1>u, <1>f, <1>s, <1>c DEF TypeOK, T
  <1>2. ErasesOnlyArea'
    BY <1>u, <1>c DEF IInv, ErasesOnlyArea, Area
  <1>3. Runs'
    <2> SUFFICES ASSUME NEW i \in 1 .. Len(todo)
                 PROVE /\ Aligned(todo'[i])
                       /\ todo'[i].from <= todo'[i].to
                       /\ addr <= todo'[i].from /\ todo'[i].to <= addr + size
                       /\ Usable => todo'[i].mode \in modes
                       /\ \A u \in Units(todo'[i]) : u \notin erased'
      BY <1>u, <1>s DEF Runs, Aligned, Units
    <2>1. CASE i # 1
      <3>1. todo'[i] = todo[i]
        BY <1>s, <2>1
      <3>2. \A u \in Units(todo[i]) : u \notin erased /\ u \notin Block
        BY <1>f, <1>d, <2>1 DEF Runs
      <3> QED
        BY <1>f, <1>u, <3>1, <3>2 DEF Runs
    <2>2. CASE i = 1
      <3>1. /\ todo'[1].mode = b.mode /\ todo'[1].from = b.from + b.mode
            /\ todo'[1].to = b.to
        BY <1>s
      <3>2. Aligned(todo'[1])
        <4>1. b.from % b.mode = 0 /\ b.to % b.mode = 0 /\ b.mode \in Mode
          BY <1>f DEF Runs, Aligned, b
        <4>2. (b.from + b.mode) % b.mode = 0
          <5>1. CASE b.mode = 2
            BY <1>m, <4>1, <5>1, SMT
          <5>2. CASE b.mode = 16
            BY <1>m, <4>1, <5>2, SMT
          <5>3. CASE b.mode = 32
            BY <1>m, <4>1, <5>3, SMT
          <5> QED
            BY <1>m, <5>1, <5>2, <5>3
        <4> QED
          BY <3>1, <4>1, <4>2 DEF Aligned
      <3>3. \A u \in Units(todo'[1]) : u \notin erased /\ u \notin Block
        BY <1>f, <1>c DEF Runs, b
      <3>4. Usable => b.mode \in modes
        BY <1>f DEF Runs, b
      <3>5. /\ todo'[1].from <= todo'[1].to
            /\ addr <= todo'[1].from /\ todo'[1].to <= addr + size
        BY <1>m, <3>1, SMT
      <3> QED
        BY <1>u, <2>2, <3>1, <3>2, <3>3, <3>4, <3>5
    <2> QED
      BY <2>1, <2>2
  <1>4. Disjoint'
    <2> SUFFICES ASSUME NEW i \in 1 .. Len(todo), NEW j \in 1 .. Len(todo), i # j
                 PROVE todo'[i].to <= todo'[j].from \/ todo'[j].to <= todo'[i].from
      BY <1>s DEF Disjoint
    <2>1. todo[i].to <= todo[j].from \/ todo[j].to <= todo[i].from
      BY <1>f DEF Disjoint
    <2>2. \A k \in 1 .. Len(todo) : todo[k].from \in Nat /\ todo[k].to \in Nat
      BY <1>f DEF T
    <2>3. \A k \in 1 .. Len(todo) :
             todo'[k].to = todo[k].to /\ todo'[k].from >= todo[k].from
             /\ todo'[k].from \in Nat
      <3> SUFFICES ASSUME NEW k \in 1 .. Len(todo)
                   PROVE todo'[k].to = todo[k].to /\ todo'[k].from >= todo[k].from
                         /\ todo'[k].from \in Nat
        OBVIOUS
      <3>1. CASE k # 1
        BY <1>s, <2>2, <3>1, SMT
      <3>2. CASE k = 1
        <4>1. todo'[1].from = b.from + b.mode /\ todo'[1].to = b.to
          BY <1>s
        <4> QED
          BY <1>m, <3>2, <4>1, SMT DEF b
      <3> QED
        BY <3>1, <3>2
    <2> QED
      BY <2>1, <2>2, <2>3, SMT
  <1>5. Covered'
    <2> SUFFICES ASSUME Usable, ~lost', NEW u \in Area
                 PROVE u \in erased' \/ \E i \in 1 .. Len(todo) : u \in Units(todo'[i])
      BY <1>u, <1>s DEF Covered, Area, Units
    <2>1. b.mode \in modes /\ erased' = erased \cup Block /\ ~lost
      BY <1>u, <1>f DEF Runs, b
    <2>2. u \in erased \/ \E i \in 1 .. Len(todo) : u \in Units(todo[i])
      BY <1>f, <2>1 DEF Covered
    <2> QED
      BY <1>f, <1>s, <1>c, <2>1, <2>2 DEF b
  <1> QED
    BY <1>u, <1>f, <1>e, <1>1, <1>2, <1>3, <1>4, <1>5 DEF IInv, ErasesArea

LEMMA NextInv == IInv /\ [Next]_vars => IInv'
  <1> SUFFICES ASSUME IInv, [Next]_vars PROVE IInv'
    OBVIOUS
  <1>1. ASSUME NEW a \in 0 .. MaxStart, NEW n \in 0 .. MaxEnd - a, Begin(a, n)
        PROVE  IInv'
    <2>1. a \in Nat /\ n \in Nat
      BY BoundAssumption, SMT
    <2> QED
      BY <1>1, <2>1, BeginInv
  <1>2. CASE UNCHANGED vars
    BY <1>2 DEF vars, IInv, TypeOK, ErasesOnlyArea, ErasesArea, Area, Runs, Disjoint,
       Covered, Aligned, Units
  <1> QED
    BY <1>1, <1>2, RejectRunInv, EraseBlockInv, EraseTimeoutInv, NextRunInv, ReturnInv,
       RewrittenInv DEF Next

\* flash_erase works through disjoint runs of whole blocks that make up the
\* area: the inductive invariant.
THEOREM Invariant == Spec => []IInv
  BY InitInv, NextInv, PTL DEF Spec

\* The variables keep their types; no erase reaches beyond the chip.
THEOREM TypeCorrect == Spec => []TypeOK
  <1>1. IInv => TypeOK
    BY DEF IInv
  <1> QED
    BY <1>1, Invariant, PTL

\* flash_erase: success means that all of the area is erased, on every chip
\* that erases by 4 KB, and by 32 KB if it does so by 64 KB.
THEOREM Erases == ASSUME Usable PROVE Spec => []ErasesArea
  <1>1. IInv => ErasesArea
    BY DEF IInv
  <1> QED
    BY <1>1, Invariant, PTL

\* flash_erase: whatever the chip and the outcome, nothing outside the area
\* is erased.
THEOREM ErasesNothingElse == Spec => []ErasesOnlyArea
  <1>1. IInv => ErasesOnlyArea
    BY DEF IInv
  <1> QED
    BY <1>1, Invariant, PTL

\* flash_erase: the runs of an aligned area inside the chip pass the checks
\* of HAL_Flash_Erase, for every offset and length.
THEOREM NeverRefused == Spec => []RunsFit
  <1>1. IInv => RunsFit
    <2> SUFFICES ASSUME IInv, ret = "none", addr + size <= ChipSize,
                        NEW i \in 1 .. Len(todo)
                 PROVE /\ todo[i].from % todo[i].mode = 0 /\ todo[i].to % todo[i].mode = 0
                       /\ todo[i].from <= todo[i].to /\ todo[i].to <= ChipSize
      BY DEF RunsFit
    <2>1. /\ todo[i].from % todo[i].mode = 0 /\ todo[i].to % todo[i].mode = 0
          /\ todo[i].from <= todo[i].to /\ todo[i].to <= addr + size
      BY DEF IInv, Runs, Aligned
    <2>2. todo[i].to \in Nat /\ addr \in Nat /\ size \in Nat /\ ChipSize \in Nat
      <3>1. todo[i] \in [mode : Mode, from : Nat, to : Nat]
        BY Element DEF IInv, TypeOK
      <3> QED
        BY <3>1, ChipAssumption DEF IInv, TypeOK
    <2> QED
      BY <2>1, <2>2, SMT
  <1> QED
    BY <1>1, Invariant, PTL

\* flash_erase, HAL_Flash_Erase: no block is erased twice in one call.
THEOREM WearsOnce == Spec => NoBlockTwice
  <1>1. IInv /\ [Next]_vars => [EraseBlock => Block \cap erased = {}]_vars
    BY EraseBlockInv
  <1> QED
    BY <1>1, Invariant, PTL DEF Spec, NoBlockTwice

\* flash_erase, HAL_Flash_Erase: a call ends.  Its loops count runs and blocks
\* down, and no run is passed by a block that does not end with it.
THEOREM CallEnds == Spec => CallDescends
  <1> DEFINE Less == \/ Len(todo') < Len(todo)
                     \/ Len(todo') = Len(todo) /\ RunLeft' < RunLeft /\ RunLeft' >= 0
  <1>1. ASSUME IInv, EraseBlock PROVE Less
    <2> DEFINE b == todo[1]
    <2>1. /\ b.from \in Nat /\ b.to \in Nat /\ b.mode \in {2, 16, 32} /\ b.from + b.mode <= b.to
          /\ todo'[1] = [mode |-> b.mode, from |-> b.from + b.mode, to |-> b.to]
          /\ Len(todo') = Len(todo)
      BY <1>1, Advance
    <2>2. todo # << >> /\ todo' # << >>
      <3>1. Busy
        BY <1>1 DEF EraseBlock
      <3>2. Len(todo') # 0
        BY <1>1, <2>1, <3>1, First, SMT
      <3> QED
        BY <3>1, <3>2, SMT DEF Busy
    <2>3. RunLeft = b.to - b.from /\ RunLeft' = b.to - (b.from + b.mode)
      BY <2>1, <2>2 DEF RunLeft
    <2> HIDE DEF b
    <2>4. b.to - (b.from + b.mode) < b.to - b.from /\ b.to - (b.from + b.mode) >= 0
      BY <2>1, SMT
    <2> QED
      BY <2>1, <2>3, <2>4
  <1>2. ASSUME IInv, NextRun PROVE Less
    <2>1. todo \in Seq([mode : Mode, from : Nat, to : Nat]) /\ todo # << >> /\ todo' = Tail(todo)
      BY <1>2 DEF NextRun, Busy, IInv, TypeOK
    <2>2. Len(todo') < Len(todo)
      BY <2>1, SMT
    <2> QED
      BY <2>2
  <1> HIDE DEF Less
  <1>3. IInv /\ [Next]_vars => [ret = "none" /\ ret' = "none" => Less]_vars
    <2> SUFFICES ASSUME IInv, Next, ret = "none", ret' = "none" PROVE Less
      OBVIOUS
    <2>1. \A a, n : ~Begin(a, n)
      BY DEF Begin
    <2>2. ~RejectRun /\ ~EraseTimeout /\ ~Return /\ ~Rewritten
      BY DEF RejectRun, EraseTimeout, Return, Rewritten
    <2> QED
      BY <1>1, <1>2, <2>1, <2>2 DEF Next
  <1> QED
    BY <1>3, Invariant, PTL DEF Spec, CallDescends, Less
=============================================================================
