--------------------------- MODULE ConsoleProofs ---------------------------
(***************************************************************************)
(* Proofs about Console, for every number and length of buffers.           *)
(*                                                                         *)
(* The inductive invariant sees the buffers as a ring that begins behind   *)
(* the last executed command: first the one being executed, then the ready *)
(* ones in the order they were filled, the one being received, and the     *)
(* free ones (Ring).  Each buffer is in one place (Owned), so the search   *)
(* of console_get_valid_buf_idx always ends at its first step.  Only the   *)
(* contents of the lines suffer when a buffer is overrun (Hanged).         *)
(***************************************************************************)
EXTENDS Console, FiniteSetTheorems, SequenceTheorems, TLAPS

Live == state # "stop" \/ ctl \notin {"idle", "failed"}

Phases ==
  /\ ctl \in {"starting", "failed"} => state = "stop"
  /\ state = "terminate" <=> ctl = "stopping"
  /\ state = "terminate" => ~rxOn
  /\ ~Live => pc = "none" /\ ~rxOn
  /\ pc = "exec" <=> cmd # None

Owned ==
  /\ free \cap ready = {}
  /\ rx \notin free /\ rx \notin ready /\ cmd \notin free /\ cmd \notin ready
  /\ cmd # None => cmd # rx
  /\ rx = None => free = {}
  /\ Live => \A b \in Buf : b \in free \/ b \in ready \/ b = rx \/ b = cmd

Tokens ==
  pc # "none" => Cardinality(ready) + (IF state = "terminate" THEN 1 ELSE 0)
                   = sem + (IF pc = "woken" THEN 1 ELSE 0)

D(b) == Dist(last, b)

Ring ==
  /\ cmd # None => D(cmd) = 0
  /\ \A b \in ready, c \in free : D(b) < D(c)
  /\ rx # None => /\ \A b \in ready : D(b) < D(rx)
                  /\ \A c \in free : D(rx) < D(c)

Queue ==
  /\ \A b \in ready : \E i \in 1 .. Len(order) : order[i] = b
  /\ \A i \in 1 .. Len(order) : order[i] \in ready
  /\ \A i, j \in 1 .. Len(order) : i < j => D(order[i]) < D(order[j])

Kept ==
  /\ \A b \in free : text[b] = << >> /\ echo[b] = << >> /\ b \notin odd
  /\ \A b \in Buf : (b \in ready \/ b = cmd) /\ b \notin odd => text[b] = echo[b]
  /\ rx # None => /\ Len(echo[rx]) = cnt /\ cnt <= Len(text[rx])
                  /\ rx \notin odd => SubSeq(text[rx], 1, cnt) = echo[rx]

Good == TypeOK /\ Phases /\ Owned /\ Tokens /\ Ring /\ Queue /\ Kept /\ ~hung

\* What is left of Kept when the interrupt has overrun the buffer.
Hanged ==
  /\ rxOn /\ rx \in odd
  /\ \A b \in Buf : (b \in ready \/ b = cmd) /\ b \notin odd => text[b] = echo[b] \/ Spoilt(b)

Inv == \/ Good
       \/ hung /\ TypeOK /\ Phases /\ Owned /\ Tokens /\ Ring /\ Queue /\ Hanged

-----------------------------------------------------------------------------
(* The ring *)

LEMMA BufNat == \A b \in Buf : b \in Nat
  BY NumBufAssumption DEF Buf

\* Distances tell the buffers apart.
LEMMA DistProps ==
  ASSUME NEW i \in Buf, NEW b \in Buf, NEW c \in Buf
  PROVE  /\ Dist(i, b) \in Buf
         /\ Dist(i, b) = Dist(i, c) => b = c
  BY NumBufAssumption DEF Dist, Buf

\* Executing the first of the ring puts it behind the others.
LEMMA DistTurn ==
  ASSUME NEW i \in Buf, NEW b \in Buf, NEW c \in Buf, Dist(i, b) = 0
  PROVE  /\ Dist(b, b) = NumBuf - 1
         /\ c # b => Dist(b, c) = Dist(i, c) - 1
  BY NumBufAssumption DEF Dist, Buf

Succ(i) == IF i = NumBuf - 1 THEN 0 ELSE i + 1

\* The next buffer is the first the search looks at.
LEMMA SuccProps ==
  ASSUME NEW l \in Buf, NEW i \in Buf
  PROVE  /\ Succ(i) \in Buf /\ Dist(i, Succ(i)) = 0
         /\ Dist(l, i) < NumBuf - 1 => Dist(l, Succ(i)) = Dist(l, i) + 1
  BY NumBufAssumption DEF Dist, Buf, Succ

\* The search finds the nearest.
LEMMA PickNearest ==
  ASSUME NEW S \in SUBSET Buf, NEW i \in Buf, NEW m \in S,
         \A c \in S : Dist(i, m) <= Dist(i, c)
  PROVE  Pick(S, i) = m
<1>1. Pick(S, i) \in S /\ \A c \in S : Dist(i, Pick(S, i)) <= Dist(i, c)
  BY DEF Pick
<1>2. Dist(i, m) \in Int /\ Dist(i, Pick(S, i)) \in Int
  <2>1. Dist(i, m) \in Buf /\ Dist(i, Pick(S, i)) \in Buf
    BY <1>1, DistProps
  <2> QED BY <2>1, BufNat
<1>3. Dist(i, Pick(S, i)) = Dist(i, m)
  BY <1>1, <1>2
<1> QED BY <1>1, <1>3, DistProps

\* Nothing lies between the buffer being received and the free ones.
LEMMA NextFree ==
  ASSUME Good, Live, rx # None, free # {}
  PROVE  /\ Succ(rx) \in free /\ Pick(free, rx) = Succ(rx)
         /\ \A c \in free : c # Succ(rx) => D(Succ(rx)) < D(c)
<1>t. /\ last \in Buf /\ rx \in Buf /\ free \in SUBSET Buf /\ ready \in SUBSET Buf
      /\ cmd \in Buf \cup {None}
  BY DEF Good, TypeOK
<1>1. PICK f \in free : TRUE
  OBVIOUS
<1>2. D(rx) < D(f) /\ D(f) \in Buf /\ D(rx) \in Buf
  BY <1>t, <1>1, DistProps DEF Good, Ring, D
<1>3. D(rx) < NumBuf - 1
  BY <1>2, NumBufAssumption DEF Buf
<1>4. Succ(rx) \in Buf /\ D(Succ(rx)) = D(rx) + 1 /\ Dist(rx, Succ(rx)) = 0
  BY <1>t, <1>3, SuccProps DEF D
<1>5. Succ(rx) \notin ready
  <2>1. ASSUME Succ(rx) \in ready PROVE FALSE
    <3>1. D(Succ(rx)) < D(rx)
      BY <2>1 DEF Good, Ring
    <3> QED BY <3>1, <1>4, <1>2, NumBufAssumption DEF Buf
  <2> QED BY <2>1
<1>6. Succ(rx) # cmd
  <2>1. ASSUME Succ(rx) = cmd PROVE FALSE
    <3>1. D(cmd) = 0
      BY <2>1, <1>4, NumBufAssumption DEF Good, Ring, None, Buf
    <3> QED BY <3>1, <2>1, <1>4, <1>2, NumBufAssumption DEF Buf
  <2> QED BY <2>1
<1>7. Succ(rx) # rx
  BY <1>4, <1>2, NumBufAssumption DEF Buf
<1>8. Succ(rx) \in free
  BY <1>4, <1>5, <1>6, <1>7 DEF Good, Owned
<1>9. \A c \in free : Dist(rx, Succ(rx)) <= Dist(rx, c)
  <2> TAKE c \in free
  <2>1. Dist(rx, c) \in Buf
    BY <1>t, DistProps
  <2> QED BY <2>1, <1>4, NumBufAssumption DEF Buf
<1>10. ASSUME NEW c \in free, c # Succ(rx) PROVE D(Succ(rx)) < D(c)
  <2>1. D(rx) < D(c)
    BY DEF Good, Ring
  <2>2. D(c) \in Buf /\ D(c) # D(Succ(rx))
    BY <1>t, <1>4, <1>10, DistProps DEF D
  <2>3. D(c) \in Nat /\ D(rx) \in Nat
    BY <2>2, <1>2, BufNat
  <2> QED BY <2>1, <2>2, <2>3, <1>4
<1>11. Pick(free, rx) = Succ(rx)
  BY <1>8, <1>9, <1>t, PickNearest
<1> QED BY <1>8, <1>10, <1>11

\* The command taken is the oldest, and the first of the ring.
LEMMA Oldest ==
  ASSUME Good, Live, ready # {}, cmd = None
  PROVE  /\ order # << >> /\ Head(order) \in ready
         /\ Pick(ready, last) = Head(order) /\ D(Head(order)) = 0
<1>t. /\ last \in Buf /\ rx \in Buf \cup {None} /\ free \in SUBSET Buf /\ ready \in SUBSET Buf
      /\ order \in Seq(Buf) /\ Len(order) \in Nat
  BY DEF Good, TypeOK
<1>q. Queue
  BY DEF Good
<1>1. order # << >> /\ 1 \in 1 .. Len(order)
  BY <1>t, <1>q DEF Queue
<1>2. Head(order) = order[1] /\ order[1] \in ready
  BY <1>1, <1>t, <1>q DEF Queue
<1>3. \A b \in ready : D(order[1]) <= D(b)
  <2> TAKE b \in ready
  <2>1. PICK i \in 1 .. Len(order) : order[i] = b
    BY <1>q DEF Queue
  <2>2. D(order[1]) \in Int /\ D(b) \in Int
    <3>1. D(order[1]) \in Buf /\ D(b) \in Buf
      BY <1>2, <1>t, DistProps DEF D
    <3> QED BY <3>1, BufNat
  <2>3. i = 1 \/ 1 < i
    BY <2>1
  <2>4. CASE i = 1
    BY <2>1, <2>2, <2>4
  <2>5. CASE 1 < i
    <3>1. D(order[1]) < D(order[i])
      BY <2>5, <1>1, <1>q DEF Queue
    <3> QED BY <3>1, <2>1, <2>2
  <2> QED BY <2>3, <2>4, <2>5
<1>4. Pick(ready, last) = order[1]
  BY <1>2, <1>3, <1>t, PickNearest DEF D
<1>5. Succ(last) \in Buf /\ D(Succ(last)) = 0
  BY <1>t, SuccProps DEF D
<1>6. D(order[1]) \in Nat
  <2>1. D(order[1]) \in Buf
    BY <1>2, <1>t, DistProps DEF D
  <2> QED BY <2>1, BufNat
<1>7. Succ(last) \in ready
  <2>n. None \notin Buf
    BY NumBufAssumption DEF Buf, None
  <2>1. Succ(last) \in free \/ Succ(last) \in ready \/ Succ(last) = rx
    BY <1>5, <2>n DEF Good, Owned
  <2>2. Succ(last) \in free => D(order[1]) < D(Succ(last))
    BY <1>2 DEF Good, Ring
  <2>3. Succ(last) = rx => D(order[1]) < D(Succ(last))
    BY <1>2, <1>5, <2>n DEF Good, Ring
  <2>4. ~(D(order[1]) < D(Succ(last)))
    BY <1>5, <1>6
  <2> QED BY <2>1, <2>2, <2>3, <2>4
<1>8. D(order[1]) = 0
  BY <1>7, <1>3, <1>5, <1>6
<1> QED BY <1>1, <1>2, <1>4, <1>8

-----------------------------------------------------------------------------
(* What the steps keep *)

\* A prefix of a line.
LEMMA Prefix ==
  ASSUME NEW s \in Seq(Char), NEW n \in 0 .. Len(s)
  PROVE  /\ SubSeq(s, 1, n) \in Seq(Char) /\ Len(SubSeq(s, 1, n)) = n
         /\ \A i \in 1 .. n : SubSeq(s, 1, n)[i] = s[i]
<1>1. \A i \in 1 .. n : s[i] \in Char
  OBVIOUS
<1>2. Len(SubSeq(s, 1, n)) = IF 1 <= n THEN n - 1 + 1 ELSE 0
  BY <1>1, SubSeqProperties
<1>3. \A i \in 1 .. n - 1 + 1 : SubSeq(s, 1, n)[i] = s[1 + i - 1]
  BY <1>1, SubSeqProperties
<1>4. SubSeq(s, 1, n) \in Seq(Char)
  BY <1>1, SubSeqProperties
<1> QED BY <1>2, <1>3, <1>4

\* A prefix of a prefix.
LEMMA PrefixOf ==
  ASSUME NEW s \in Seq(Char), NEW n \in 0 .. Len(s), NEW m \in 0 .. n
  PROVE  SubSeq(SubSeq(s, 1, n), 1, m) = SubSeq(s, 1, m)
<1> DEFINE p == SubSeq(s, 1, n)
<1>1. p \in Seq(Char) /\ Len(p) = n /\ \A i \in 1 .. n : p[i] = s[i]
  BY Prefix
<1> HIDE DEF p
<1>2. m \in 0 .. Len(p) /\ m \in 0 .. Len(s)
  BY <1>1
<1>3. /\ SubSeq(p, 1, m) \in Seq(Char) /\ Len(SubSeq(p, 1, m)) = m
      /\ \A i \in 1 .. m : SubSeq(p, 1, m)[i] = p[i]
  BY <1>1, <1>2, Prefix
<1>4. /\ SubSeq(s, 1, m) \in Seq(Char) /\ Len(SubSeq(s, 1, m)) = m
      /\ \A i \in 1 .. m : SubSeq(s, 1, m)[i] = s[i]
  BY <1>2, Prefix
<1>5. \A i \in 1 .. m : p[i] = s[i]
  BY <1>1
<1>6. SubSeq(p, 1, m) = SubSeq(s, 1, m)
  BY <1>3, <1>4, <1>5
<1> QED BY <1>6 DEF p

\* A character behind a prefix.
LEMMA PrefixAppend ==
  ASSUME NEW s \in Seq(Char), NEW n \in 0 .. Len(s), NEW c \in Char
  PROVE  /\ Append(SubSeq(s, 1, n), c) \in Seq(Char)
         /\ Len(Append(SubSeq(s, 1, n), c)) = n + 1
         /\ SubSeq(Append(SubSeq(s, 1, n), c), 1, n + 1) = Append(SubSeq(s, 1, n), c)
<1> DEFINE a == Append(SubSeq(s, 1, n), c)
<1>1. SubSeq(s, 1, n) \in Seq(Char) /\ Len(SubSeq(s, 1, n)) = n
  BY Prefix
<1>2. a \in Seq(Char) /\ Len(a) = n + 1
  BY <1>1
<1>3. SubSeq(a, 1, Len(a)) = a
  BY <1>2, SubSeqFull
<1> QED BY <1>2, <1>3

\* The queue stands still.
LEMMA RingFrame ==
  ASSUME Good, last' = last, cmd' = cmd, free' = free, ready' = ready, rx' = rx,
         order' = order, Live' => Live
  PROVE  Owned' /\ Ring' /\ Queue'
<1>1. \A b : D(b)' = Dist(last, b)
  BY DEF D, Dist
<1>2. Owned'
  BY DEF Good, Owned
<1>3. Ring'
  BY DEF Good, Ring, D, Dist
<1>4. Queue'
  BY DEF Good, Queue, D, Dist
<1> QED BY <1>2, <1>3, <1>4

\* The lines stand still.
LEMMA KeptFrame ==
  ASSUME Good, cmd' = cmd, free' = free, ready' = ready, rx' = rx, cnt' = cnt,
         text' = text, echo' = echo, odd' = odd
  PROVE  Kept'
  BY DEF Good, Kept

\* The end of a run touches the line being received only.
LEMMA RunOverKept ==
  ASSUME Good, cmd' = cmd, free' = free, ready' = ready, rx' = rx, cnt' = cnt,
         text' = RunOver, echo' = echo, odd' = odd
  PROVE  /\ Kept' /\ text' \in [Buf -> Seq(Char)]
         /\ \A b \in Buf : Len(text'[b]) <= MaxLen
<1>t. /\ rx \in Buf \cup {None} /\ cnt \in Nat /\ text \in [Buf -> Seq(Char)]
      /\ \A b \in Buf : Len(text[b]) <= MaxLen
      /\ free \subseteq Buf /\ ready \subseteq Buf
  BY MaxLenAssumption DEF Good, TypeOK
<1>n. None \notin Buf
  BY NumBufAssumption DEF Buf, None
<1>1. \A b \in Buf : b # rx => text'[b] = text[b]
  BY DEF RunOver
<1>2. ASSUME rx # None
      PROVE  /\ text'[rx] = SubSeq(text[rx], 1, cnt) /\ Len(text'[rx]) = cnt
             /\ text'[rx] \in Seq(Char) /\ SubSeq(text'[rx], 1, cnt) = SubSeq(text[rx], 1, cnt)
             /\ cnt <= MaxLen
  <2>1. rx \in Buf /\ text[rx] \in Seq(Char) /\ cnt \in 0 .. Len(text[rx])
    BY <1>2, <1>t DEF Good, Kept
  <2>2. text'[rx] = SubSeq(text[rx], 1, cnt)
    BY <2>1 DEF RunOver
  <2>3. cnt \in 0 .. cnt
    BY <1>t
  <2>4. SubSeq(SubSeq(text[rx], 1, cnt), 1, cnt) = SubSeq(text[rx], 1, cnt)
    BY <2>1, <2>3, PrefixOf
  <2>5. cnt <= MaxLen
    BY <2>1, <1>t, MaxLenAssumption
  <2> QED BY <2>1, <2>2, <2>4, <2>5, Prefix
<1>3. \A b \in Buf : text'[b] \in Seq(Char) /\ Len(text'[b]) <= MaxLen
  <2> TAKE b \in Buf
  <2>1. CASE b = rx
    <3>1. rx # None
      BY <2>1, <1>n
    <3> QED BY <2>1, <3>1, <1>2
  <2>2. CASE b # rx
    BY <2>2, <1>1, <1>t
  <2> QED BY <2>1, <2>2
<1>4. text' \in [Buf -> Seq(Char)]
  BY <1>3 DEF RunOver
<1>5. Kept'
  <2>1. \A b \in free : text'[b] = << >> /\ echo'[b] = << >> /\ b \notin odd'
    BY <1>1, <1>t DEF Good, Kept, Owned
  <2>2. \A b \in Buf : (b \in ready \/ b = cmd) /\ b \notin odd => text'[b] = echo[b]
    BY <1>1, <1>n DEF Good, Kept, Owned
  <2>3. rx # None => /\ Len(echo[rx]) = cnt /\ cnt <= Len(text'[rx])
                     /\ rx \notin odd => SubSeq(text'[rx], 1, cnt) = echo[rx]
    BY <1>2, <1>t DEF Good, Kept
  <2> QED BY <2>1, <2>2, <2>3 DEF Kept
<1> QED BY <1>3, <1>4, <1>5

LEMMA ReadyFinite ==
  ASSUME Good
  PROVE  IsFiniteSet(ready) /\ Cardinality(ready) \in Nat
<1>1. IsFiniteSet(Buf)
  BY FS_Interval, NumBufAssumption DEF Buf
<1>2. ready \in SUBSET Buf
  BY DEF Good, TypeOK
<1> QED BY <1>1, <1>2, FS_Subset, FS_CardinalityType

\* The threads that start, stop and switch the console.
LEMMA ControlStep ==
  ASSUME Good, Started \/ Stop \/ Stopped \/ Disable \/ Enable
  PROVE  Good'
<1>u. /\ last' = last /\ cmd' = cmd /\ pc' = pc /\ free' = free /\ ready' = ready /\ rx' = rx
      /\ cnt' = cnt /\ order' = order /\ echo' = echo /\ odd' = odd
      /\ hung' = hung /\ (text' = text \/ text' = RunOver)
  BY DEF Started, Stop, Stopped, Disable, Enable, taskVars, lineVars
<1>i. TypeOK /\ Phases /\ Tokens
  BY DEF Good
<1>1. Phases'
  BY <1>u, <1>i DEF Started, Stop, Stopped, Disable, Enable, Phases, Live
<1>2. Owned' /\ Ring' /\ Queue'
  <2>1. Live' => Live
    BY <1>i DEF Started, Stop, Stopped, Disable, Enable, Phases, Live
  <2> QED BY <1>u, <2>1, RingFrame
<1>3. Kept'
  BY <1>u, KeptFrame, RunOverKept
<1>4. Tokens'
  <2>1. Cardinality(ready) \in Nat /\ sem \in Nat
    BY <1>i, ReadyFinite DEF TypeOK
  <2>2. CASE Stop
    BY <2>1, <2>2, <1>u, <1>i DEF Stop, Tokens
  <2>3. CASE Stopped
    BY <2>3, <1>u DEF Stopped, Tokens
  <2>4. CASE Started
    BY <2>1, <2>4, <1>u, <1>i DEF Started, Tokens, Phases
  <2>5. CASE Disable \/ Enable
    BY <2>5, <1>u, <1>i DEF Disable, Enable, Tokens
  <2> QED BY <2>2, <2>3, <2>4, <2>5
<1>5. TypeOK'
  <2>1. text' \in [Buf -> Seq(Char)] /\ \A b \in Buf : Len(text'[b]) <= MaxLen
    BY <1>u, <1>i, RunOverKept DEF TypeOK
  <2>2. /\ state' \in {"stop", "start", "terminate"}
        /\ ctl' \in {"idle", "starting", "stopping", "failed"} /\ rxOn' \in BOOLEAN
    BY <1>i DEF Started, Stop, Stopped, Disable, Enable, TypeOK
  <2>3. sem' \in Nat
    BY <1>i DEF Started, Stop, Stopped, Disable, Enable, TypeOK
  <2>4. \A b \in Buf : b # rx => text'[b] = text[b]
    BY <1>u DEF RunOver
  <2>5. \A b \in (ready \cup {cmd}) \ {None} : Len(text'[b]) < MaxLen
    BY <2>4, <1>i DEF Good, Owned, TypeOK
  <2> QED BY <1>u, <1>i, <2>1, <2>2, <2>3, <2>5 DEF TypeOK
<1> QED BY <1>1, <1>2, <1>3, <1>4, <1>5, <1>u DEF Good

\* console_start sets the ring up behind the last buffer.
LEMMA StartStep ==
  ASSUME Good, Start
  PROVE  Good'
<1>i. TypeOK /\ Phases
  BY DEF Good
<1>n. 0 \in Buf /\ NumBuf - 1 \in Buf /\ None \notin Buf /\ 0 # None
  BY NumBufAssumption DEF Buf, None
<1>u. /\ pc = "none" /\ cmd = None /\ cmd' = cmd /\ state' = state /\ state = "stop"
      /\ sem' = 0 /\ ready' = {} /\ last' = NumBuf - 1 /\ rx' = 0 /\ cnt' = 0 /\ hung' = hung
      /\ free' = Buf \ {0} /\ odd' = {} /\ order' = << >>
      /\ text' = [b \in Buf |-> << >>] /\ echo' = [b \in Buf |-> << >>]
  BY <1>i DEF Start, Phases, Live
<1>1. TypeOK'
  <2>1. << >> \in Seq(Char) /\ Len(<< >>) = 0 /\ << >> \in Seq(Buf) /\ 0 <= MaxLen
        /\ 0 \in 0 .. MaxLen - 1
    BY MaxLenAssumption
  <2>2. pc' \in {"none", "wait"} /\ rxOn' \in BOOLEAN /\ ctl' \in {"starting", "failed"}
    BY <1>u, <1>i DEF Start, TypeOK
  <2> QED BY <2>1, <2>2, <1>u, <1>i, <1>n DEF TypeOK
<1>2. Phases'
  BY <1>u, <1>i DEF Start, Phases, Live
<1>3. Owned'
  BY <1>u, <1>n DEF Owned
<1>4. Tokens'
  BY <1>u, FS_EmptySet DEF Start, Tokens
<1>5. Ring'
  <2>1. \A c \in Buf : c # 0 => Dist(NumBuf - 1, 0) < Dist(NumBuf - 1, c)
    BY NumBufAssumption DEF Buf, Dist
  <2>2. \A c : D(c)' = Dist(NumBuf - 1, c)
    BY <1>u DEF D, Dist
  <2> QED BY <1>u, <2>1, <2>2 DEF Ring
<1>6. Queue'
  BY <1>u DEF Queue
<1>7. Kept'
  BY <1>u, <1>n DEF Kept
<1> QED BY <1>1, <1>2, <1>3, <1>4, <1>5, <1>6, <1>7, <1>u DEF Good

\* The task wakes up, or goes; another reader gets the end of a line.
LEMMA QuietStep ==
  ASSUME Good, Woken \/ Exit \/ Missed
  PROVE  Good'
<1>u. /\ last' = last /\ cmd' = cmd /\ free' = free /\ ready' = ready /\ rx' = rx
      /\ cnt' = cnt /\ order' = order /\ echo' = echo /\ text' = text
      /\ state' = state /\ ctl' = ctl /\ rxOn' = rxOn /\ hung' = hung
  BY DEF Woken, Exit, Missed, ctlVars, taskVars, lineVars
<1>i. TypeOK /\ Phases /\ Tokens /\ Kept /\ Owned
  BY DEF Good
<1>1. TypeOK'
  <2>1. pc' \in {"none", "wait", "woken", "exec"} /\ sem' \in Nat
    BY <1>i DEF Woken, Exit, Missed, taskVars, TypeOK
  <2>2. odd' \subseteq Buf
    BY <1>i DEF Woken, Exit, Missed, lineVars, TypeOK, None
  <2> QED BY <1>u, <1>i, <2>1, <2>2 DEF TypeOK
<1>2. Phases'
  BY <1>u, <1>i DEF Woken, Exit, Missed, taskVars, Phases, Live
<1>3. Owned' /\ Ring' /\ Queue'
  BY <1>u, RingFrame DEF Live
<1>4. Tokens'
  <2>1. sem \in Nat
    BY <1>i DEF TypeOK
  <2> QED BY <1>u, <1>i, <2>1 DEF Woken, Exit, Missed, taskVars, Tokens
<1>5. Kept'
  <2>1. odd' = odd \/ (odd' = odd \cup {rx} /\ rx # None)
    BY DEF Woken, Exit, Missed, lineVars
  <2> QED BY <1>u, <1>i, <2>1 DEF Kept, Owned
<1> QED BY <1>1, <1>2, <1>3, <1>4, <1>5, <1>u DEF Good

LEMMA DistLess ==
  ASSUME Good, NEW b \in Buf, NEW c \in Buf, D(b) < D(c)
  PROVE  b # c
<1>1. D(b) \in Buf
  BY DistProps DEF D, Good, TypeOK
<1> QED BY <1>1, BufNat

\* A step that changes the line being received and nothing else.
LEMMA LineKept ==
  ASSUME Good, rx \in Buf, NEW t \in Seq(Char), NEW e \in Seq(Char), NEW n \in 0 .. MaxLen - 1,
         NEW o, o = odd \/ o = odd \cup {rx} \/ o = odd \ {rx},
         Len(t) <= MaxLen, Len(e) = n, n <= Len(t), rx \notin o => SubSeq(t, 1, n) = e,
         text' = [text EXCEPT ![rx] = t], echo' = [echo EXCEPT ![rx] = e], odd' = o, cnt' = n,
         state' = state, ctl' = ctl, rxOn' = rxOn, hung' = hung, pc' = pc, last' = last, cmd' = cmd,
         sem' = sem, free' = free, ready' = ready, rx' = rx, order' = order
  PROVE  Good'
<1>i. TypeOK /\ Phases /\ Tokens /\ Kept /\ Owned
  BY DEF Good
<1>n. rx # None
  BY NumBufAssumption DEF Buf, None
<1>t. /\ text \in [Buf -> Seq(Char)] /\ echo \in [Buf -> Seq(Char)]
      /\ free \subseteq Buf /\ ready \subseteq Buf
  BY <1>i DEF TypeOK
<1>1. /\ text' \in [Buf -> Seq(Char)] /\ echo' \in [Buf -> Seq(Char)]
      /\ text'[rx] = t /\ echo'[rx] = e
      /\ \A b \in Buf : b # rx => text'[b] = text[b] /\ echo'[b] = echo[b]
  BY <1>t
<1>2. TypeOK'
  <2>1. \A b \in Buf : Len(text'[b]) <= MaxLen
    BY <1>1, <1>i DEF TypeOK
  <2>2. \A b \in (ready \cup {cmd}) \ {None} : Len(text'[b]) < MaxLen
    BY <1>1, <1>i DEF Good, Owned, TypeOK
  <2>3. odd' \subseteq Buf
    BY <1>i DEF TypeOK
  <2> QED BY <1>1, <2>1, <2>2, <2>3, <1>i DEF TypeOK
<1>3. Phases'
  BY <1>i DEF Phases, Live
<1>4. Owned' /\ Ring' /\ Queue'
  BY RingFrame DEF Live
<1>5. Tokens'
  BY <1>i DEF Tokens
<1>6. Kept'
  <2>1. \A b \in free : text'[b] = << >> /\ echo'[b] = << >> /\ b \notin odd'
    BY <1>1, <1>t, <1>i DEF Kept, Owned
  <2>2. \A b \in Buf : (b \in ready \/ b = cmd) /\ b \notin odd' => text'[b] = echo'[b]
    <3> SUFFICES ASSUME NEW b \in Buf, b \in ready \/ b = cmd, b \notin odd'
                 PROVE  text'[b] = echo'[b]
      OBVIOUS
    <3>1. b # rx
      BY <1>n, <1>i DEF Owned
    <3>2. b \notin odd
      BY <3>1
    <3> QED BY <3>1, <3>2, <1>1, <1>i DEF Kept
  <2> QED BY <2>1, <2>2, <1>1 DEF Kept
<1> QED BY <1>2, <1>3, <1>4, <1>5, <1>6 DEF Good

\* What is known of the line being received.
LEMMA LineFacts ==
  ASSUME Good, Receiving
  PROVE  /\ rx \in Buf /\ rx # None /\ Live
         /\ text[rx] \in Seq(Char) /\ echo[rx] \in Seq(Char) /\ Len(text[rx]) \in Nat
         /\ cnt \in 0 .. MaxLen - 1 /\ cnt \in Nat /\ Len(text[rx]) <= MaxLen
         /\ Len(echo[rx]) = cnt /\ cnt <= Len(text[rx])
         /\ rx \notin odd => SubSeq(text[rx], 1, cnt) = echo[rx]
         /\ \A at \in Offset : at \in 0 .. Len(text[rx]) /\ at \in Nat /\ cnt <= at
         /\ text \in [Buf -> Seq(Char)] /\ echo \in [Buf -> Seq(Char)]
<1>1. rx \in Buf /\ rx # None /\ Live
  BY DEF Good, TypeOK, Receiving, Phases
<1>2. /\ text \in [Buf -> Seq(Char)] /\ echo \in [Buf -> Seq(Char)] /\ cnt \in 0 .. MaxLen - 1
      /\ Len(text[rx]) <= MaxLen
  BY <1>1 DEF Good, TypeOK
<1>3. text[rx] \in Seq(Char) /\ echo[rx] \in Seq(Char) /\ Len(text[rx]) \in Nat /\ cnt \in Nat
  BY <1>1, <1>2
<1>4. /\ Len(echo[rx]) = cnt /\ cnt <= Len(text[rx])
      /\ rx \notin odd => SubSeq(text[rx], 1, cnt) = echo[rx]
  BY <1>1 DEF Good, Kept
<1>5. \A at \in Offset : at \in 0 .. Len(text[rx]) /\ at \in Nat /\ cnt <= at
  BY <1>3, <1>4 DEF Offset
<1> QED BY <1>1, <1>2, <1>3, <1>4, <1>5

\* A line that begins again.
LEMMA ResetStep ==
  ASSUME Good, Receiving, ResetLine,
         UNCHANGED <<ctlVars, taskVars, sem, free, ready, rx, order>>
  PROVE  Good'
<1>1. /\ << >> \in Seq(Char) /\ Len(<< >>) = 0 /\ 0 \in 0 .. MaxLen - 1 /\ 0 <= MaxLen
  BY MaxLenAssumption
<1>2. SubSeq(<< >>, 1, 0) = << >>
  BY SubSeqEmpty
<1>3. rx \in Buf
  BY LineFacts
<1>4. /\ text' = [text EXCEPT ![rx] = << >>] /\ echo' = [echo EXCEPT ![rx] = << >>]
      /\ odd' = odd \ {rx} /\ cnt' = 0
      /\ state' = state /\ ctl' = ctl /\ rxOn' = rxOn /\ hung' = hung /\ pc' = pc /\ last' = last /\ cmd' = cmd
      /\ sem' = sem /\ free' = free /\ ready' = ready /\ rx' = rx /\ order' = order
  BY DEF ResetLine, ctlVars, taskVars
<1>5. 0 <= Len(<< >>) /\ Len(<< >>) <= MaxLen
  BY <1>1
<1> QED BY <1>1, <1>2, <1>3, <1>4, <1>5, LineKept

LEMMA TypeStep ==
  ASSUME Good, Type, hung' = hung
  PROVE  Good'
<1>r. Receiving
  BY DEF Type
<1>1. CASE Full
  BY <1>1, <1>r, ResetStep DEF Type, Overrun, Good
<1>2. CASE ~Full
  <2>1. PICK c \in Char, at \in Offset :
          /\ at < MaxLen
          /\ text' = [text EXCEPT ![rx] = Append(SubSeq(@, 1, at), c)]
          /\ echo' = [echo EXCEPT ![rx] = Append(@, c)]
          /\ odd' = Strays(at)
          /\ cnt' = cnt + 1
          /\ UNCHANGED <<ctlVars, taskVars, sem, free, ready, rx, order>>
    BY <1>2 DEF Type, Overrun, Good
  <2> DEFINE t == Append(SubSeq(text[rx], 1, at), c)
             e == Append(echo[rx], c)
  <2>f. /\ rx \in Buf /\ text[rx] \in Seq(Char) /\ echo[rx] \in Seq(Char) /\ Len(echo[rx]) = cnt
        /\ cnt \in Nat /\ at \in 0 .. Len(text[rx]) /\ at \in Nat /\ cnt <= at
        /\ rx \notin odd => SubSeq(text[rx], 1, cnt) = echo[rx]
    BY <1>r, <2>1, LineFacts
  <2>2. t \in Seq(Char) /\ Len(t) = at + 1 /\ SubSeq(t, 1, at + 1) = t
    BY <2>f, PrefixAppend
  <2>3. e \in Seq(Char) /\ Len(e) = cnt + 1
    BY <2>f
  <2>4. text' = [text EXCEPT ![rx] = t] /\ echo' = [echo EXCEPT ![rx] = e]
    BY <2>1
  <2>5. odd' = odd \/ odd' = odd \cup {rx}
    BY <2>1 DEF Strays
  <2>6. rx \notin odd' => SubSeq(t, 1, cnt + 1) = e
    <3> HAVE rx \notin odd'
    <3>1. at = cnt /\ rx \notin odd
      BY <2>1 DEF Strays
    <3>2. SubSeq(t, 1, cnt + 1) = t
      BY <3>1, <2>2
    <3>3. t = e
      BY <3>1, <2>f
    <3> QED BY <3>2, <3>3
  <2> HIDE DEF t, e
  <2>7. cnt + 1 \in 0 .. MaxLen - 1 /\ Len(t) <= MaxLen /\ cnt + 1 <= Len(t)
    BY <1>2, <2>f, <2>1, <2>2, MaxLenAssumption DEF Full
  <2>8. /\ cnt' = cnt + 1
        /\ state' = state /\ ctl' = ctl /\ rxOn' = rxOn /\ hung' = hung /\ pc' = pc /\ last' = last /\ cmd' = cmd
        /\ sem' = sem /\ free' = free /\ ready' = ready /\ rx' = rx /\ order' = order
    BY <2>1 DEF ctlVars, taskVars
  <2> QED BY <2>f, <2>2, <2>3, <2>4, <2>5, <2>6, <2>7, <2>8, LineKept
<1> QED BY <1>1, <1>2

LEMMA BackspaceStep ==
  ASSUME Good, Backspace
  PROVE  Good'
<1>r. Receiving /\ cnt > 0
  BY DEF Backspace
<1>1. PICK at \in Offset : text' = [text EXCEPT ![rx] = SubSeq(@, 1, at)]
  BY DEF Backspace
<1> DEFINE t == SubSeq(text[rx], 1, at)
           e == SubSeq(echo[rx], 1, cnt - 1)
<1>f. /\ rx \in Buf /\ text[rx] \in Seq(Char) /\ echo[rx] \in Seq(Char) /\ Len(echo[rx]) = cnt
      /\ cnt \in Nat /\ at \in 0 .. Len(text[rx]) /\ at \in Nat /\ cnt <= at
      /\ rx \notin odd => SubSeq(text[rx], 1, cnt) = echo[rx]
      /\ Len(text[rx]) <= MaxLen /\ Len(text[rx]) \in Nat /\ cnt \in 0 .. MaxLen - 1
  BY <1>r, <1>1, LineFacts
<1>2. t \in Seq(Char) /\ Len(t) = at
  BY <1>f, Prefix
<1>3. cnt - 1 \in 0 .. Len(echo[rx]) /\ cnt - 1 \in 0 .. cnt /\ cnt - 1 \in 0 .. at
      /\ cnt - 1 \in 0 .. MaxLen - 1 /\ cnt \in 0 .. Len(text[rx])
  BY <1>f, <1>r, MaxLenAssumption
<1>4. e \in Seq(Char) /\ Len(e) = cnt - 1
  BY <1>f, <1>3, Prefix
<1>5. rx \notin odd => SubSeq(t, 1, cnt - 1) = e
  <2> HAVE rx \notin odd
  <2>1. SubSeq(t, 1, cnt - 1) = SubSeq(text[rx], 1, cnt - 1)
    BY <1>f, <1>3, PrefixOf
  <2>2. SubSeq(SubSeq(text[rx], 1, cnt), 1, cnt - 1) = SubSeq(text[rx], 1, cnt - 1)
    BY <1>f, <1>3, PrefixOf
  <2> QED BY <2>1, <2>2, <1>f
<1>6. text' = [text EXCEPT ![rx] = t] /\ echo' = [echo EXCEPT ![rx] = e]
  BY <1>1 DEF Backspace
<1> HIDE DEF t, e
<1>7. Len(t) <= MaxLen /\ cnt - 1 <= Len(t)
  BY <1>f, <1>2, <1>3, MaxLenAssumption
<1>8. /\ cnt' = cnt - 1 /\ odd' = odd
      /\ state' = state /\ ctl' = ctl /\ rxOn' = rxOn /\ hung' = hung /\ pc' = pc /\ last' = last /\ cmd' = cmd
      /\ sem' = sem /\ free' = free /\ ready' = ready /\ rx' = rx /\ order' = order
  BY DEF Backspace, Erased, ctlVars, taskVars
<1> QED BY <1>f, <1>2, <1>3, <1>4, <1>5, <1>6, <1>7, <1>8, LineKept

LEMMA IllegalStep ==
  ASSUME Good, Illegal
  PROVE  Good'
  BY ResetStep DEF Illegal

LEMMA Below ==
  ASSUME NEW n \in Nat, NEW i \in 1 .. n + 1, NEW j \in 1 .. n + 1, i < j
  PROVE  i \in 1 .. n /\ (j \in 1 .. n \/ j = n + 1)
  OBVIOUS

\* A line is complete: the ring goes on with the next free buffer.
LEMMA LineEndStep ==
  ASSUME Good, LineEnd, hung' = hung
  PROVE  Good'
<1>i. TypeOK /\ Phases /\ Tokens /\ Kept /\ Owned /\ Ring /\ Queue
  BY DEF Good
<1>r. Receiving /\ rx \in Buf /\ rx # None /\ Live /\ None \notin Buf
  BY LineFacts, NumBufAssumption DEF LineEnd, Buf, None
<1>u. /\ state' = state /\ ctl' = ctl /\ rxOn' = rxOn /\ hung' = hung /\ pc' = pc /\ last' = last /\ cmd' = cmd
      /\ echo' = echo /\ cnt' = 0 /\ sem' = sem + 1
      /\ ready' = ready \cup {rx} /\ order' = Append(order, rx) /\ free' = free \ {rx'}
  BY DEF LineEnd, NewLine, Release, ctlVars, taskVars, Overrun, Good
<1>t. /\ free \subseteq Buf /\ ready \subseteq Buf /\ order \in Seq(Buf) /\ Len(order) \in Nat
      /\ last \in Buf /\ cmd \in Buf \cup {None}
      /\ text \in [Buf -> Seq(Char)] /\ echo \in [Buf -> Seq(Char)] /\ sem \in Nat
  BY <1>i DEF TypeOK
<1>n. \/ rx' = None /\ free = {} /\ free' = {}
      \/ /\ rx' \in free /\ rx' # None
         /\ \A c \in free' : D(rx') < D(c)
  <2>1. CASE free = {}
    BY <2>1, <1>u DEF LineEnd, NewLine, Overrun, Good
  <2>2. CASE free # {}
    <3>1. rx' = Succ(rx)
      BY <2>2, <1>r, NextFree DEF LineEnd, NewLine, Overrun, Good
    <3> QED BY <3>1, <2>2, <1>r, <1>u, <1>t, NextFree
  <2> QED BY <2>1, <2>2
<1>1. PICK at \in Offset : /\ text' = [text EXCEPT ![rx] = SubSeq(@, 1, at)]
                         /\ odd' = Strays(at) /\ at < MaxLen
  BY DEF LineEnd, Overrun, Good
<1> DEFINE t == SubSeq(text[rx], 1, at)
<1>f. /\ text[rx] \in Seq(Char) /\ at \in 0 .. Len(text[rx]) /\ at \in Nat
      /\ rx \notin odd => SubSeq(text[rx], 1, cnt) = echo[rx]
      /\ Len(text[rx]) <= MaxLen /\ Len(text[rx]) \in Nat
  BY <1>r, <1>1, LineFacts
<1>2. t \in Seq(Char) /\ Len(t) <= MaxLen /\ Len(t) < MaxLen
  BY <1>1, <1>f, Prefix, MaxLenAssumption
<1>3. rx \notin odd' => t = echo[rx]
  BY <1>1, <1>f DEF Strays
<1>o. odd' = odd \/ odd' = odd \cup {rx}
  BY <1>1 DEF Strays
<1>4. text' = [text EXCEPT ![rx] = t]
  BY <1>1
<1> HIDE DEF t
<1>5. /\ text' \in [Buf -> Seq(Char)] /\ text'[rx] = t
      /\ \A b \in Buf : b # rx => text'[b] = text[b]
  BY <1>4, <1>2, <1>t, <1>r
<1>6. TypeOK'
  <2>1. \A b \in Buf : Len(text'[b]) <= MaxLen
    BY <1>5, <1>2, <1>i DEF TypeOK
  <2>2. order' \in Seq(Buf)
    BY <1>u, <1>t, <1>r
  <2>3. /\ free' \subseteq Buf /\ ready' \subseteq Buf /\ odd' \subseteq Buf
        /\ rx' \in Buf \cup {None}
    BY <1>u, <1>t, <1>r, <1>o, <1>n, <1>i DEF TypeOK
  <2>4. 0 \in 0 .. MaxLen - 1
    BY MaxLenAssumption
  <2>5. \A b \in (ready' \cup {cmd}) \ {None} : Len(text'[b]) < MaxLen
    BY <1>5, <1>2, <1>u, <1>i DEF Good, Owned, TypeOK
  <2> QED BY <2>1, <2>2, <2>3, <2>4, <2>5, <1>5, <1>u, <1>i DEF TypeOK
<1>7. Phases'
  BY <1>u, <1>i DEF Phases, Live
<1>8. Owned'
  <2>1. rx' \notin free' /\ rx' \notin ready' /\ free' \cap ready' = {} /\ cmd # rx
    BY <1>u, <1>n, <1>r, <1>t, <1>i DEF Owned
  <2>2. cmd \notin free' /\ cmd \notin ready' /\ (cmd # None => cmd # rx')
    BY <1>u, <1>n, <2>1, <1>i DEF Owned
  <2>3. \A b \in Buf : b \in free' \/ b \in ready' \/ b = rx' \/ b = cmd
    BY <1>u, <1>r, <1>i DEF Owned
  <2> QED BY <2>1, <2>2, <2>3, <1>n, <1>u DEF Owned
<1>9. Tokens'
  <2>1. Cardinality(ready') = Cardinality(ready) + 1
    BY <1>u, <1>i, ReadyFinite, FS_AddElement DEF Owned
  <2>2. Cardinality(ready) \in Nat
    BY ReadyFinite
  <2> QED BY <2>1, <2>2, <1>u, <1>t, <1>i DEF Tokens
<1>10. Ring'
  <2>d. \A b : D(b)' = Dist(last, b)
    BY <1>u DEF D, Dist
  <2>1. \A b \in ready', c \in free' : D(b) < D(c)
    BY <1>u, <1>r, <1>i DEF Ring
  <2>2. rx' # None => \A b \in ready' : D(b) < D(rx')
    BY <1>u, <1>n, <1>r, <1>i DEF Ring
  <2> QED BY <2>d, <2>1, <2>2, <1>n, <1>u, <1>i DEF Ring, D
<1>11. Queue'
  <2>d. \A b : D(b)' = D(b)
    BY <1>u DEF D, Dist
  <2>1. /\ Len(order') = Len(order) + 1 /\ order'[Len(order) + 1] = rx
        /\ \A i \in 1 .. Len(order) : order'[i] = order[i]
    BY <1>u, <1>t, <1>r
  <2>2. \A b \in ready' : \E i \in 1 .. Len(order') : order'[i] = b
    <3> TAKE b \in ready'
    <3>1. CASE b = rx
      <4>1. Len(order) + 1 \in 1 .. Len(order')
        BY <2>1, <1>t
      <4> QED BY <4>1, <3>1, <2>1
    <3>2. CASE b \in ready
      <4>1. PICK i \in 1 .. Len(order) : order[i] = b
        BY <3>2, <1>i DEF Queue
      <4>2. i \in 1 .. Len(order') /\ order'[i] = b
        BY <4>1, <2>1, <1>t
      <4> QED BY <4>2
    <3> QED BY <3>1, <3>2, <1>u
  <2>3. \A i \in 1 .. Len(order') : order'[i] \in ready'
    <3> TAKE i \in 1 .. Len(order')
    <3>1. i \in 1 .. Len(order) \/ i = Len(order) + 1
      BY <2>1, <1>t
    <3> QED BY <3>1, <2>1, <1>u, <1>i DEF Queue
  <2>4. ASSUME NEW i \in 1 .. Len(order'), NEW j \in 1 .. Len(order'), i < j
        PROVE  D(order'[i]) < D(order'[j])
    <3>1. i \in 1 .. Len(order) /\ (j \in 1 .. Len(order) \/ j = Len(order) + 1)
      <4>1. i \in 1 .. Len(order) + 1 /\ j \in 1 .. Len(order) + 1
        BY <2>1
      <4> QED BY <4>1, <2>4, <1>t, Below
    <3>2. CASE j \in 1 .. Len(order)
      BY <3>1, <3>2, <2>1, <2>4, <1>i DEF Queue
    <3>3. CASE j = Len(order) + 1
      <4>1. order'[j] = rx /\ order'[i] = order[i] /\ order[i] \in ready
        BY <3>1, <3>3, <2>1, <1>i DEF Queue
      <4> QED BY <4>1, <1>r, <1>i DEF Ring
    <3> QED BY <3>1, <3>2, <3>3
  <2> QED BY <2>d, <2>2, <2>3, <2>4 DEF Queue
<1>12. Kept'
  <2>1. \A b \in free' : text'[b] = << >> /\ echo'[b] = << >> /\ b \notin odd'
    BY <1>5, <1>u, <1>t, <1>o, <1>i DEF Kept, Owned
  <2>2. ASSUME NEW b \in Buf, b \in ready' \/ b = cmd', b \notin odd'
        PROVE  text'[b] = echo'[b]
    <3>1. CASE b = rx
      BY <3>1, <2>2, <1>3, <1>5, <1>u
    <3>2. CASE b # rx
      <4>1. (b \in ready \/ b = cmd) /\ b \notin odd
        BY <3>2, <2>2, <1>u, <1>o
      <4> QED BY <4>1, <3>2, <1>5, <1>u, <1>i DEF Kept
    <3> QED BY <3>1, <3>2
  <2>3. rx' # None => /\ Len(echo'[rx']) = 0 /\ 0 <= Len(text'[rx'])
                      /\ SubSeq(text'[rx'], 1, 0) = echo'[rx']
    <3> HAVE rx' # None
    <3>1. rx' \in free /\ rx' # rx
      BY <1>n, <1>i DEF Owned
    <3>2. text'[rx'] = << >> /\ echo'[rx'] = << >>
      BY <3>1, <1>5, <1>t, <1>u, <1>i DEF Kept
    <3>3. SubSeq(<< >>, 1, 0) = << >> /\ Len(<< >>) = 0
      BY SubSeqEmpty
    <3> QED BY <3>2, <3>3
  <2> QED BY <2>1, <2>2, <2>3, <1>u DEF Kept
<1> QED BY <1>6, <1>7, <1>8, <1>9, <1>10, <1>11, <1>12 DEF Good

\* The oldest line is taken: the first of the ring.
LEMMA TakeStep ==
  ASSUME Good, Take
  PROVE  Good' /\ cmd' = Head(order)
<1>i. TypeOK /\ Phases /\ Tokens /\ Kept /\ Owned /\ Ring /\ Queue
  BY DEF Good
<1>n. None \notin Buf
  BY NumBufAssumption DEF Buf, None
<1>u. /\ state' = state /\ ctl' = ctl /\ rxOn' = rxOn /\ hung' = hung /\ pc' = "exec" /\ last' = last
      /\ text' = text /\ echo' = echo /\ odd' = odd /\ cnt' = cnt /\ sem' = sem
      /\ free' = free /\ rx' = rx
      /\ ready' = ready \ {cmd'} /\ order' = Tail(order) /\ cmd' = Pick(ready, last)
      /\ pc = "woken" /\ state = "start" /\ ready # {}
  BY DEF Take, ctlVars, lineVars
<1>t. /\ free \subseteq Buf /\ ready \subseteq Buf /\ order \in Seq(Buf) /\ Len(order) \in Nat
      /\ last \in Buf /\ sem \in Nat
  BY <1>i DEF TypeOK
<1>c. cmd = None /\ Live
  BY <1>u, <1>i DEF Phases, Live
<1>h. /\ order # << >> /\ cmd' = Head(order) /\ cmd' \in ready /\ cmd' \in Buf /\ cmd' # None
      /\ D(cmd') = 0
  BY <1>u, <1>c, <1>t, <1>n, Oldest
<1>d. \A b : D(b)' = D(b)
  BY <1>u DEF D, Dist
<1>1. /\ order' \in Seq(Buf) /\ Len(order') = Len(order) - 1
      /\ \A i \in 1 .. Len(order') : order'[i] = order[i + 1]
  BY <1>u, <1>h, <1>t, HeadTailProperties
<1>2. TypeOK'
  BY <1>u, <1>h, <1>1, <1>i DEF TypeOK
<1>3. Phases'
  BY <1>u, <1>h, <1>i DEF Phases, Live
<1>4. Owned'
  <2>1. \A b \in Buf : b \in free' \/ b \in ready' \/ b = rx' \/ b = cmd'
    BY <1>u, <1>c, <1>n, <1>i DEF Owned
  <2> QED BY <2>1, <1>u, <1>h, <1>i DEF Owned
<1>5. Tokens'
  <2>1. Cardinality(ready') = Cardinality(ready) - 1
    BY <1>u, <1>h, ReadyFinite, FS_RemoveElement
  <2>2. Cardinality(ready) \in Nat
    BY ReadyFinite
  <2> QED BY <2>1, <2>2, <1>u, <1>t, <1>i DEF Tokens
<1>6. Ring'
  <2>1. /\ \A b \in ready', c \in free' : D(b) < D(c)
        /\ rx' # None => /\ \A b \in ready' : D(b) < D(rx)
                         /\ \A c \in free' : D(rx) < D(c)
    BY <1>u, <1>i DEF Ring
  <2>2. \A b : D(b)' = Dist(last, b)
    BY <1>u DEF D, Dist
  <2> QED BY <2>1, <2>2, <1>u, <1>h DEF Ring, D
<1>7. Queue'
  <2>h. Head(order) = order[1] /\ 1 \in 1 .. Len(order)
    BY <1>h, <1>t
  <2>1. \A b \in ready' : \E i \in 1 .. Len(order') : order'[i] = b
    <3> TAKE b \in ready'
    <3>1. PICK i \in 1 .. Len(order) : order[i] = b
      BY <1>u, <1>i DEF Queue
    <3>2. i # 1
      BY <3>1, <2>h, <1>u, <1>h
    <3>3. i - 1 \in 1 .. Len(order') /\ (i - 1) + 1 = i
      BY <3>1, <3>2, <1>1, <1>t
    <3>4. order'[i - 1] = b
      BY <3>3, <3>1, <1>1
    <3> QED BY <3>3, <3>4
  <2>2. \A i \in 1 .. Len(order') : i + 1 \in 1 .. Len(order) /\ 1 < i + 1
    BY <1>1, <1>t
  <2>3. ASSUME NEW i \in 1 .. Len(order') PROVE order'[i] \in ready'
    <3>1. order'[i] = order[i + 1] /\ i + 1 \in 1 .. Len(order) /\ 1 < i + 1
      BY <1>1, <2>2
    <3>2. order[i + 1] \in ready /\ D(order[1]) < D(order[i + 1])
      BY <3>1, <2>h, <1>i DEF Queue
    <3>3. order[i + 1] # order[1]
      <4>1. D(order[1]) = 0
        BY <2>h, <1>h
      <4>2. ~(0 < 0)
        OBVIOUS
      <4> QED BY <4>1, <4>2, <3>2
    <3> QED BY <3>1, <3>2, <3>3, <2>h, <1>h, <1>u
  <2>4. ASSUME NEW i \in 1 .. Len(order'), NEW j \in 1 .. Len(order'), i < j
        PROVE  D(order'[i]) < D(order'[j])
    <3>1. i + 1 < j + 1
      BY <2>4, <1>1, <1>t
    <3>2. i + 1 \in 1 .. Len(order) /\ j + 1 \in 1 .. Len(order)
      BY <2>2
    <3>3. D(order[i + 1]) < D(order[j + 1])
      BY <3>1, <3>2, <1>i DEF Queue
    <3> QED BY <3>3, <1>1
  <2> QED BY <1>d, <2>1, <2>3, <2>4 DEF Queue
<1>8. Kept'
  BY <1>u, <1>h, <1>i DEF Kept
<1> QED BY <1>2, <1>3, <1>4, <1>5, <1>6, <1>7, <1>8, <1>h, <1>u DEF Good

\* A command is done: the ring turns by one.
LEMMA FinishStep ==
  ASSUME Good, Finish
  PROVE  Good'
<1>i. TypeOK /\ Phases /\ Tokens /\ Kept /\ Owned /\ Ring /\ Queue
  BY DEF Good
<1>n. None \notin Buf
  BY NumBufAssumption DEF Buf, None
<1>u. /\ state' = state /\ ctl' = ctl /\ rxOn' = rxOn /\ hung' = hung /\ pc' = "wait" /\ last' = cmd /\ cmd' = None
      /\ text' = [text EXCEPT ![cmd] = << >>] /\ echo' = [echo EXCEPT ![cmd] = << >>]
      /\ odd' = odd \ {cmd} /\ sem' = sem /\ ready' = ready /\ order' = order /\ pc = "exec"
  BY DEF Finish, ctlVars
<1>t. /\ free \subseteq Buf /\ ready \subseteq Buf /\ order \in Seq(Buf) /\ Len(order) \in Nat
      /\ last \in Buf /\ cmd \in Buf \cup {None} /\ rx \in Buf \cup {None}
      /\ text \in [Buf -> Seq(Char)] /\ echo \in [Buf -> Seq(Char)]
      /\ cnt \in 0 .. MaxLen - 1
  BY <1>i DEF TypeOK
<1>c. cmd # None /\ cmd \in Buf /\ D(cmd) = 0 /\ cmd # rx /\ cmd \notin ready /\ cmd \notin free
  BY <1>u, <1>t, <1>i DEF Phases, Ring, Owned
<1>v. Live /\ Live'
  BY <1>u, <1>i DEF Phases, Live
<1>b. \/ rx = None /\ rx' = cmd /\ cnt' = 0 /\ free' = {} /\ free = {}
      \/ rx # None /\ rx \in Buf /\ free' = free \cup {cmd} /\ rx' = rx /\ cnt' = cnt
  BY <1>t, <1>i DEF Finish, Owned
<1>e. /\ << >> \in Seq(Char) /\ Len(<< >>) = 0 /\ 0 <= MaxLen /\ 0 \in 0 .. MaxLen - 1
      /\ SubSeq(<< >>, 1, 0) = << >>
  BY MaxLenAssumption, SubSeqEmpty
<1>1. /\ text' \in [Buf -> Seq(Char)] /\ echo' \in [Buf -> Seq(Char)]
      /\ text'[cmd] = << >> /\ echo'[cmd] = << >>
      /\ \A b \in Buf : b # cmd => text'[b] = text[b] /\ echo'[b] = echo[b]
  BY <1>u, <1>t, <1>c, <1>e
\* How the distances change.
<1>d. /\ Dist(cmd, cmd) = NumBuf - 1
      /\ \A b \in Buf : Dist(cmd, b) \in Int /\ D(b) \in Int
      /\ \A b \in Buf \ {cmd} : Dist(cmd, b) = D(b) - 1 /\ Dist(cmd, b) < NumBuf - 1
  <2>2. Dist(cmd, cmd) = NumBuf - 1 /\ \A b \in Buf \ {cmd} : Dist(cmd, b) = D(b) - 1
    BY <1>c, <1>t, DistTurn DEF D
  <2>3. \A b \in Buf : D(b) \in Buf /\ Dist(cmd, b) \in Buf
    BY <1>c, <1>t, DistProps DEF D
  <2>4. \A b \in Buf : D(b) \in Int /\ D(b) <= NumBuf - 1 /\ Dist(cmd, b) \in Int
    BY <2>3, NumBufAssumption DEF Buf
  <2>5. \A b \in Buf \ {cmd} : D(b) - 1 < NumBuf - 1
    BY <2>4, NumBufAssumption
  <2> QED BY <2>2, <2>4, <2>5
<1>2. TypeOK'
  <2>1. \A b \in Buf : Len(text'[b]) <= MaxLen
    BY <1>1, <1>e, <1>i DEF TypeOK
  <2>2. /\ free' \subseteq Buf /\ odd' \subseteq Buf /\ rx' \in Buf \cup {None}
        /\ cnt' \in 0 .. MaxLen - 1
    BY <1>u, <1>b, <1>c, <1>t, <1>e, <1>i DEF TypeOK
  <2> QED BY <2>1, <2>2, <1>1, <1>u, <1>c, <1>i DEF TypeOK
<1>3. Phases'
  BY <1>u, <1>v, <1>i DEF Phases
<1>4. Owned'
  <2>1. \A b \in Buf : b \in free' \/ b \in ready' \/ b = rx'
    BY <1>u, <1>b, <1>v, <1>i, <1>n DEF Owned
  <2>2. /\ free' \cap ready' = {} /\ rx' \notin free' /\ rx' \notin ready'
        /\ None \notin free' /\ None \notin ready' /\ (rx' = None => free' = {})
    BY <1>u, <1>b, <1>c, <1>n, <1>t, <1>i DEF Owned
  <2> QED BY <2>1, <2>2, <1>u DEF Owned
<1>5. Tokens'
  BY <1>u, <1>i DEF Tokens
<1>6. Ring'
  <2>1. ASSUME NEW b \in ready, NEW c \in free' PROVE Dist(cmd, b) < Dist(cmd, c)
    <3>1. b \in Buf \ {cmd} /\ c \in Buf
      BY <1>t, <1>c, <1>b
    <3>2. CASE c = cmd
      <4>1. Dist(cmd, b) < NumBuf - 1
        BY <3>1, <1>d
      <4> QED BY <4>1, <3>2, <1>d
    <3>3. CASE c # cmd
      <4>1. c \in free /\ D(b) < D(c)
        BY <3>3, <2>1, <1>b, <1>i DEF Ring
      <4>2. c \in Buf \ {cmd}
        BY <3>1, <3>3
      <4>3. /\ Dist(cmd, b) = D(b) - 1 /\ Dist(cmd, c) = D(c) - 1
            /\ D(b) \in Int /\ D(c) \in Int
        BY <3>1, <4>2, <1>d
      <4> QED BY <4>1, <4>3
    <3> QED BY <3>2, <3>3
  <2>2. ASSUME NEW b \in ready, rx' # None PROVE Dist(cmd, b) < Dist(cmd, rx')
    <3>1. b \in Buf \ {cmd}
      BY <1>t, <1>c
    <3>2. CASE rx = None
      <4>1. Dist(cmd, b) < NumBuf - 1 /\ rx' = cmd
        BY <3>1, <3>2, <1>b, <1>d
      <4> QED BY <4>1, <1>d
    <3>3. CASE rx # None
      <4>1. rx \in Buf \ {cmd} /\ rx' = rx /\ D(b) < D(rx)
        BY <3>3, <1>b, <1>c, <1>i DEF Ring
      <4>2. /\ Dist(cmd, rx) = D(rx) - 1 /\ Dist(cmd, b) = D(b) - 1
            /\ D(b) \in Int /\ D(rx) \in Int
        BY <4>1, <3>1, <1>d
      <4> QED BY <4>1, <4>2
    <3> QED BY <3>2, <3>3
  <2>3. ASSUME NEW c \in free', rx' # None PROVE Dist(cmd, rx') < Dist(cmd, c)
    <3>1. rx \in Buf \ {cmd} /\ rx' = rx /\ rx # None
      BY <2>3, <1>b, <1>c
    <3>2. Dist(cmd, rx) = D(rx) - 1 /\ Dist(cmd, rx) < NumBuf - 1 /\ D(rx) \in Int
      BY <3>1, <1>d
    <3>3. CASE c = cmd
      BY <3>1, <3>2, <3>3, <1>d
    <3>4. CASE c # cmd
      <4>1. c \in free /\ c \in Buf \ {cmd}
        BY <3>4, <2>3, <3>1, <1>b, <1>t
      <4>2. D(rx) < D(c)
        BY <4>1, <3>1, <1>i DEF Ring
      <4>3. Dist(cmd, c) = D(c) - 1 /\ D(c) \in Int
        BY <4>1, <1>d
      <4> QED BY <4>2, <4>3, <3>1, <3>2
    <3> QED BY <3>3, <3>4
  <2> QED BY <2>1, <2>2, <2>3, <1>u DEF Ring, D
<1>7. Queue'
  <2>1. ASSUME NEW i \in 1 .. Len(order), NEW j \in 1 .. Len(order), i < j
        PROVE  Dist(cmd, order[i]) < Dist(cmd, order[j])
    <3>1. order[i] \in Buf \ {cmd} /\ order[j] \in Buf \ {cmd} /\ D(order[i]) < D(order[j])
      BY <2>1, <1>c, <1>t, <1>i DEF Queue
    <3>2. /\ Dist(cmd, order[i]) = D(order[i]) - 1 /\ Dist(cmd, order[j]) = D(order[j]) - 1
          /\ D(order[i]) \in Int /\ D(order[j]) \in Int
      BY <3>1, <1>d
    <3> QED BY <3>1, <3>2
  <2> QED BY <2>1, <1>u, <1>i DEF Queue, D
<1>8. Kept'
  <2>1. \A b \in free' : text'[b] = << >> /\ echo'[b] = << >> /\ b \notin odd'
    BY <1>1, <1>u, <1>b, <1>t, <1>i DEF Kept
  <2>2. \A b \in Buf : (b \in ready' \/ b = None) /\ b \notin odd' => text'[b] = echo'[b]
    BY <1>1, <1>u, <1>c, <1>n, <1>i DEF Kept
  <2>3. rx' # None => /\ Len(echo'[rx']) = cnt' /\ cnt' <= Len(text'[rx'])
                      /\ rx' \notin odd' => SubSeq(text'[rx'], 1, cnt') = echo'[rx']
    <3>1. CASE rx = None
      <4>1. rx' = cmd /\ cnt' = 0
        BY <3>1, <1>b
      <4>2. text'[rx'] = << >> /\ echo'[rx'] = << >>
        BY <4>1, <1>1
      <4> QED BY <4>1, <4>2, <1>e
    <3>2. CASE rx # None
      <4>1. rx' = rx /\ cnt' = cnt /\ text'[rx] = text[rx] /\ echo'[rx] = echo[rx]
        BY <3>2, <1>1, <1>b, <1>c
      <4>2. rx \notin odd' => rx \notin odd
        BY <1>u, <1>c
      <4> QED BY <3>2, <4>1, <4>2, <1>i DEF Kept
    <3> QED BY <3>1, <3>2
  <2> QED BY <2>1, <2>2, <2>3, <1>u DEF Kept
<1> QED BY <1>2, <1>3, <1>4, <1>5, <1>6, <1>7, <1>8, <1>u DEF Good

-----------------------------------------------------------------------------
(* The theorems *)

LEMMA Initially ==
  ASSUME Init
  PROVE  Good
<1>e. /\ << >> \in Seq(Char) /\ << >> \in Seq(Buf) /\ Len(<< >>) = 0 /\ 0 <= MaxLen
      /\ 0 \in 0 .. MaxLen - 1 /\ SubSeq(<< >>, 1, 0) = << >> /\ 0 \in Buf
      /\ None \notin Buf
  BY MaxLenAssumption, NumBufAssumption, SubSeqEmpty DEF Buf, None
<1>1. TypeOK
  BY <1>e DEF Init, TypeOK
<1>2. Phases /\ Owned /\ Tokens
  BY <1>e DEF Init, Phases, Live, Owned, Tokens
<1>3. Ring /\ Queue
  BY DEF Init, Ring, Queue
<1>4. Kept
  BY <1>e DEF Init, Kept
<1> QED BY <1>1, <1>2, <1>3, <1>4 DEF Good, Init

LEMMA StutterStep ==
  ASSUME Inv, UNCHANGED vars
  PROVE  Inv'
<1>u. /\ last' = last /\ cmd' = cmd /\ pc' = pc /\ free' = free /\ ready' = ready /\ rx' = rx
      /\ cnt' = cnt /\ order' = order /\ echo' = echo /\ odd' = odd /\ text' = text
      /\ state' = state /\ ctl' = ctl /\ rxOn' = rxOn /\ hung' = hung /\ sem' = sem
  BY DEF vars, ctlVars, taskVars, lineVars
<1>1. /\ TypeOK => TypeOK'
      /\ Phases => Phases'
      /\ Tokens => Tokens'
  BY <1>u DEF TypeOK, Phases, Live, Tokens
<1>2. /\ Owned => Owned'
      /\ Ring => Ring'
      /\ Queue => Queue'
  BY <1>u DEF Owned, Live, Ring, Queue, D, Dist
<1>3. /\ Kept => Kept'
      /\ Hanged => Hanged'
  BY <1>u DEF Kept, Hanged, Spoilt
<1> QED BY <1>u, <1>1, <1>2, <1>3 DEF Inv, Good

\* A store behind the buffer damages the next one and nothing else: no buffer
\* changes its place, and the line that overran had a backspace in a run.
LEMMA OverrunStep ==
  ASSUME Good, Receiving, MaxLen \in Offset, NEW l \in Seq(Char), Len(l) <= 1, Overrun(l),
         echo' \in [Buf -> Seq(Char)], \A b \in Buf : b # rx => echo'[b] = echo[b]
  PROVE  Inv'
<1>i. TypeOK /\ Phases /\ Tokens /\ Kept /\ Owned
  BY DEF Good
<1>u. /\ state' = state /\ ctl' = ctl /\ rxOn' = rxOn /\ hung' /\ pc' = pc /\ last' = last
      /\ cmd' = cmd /\ sem' = sem /\ free' = free /\ ready' = ready /\ rx' = rx /\ cnt' = cnt
      /\ order' = order /\ hung' \in BOOLEAN
  BY DEF Overrun, taskVars
<1>f. rx \in Buf /\ rx # None /\ cnt \in 0 .. MaxLen - 1 /\ text \in [Buf -> Seq(Char)]
  BY LineFacts
<1>1. odd' = odd \cup {rx}
  <2>1. MaxLen # cnt
    BY <1>f, MaxLenAssumption
  <2> QED BY <2>1 DEF Overrun, Strays
<1>2. \A b \in Buf : b # rx + 1 => text'[b] = text[b]
  BY <1>f DEF Overrun
<1>3. text' \in [Buf -> Seq(Char)] /\ \A b \in Buf : Len(text'[b]) <= MaxLen
  <2>1. CASE rx + 1 \notin Buf
    BY <2>1, <1>i DEF Overrun, TypeOK
  <2>2. CASE rx + 1 \in Buf
    <3> DEFINE x == text[rx + 1]
               y == IF l = << >> THEN << >> ELSE l \o SubSeq(x, 2, Len(x))
    <3>1. x \in Seq(Char) /\ Len(x) <= MaxLen /\ Len(x) \in Nat
      BY <2>2, <1>i DEF TypeOK
    <3>2. SubSeq(x, 2, Len(x)) \in Seq(Char)
          /\ Len(SubSeq(x, 2, Len(x))) = (IF 2 <= Len(x) THEN Len(x) - 1 ELSE 0)
      BY <3>1, SubSeqProperties
    <3>3. y \in Seq(Char) /\ Len(y) <= MaxLen
      <4>1. CASE l = << >>
        BY <4>1, MaxLenAssumption
      <4>2. CASE l # << >>
        <5>1. y = l \o SubSeq(x, 2, Len(x))
          BY <4>2
        <5>2. y \in Seq(Char) /\ Len(y) = Len(l) + Len(SubSeq(x, 2, Len(x)))
          BY <5>1, <3>2, ConcatProperties
        <5> QED BY <5>2, <3>1, <3>2, MaxLenAssumption
      <4> QED BY <4>1, <4>2
    <3>4. text' = [text EXCEPT ![rx + 1] = y]
      BY <2>2 DEF Overrun
    <3> HIDE DEF y
    <3> QED BY <3>3, <3>4, <1>i DEF TypeOK
  <2> QED BY <2>1, <2>2
<1>4. TypeOK'
  <2>1. odd' \subseteq Buf
    BY <1>1, <1>f, <1>i DEF TypeOK
  <2> QED BY <1>u, <1>3, <2>1, <1>i DEF TypeOK
<1>5. Phases' /\ Tokens'
  BY <1>u, <1>i DEF Phases, Live, Tokens
<1>6. Owned' /\ Ring' /\ Queue'
  BY <1>u, RingFrame DEF Live
<1>7. Hanged'
  <2> SUFFICES ASSUME NEW b \in Buf, b \in ready \/ b = cmd, b \notin odd'
               PROVE  text'[b] = echo'[b] \/ b = rx + 1
    BY <1>u, <1>1 DEF Hanged, Spoilt, Receiving
  <2>1. b # rx /\ b \notin odd
    BY <1>1
  <2> QED BY <2>1, <1>2, <1>i DEF Kept
<1> QED BY <1>u, <1>4, <1>5, <1>6, <1>7 DEF Inv

LEMMA HangStep ==
  ASSUME Good, Type \/ LineEnd, hung' # hung
  PROVE  /\ Inv' /\ Receiving /\ MaxLen \in Offset
         /\ \E l \in Seq(Char) : Len(l) <= 1 /\ Overrun(l)
<1>r. Receiving /\ echo \in [Buf -> Seq(Char)] /\ rx \in Buf /\ echo[rx] \in Seq(Char)
  BY LineFacts DEF Type, LineEnd
<1>1. CASE Type
  <2>1. PICK c \in Char : /\ MaxLen \in Offset /\ Overrun(<<c>>)
                         /\ echo' = [echo EXCEPT ![rx] = Append(@, c)]
    BY <1>1 DEF Type, ctlVars
  <2>2. <<c>> \in Seq(Char) /\ Len(<<c>>) <= 1
    OBVIOUS
  <2>3. echo' \in [Buf -> Seq(Char)] /\ \A b \in Buf : b # rx => echo'[b] = echo[b]
    BY <2>1, <1>r
  <2> QED BY <1>r, <2>1, <2>2, <2>3, OverrunStep
<1>2. CASE LineEnd
  <2>1. MaxLen \in Offset /\ Overrun(<< >>) /\ echo' = echo
    BY <1>2 DEF LineEnd, NewLine, ctlVars
  <2>2. << >> \in Seq(Char) /\ Len(<< >>) <= 1
    OBVIOUS
  <2> QED BY <1>r, <2>1, <2>2, OverrunStep
<1> QED BY <1>1, <1>2

\* Nothing runs beside the interrupt in CONS_ABORT.
LEMMA HangsForGood ==
  ASSUME hung, [Next]_vars
  PROVE  UNCHANGED vars
<1>1. ~Start /\ ~Started /\ ~Stop /\ ~Stopped /\ ~Disable /\ ~Enable
  BY DEF Start, Started, Stop, Stopped, Disable, Enable
<1>2. ~Type /\ ~Backspace /\ ~Illegal /\ ~LineEnd /\ ~Missed
  BY DEF Type, Backspace, Illegal, LineEnd, Missed, Receiving
<1>3. ~Woken /\ ~Exit /\ ~Take /\ ~Finish
  BY DEF Woken, Exit, Take, Finish
<1> QED BY <1>1, <1>2, <1>3 DEF Next, Control, Task, Abort

\* The ring of buffers, for every number and length of them.
THEOREM Invariant == Spec => []Inv
<1>1. Init => Inv
  BY Initially DEF Inv
<1>2. Inv /\ [Next]_vars => Inv'
  <2>1. CASE hung
    BY <2>1, HangsForGood, StutterStep
  <2>2. CASE ~hung
    <3>1. Inv => Good
      BY <2>2 DEF Inv
    <3>2. Good' => Inv'
      BY DEF Inv
    <3>3. Good /\ (Type \/ LineEnd) => Inv'
      BY <3>2, TypeStep, LineEndStep, HangStep
    <3> QED BY <3>1, <3>2, <3>3, ControlStep, StartStep, QuietStep, BackspaceStep, IllegalStep,
               TakeStep, FinishStep, StutterStep DEF Next, Control, Task, Abort
  <2> QED BY <2>1, <2>2
<1> QED BY <1>1, <1>2, PTL DEF Spec

\* The variables keep their types, and a complete line has room for its
\* terminator: one that has not is caught by the check in the interrupt, which
\* hangs there.
THEOREM TypeCorrect == Spec => []TypeOK
<1>1. Inv => TypeOK
  BY DEF Inv, Good
<1> QED BY <1>1, Invariant, PTL

\* Every buffer has one owner, and every ready command its token.
THEOREM Accounts == Spec => []Accounted
<1>1. Inv => Accounted
  <2> SUFFICES ASSUME Inv PROVE Accounted
    OBVIOUS
  <2>i. TypeOK /\ Phases /\ Owned /\ Tokens
    BY DEF Inv, Good
  <2>n. None \notin Buf
    BY NumBufAssumption DEF Buf, None
  <2>1. ASSUME pc # "none", NEW b \in Buf PROVE Cardinality(Owners(b)) = 1
    <3>1. Live
      BY <2>1, <2>i DEF Phases
    <3>2. b \in free \/ b \in ready \/ b = rx \/ b = cmd
      BY <3>1, <2>i DEF Owned
    <3>3. CASE b \in free
      <4>1. Owners(b) = {"free"}
        BY <3>3, <2>i DEF Owned, Owners
      <4> QED BY <4>1, FS_Singleton
    <3>4. CASE b \in ready
      <4>1. Owners(b) = {"ready"}
        BY <3>4, <2>i DEF Owned, Owners
      <4> QED BY <4>1, FS_Singleton
    <3>5. CASE b = rx
      <4>1. Owners(b) = {"rx"}
        BY <3>5, <2>n, <2>i DEF Owned, Owners
      <4> QED BY <4>1, FS_Singleton
    <3>6. CASE b = cmd
      <4>1. Owners(b) = {"cmd"}
        BY <3>6, <2>n, <2>i DEF Owned, Owners
      <4> QED BY <4>1, FS_Singleton
    <3> QED BY <3>2, <3>3, <3>4, <3>5, <3>6
  <2> QED BY <2>1, <2>i DEF Accounted, Tokens
<1> QED BY <1>1, Invariant, PTL

\* What is executed is what the terminal shows, but for the lines with a
\* backspace or a missed end (odd), and for the one that a buffer which was
\* overrun has spoilt when the interrupt hangs.
THEOREM Echoes == Spec => []Echoed
<1>1. Good => Echoed
  <2> SUFFICES ASSUME Good PROVE Echoed
    OBVIOUS
  <2>1. (ready \cup {cmd}) \ (odd \cup {None}) \subseteq Buf
    BY DEF Good, TypeOK
  <2> QED BY <2>1 DEF Good, Kept, Echoed
<1>2. hung /\ TypeOK /\ Hanged => Echoed
  <2> SUFFICES ASSUME hung, TypeOK, Hanged PROVE Echoed
    OBVIOUS
  <2>1. (ready \cup {cmd}) \ (odd \cup {None}) \subseteq Buf
    BY DEF TypeOK
  <2> QED BY <2>1 DEF Hanged, Echoed
<1> QED BY <1>1, <1>2, Invariant, PTL DEF Inv

\* Commands are executed in the order they were typed.
THEOREM Ordered == Spec => InOrder
<1>1. Inv /\ [Next]_vars => [pc' = "exec" /\ pc # "exec" => cmd' = Head(order)]_vars
  <2> SUFFICES ASSUME Inv, Next, pc' = "exec", pc # "exec" PROVE cmd' = Head(order)
    OBVIOUS
  <2>1. Take
    BY DEF Next, Control, Task, Start, Started, Stop, Stopped, Disable, Enable, Type, Backspace,
           Illegal, LineEnd, NewLine, Overrun, Missed, Woken, Exit, Finish, Abort, vars, taskVars
  <2>2. Good
    BY <2>1 DEF Take, Inv
  <2> QED BY <2>1, <2>2, TakeStep
<1> QED BY <1>1, Invariant, PTL DEF Spec, InOrder

-----------------------------------------------------------------------------
(* The queue of lines *)

\* Steps that write in no buffer that waits or is executed.
LEMMA LinesKept ==
  ASSUME Good, order' = order, cmd' = cmd,
         \A b \in ready \cup {cmd} : b # None => text'[b] = text[b]
  PROVE  Waiting' = Waiting /\ Executing' = Executing
<1>1. \A i \in 1 .. Len(order) : order[i] \in ready /\ order[i] # None
  BY NumBufAssumption DEF Good, Queue, TypeOK, None, Buf
<1>2. Waiting' = Waiting
  BY <1>1 DEF Waiting
<1>3. Executing' = Executing
  BY DEF Executing
<1> QED BY <1>2, <1>3

\* The buffer being received is none of these.
LEMMA RxApart ==
  ASSUME Good, order' = order, cmd' = cmd,
         \A b \in Buf : b # rx => text'[b] = text[b]
  PROVE  Waiting' = Waiting /\ Executing' = Executing
<1>1. \A b \in ready \cup {cmd} : b # None => b \in Buf /\ b # rx
  BY DEF Good, Owned, TypeOK
<1> QED BY <1>1, LinesKept

LEMMA LineArrives ==
  ASSUME Good, LineEnd, hung' = hung
  PROVE  Lines!Arrive
<1>t. /\ order \in Seq(Buf) /\ rx \in Buf /\ text \in [Buf -> Seq(Char)]
      /\ order' = Append(order, rx) /\ cmd' = cmd
      /\ \A b \in Buf : b # rx => text'[b] = text[b]
  BY DEF Good, TypeOK, LineEnd, NewLine, Overrun, Receiving, taskVars
<1>1. \A b \in ready \cup {cmd} : b # None => b \in Buf /\ b # rx
  BY DEF Good, Owned, TypeOK
<1>2. Executing' = Executing
  BY <1>t, <1>1 DEF Executing
<1>3. Len(order') = Len(order) + 1 /\ \A i \in 1 .. Len(order) : order'[i] = order[i]
  BY <1>t
<1>4. Len(Waiting) = Len(order) /\ Len(Waiting') = Len(order')
  BY <1>t DEF Waiting
<1>5. \A i \in 1 .. Len(order) : order[i] \in Buf /\ order[i] # rx
  BY <1>t DEF Good, Queue, Owned
<1>6. ASSUME NEW i \in 1 .. Len(Waiting) PROVE Waiting'[i] = Waiting[i]
  <2>1. i \in 1 .. Len(order) /\ i \in 1 .. Len(order')
    BY <1>t, <1>3, <1>4
  <2>2. Waiting'[i] = text'[order'[i]] /\ Waiting[i] = text[order[i]]
    BY <2>1 DEF Waiting
  <2> QED BY <2>1, <2>2, <1>t, <1>3, <1>5
<1> QED BY <1>2, <1>3, <1>4, <1>6 DEF Lines!Arrive

LEMMA LineExecutes ==
  ASSUME Good, Take
  PROVE  Lines!Execute
<1>t. /\ order \in Seq(Buf) /\ order' = Tail(order) /\ text' = text
      /\ ready # {} /\ pc = "woken" /\ state = "start" /\ cmd' = Pick(ready, last)
  BY DEF Good, TypeOK, Take, lineVars
<1>1. cmd = None
  BY <1>t DEF Good, Phases
<1>2. order # << >> /\ Head(order) \in ready /\ cmd' = Head(order)
  BY <1>t, <1>1, Oldest DEF Live
<1>3. Head(order) # None
  BY <1>2, NumBufAssumption DEF Good, TypeOK, None, Buf
<1>4. Len(order) \in Nat /\ Len(order) >= 1 /\ Head(order) = order[1]
  BY <1>t, <1>2
<1>5. Waiting # << >> /\ Head(Waiting) = text[order[1]]
  BY <1>4 DEF Waiting
<1>6. Executing = << >> /\ Executing' = <<Head(Waiting)>>
  BY <1>t, <1>1, <1>2, <1>3, <1>4, <1>5 DEF Executing
<1>7. Waiting' = Tail(Waiting)
  <2>1. Len(order') = Len(order) - 1 /\ \A i \in 1 .. Len(order) - 1 : order'[i] = order[i + 1]
    BY <1>t, <1>4
  <2>2. Waiting' = [i \in 1 .. Len(order) - 1 |-> text[order[i + 1]]]
    BY <1>t, <2>1 DEF Waiting
  <2>3. Tail(Waiting) = [i \in 1 .. Len(order) - 1 |-> Waiting[i + 1]]
    BY <1>4 DEF Waiting
  <2>4. \A i \in 1 .. Len(order) - 1 : Waiting[i + 1] = text[order[i + 1]]
    BY <1>4 DEF Waiting
  <2> QED BY <2>2, <2>3, <2>4
<1> QED BY <1>5, <1>6, <1>7 DEF Lines!Execute

LEMMA LineDone ==
  ASSUME Good, Finish
  PROVE  Lines!Done
<1>t. /\ order' = order /\ cmd' = None /\ cmd # None /\ cmd \notin ready
      /\ text' = [text EXCEPT ![cmd] = << >>] /\ text \in [Buf -> Seq(Char)]
      /\ ready \subseteq Buf
  BY DEF Good, TypeOK, Finish, Phases, Owned
<1>1. Executing # << >> /\ Executing' = << >>
  BY <1>t DEF Executing
<1>2. \A i \in 1 .. Len(order) : text'[order[i]] = text[order[i]]
  BY <1>t DEF Good, Queue
<1>3. Waiting' = Waiting
  BY <1>t, <1>2 DEF Waiting
<1> QED BY <1>1, <1>3 DEF Lines!Done

\* The line behind the buffer that was overrun is one of those that wait, or
\* the one that is executed, or none.
LEMMA LineSpoilt ==
  ASSUME Good, NEW l, Overrun(l), Receiving
  PROVE  Lines!Break
<1>t. /\ order \in Seq(Buf) /\ Len(order) \in Nat /\ text \in [Buf -> Seq(Char)]
      /\ order' = order /\ cmd' = cmd /\ hung' = TRUE /\ ~hung
      /\ \A b \in Buf : b # rx + 1 => text'[b] = text[b]
      /\ ready \subseteq Buf /\ None \notin Buf /\ cmd \in Buf \cup {None}
  BY NumBufAssumption DEF Good, TypeOK, Overrun, taskVars, None, Buf
<1>1. \A i \in 1 .. Len(order) : order[i] \in ready /\ order[i] \in Buf
  BY <1>t DEF Good, Queue
<1>2. Len(Waiting) = Len(order) /\ Len(Waiting') = Len(order)
  BY <1>t DEF Waiting
<1>3. CASE rx + 1 = cmd
  <2>1. cmd \notin ready /\ (cmd # None => cmd \in Buf)
    BY <1>t DEF Good, Owned
  <2>2. \A i \in 1 .. Len(order) : text'[order[i]] = text[order[i]]
    BY <1>t, <1>1, <1>3, <2>1
  <2>3. Waiting' = Waiting
    BY <1>t, <2>2 DEF Waiting
  <2>4. CASE cmd = None
    BY <1>t, <2>3, <2>4 DEF Lines!Break, Executing
  <2>5. CASE cmd # None
    <3>1. Len(Executing) = 1 /\ Len(Executing') = 1
      BY <1>t, <2>5 DEF Executing
    <3>2. Lines!Alike(Executing, Executing')
      BY <3>1 DEF Lines!Alike
    <3> QED BY <1>t, <2>3, <3>2 DEF Lines!Break
  <2> QED BY <2>4, <2>5
<1>4. CASE rx + 1 # cmd
  <2>1. Executing' = Executing
    BY <1>t, <1>4 DEF Executing
  <2>2. CASE \E i \in 1 .. Len(order) : order[i] = rx + 1
    <3>1. PICK i \in 1 .. Len(order) : order[i] = rx + 1
      BY <2>2
    <3>2. ASSUME NEW j \in 1 .. Len(order), j # i PROVE Waiting'[j] = Waiting[j]
      <4>1. order[j] # order[i]
        <5>1. CASE i < j
          BY <5>1, <1>t, <1>1, DistLess DEF Good, Queue
        <5>2. CASE j < i
          BY <5>2, <1>t, <1>1, DistLess DEF Good, Queue
        <5> QED BY <5>1, <5>2, <3>2, <1>t
      <4> QED BY <4>1, <3>1, <1>1, <1>t DEF Waiting
    <3>3. Lines!Alike(Waiting, Waiting')
      BY <3>1, <3>2, <1>2 DEF Lines!Alike
    <3> QED BY <1>t, <2>1, <3>3 DEF Lines!Break
  <2>3. CASE \A i \in 1 .. Len(order) : order[i] # rx + 1
    <3>1. \A i \in 1 .. Len(order) : text'[order[i]] = text[order[i]]
      BY <2>3, <1>1, <1>t
    <3>2. Waiting' = Waiting
      BY <1>t, <3>1 DEF Waiting
    <3> QED BY <1>t, <2>1, <3>2 DEF Lines!Break
  <2> QED BY <2>2, <2>3
<1> QED BY <1>3, <1>4

\* console.c: whatever buffers the lines go through, the console is a queue of
\* lines: executed in the order they were ended, each once, none changed while
\* it waits or is executed, however many buffers there are, until a line
\* overruns its buffer and the interrupt hangs: then at most one has changed.
THEOREM IsLineQueue == Spec => ImplementsQueue
<1>1. Init => Lines!Init
  BY DEF Init, Lines!Init, Waiting, Executing
<1>2. Good /\ Next /\ hung' = hung =>
        (Lines!Arrive \/ Lines!Execute \/ Lines!Done \/ Lines!Restart)
          \/ (Waiting' = Waiting /\ Executing' = Executing)
  <2> SUFFICES ASSUME Good, Next, hung' = hung
               PROVE  \/ Lines!Arrive \/ Lines!Execute \/ Lines!Done \/ Lines!Restart
                      \/ Waiting' = Waiting /\ Executing' = Executing
    OBVIOUS
  <2>t. text \in [Buf -> Seq(Char)]
    BY DEF Good, TypeOK
  <2>1. CASE Start
    <3>1. cmd = None /\ cmd' = None /\ order' = << >>
      BY <2>1 DEF Start, Good, Phases, Live
    <3> QED BY <3>1 DEF Lines!Restart, Waiting, Executing
  <2>2. CASE Started \/ Stopped \/ Enable \/ Missed \/ Woken \/ Exit \/ Abort
    <3>1. order' = order /\ cmd' = cmd /\ text' = text
      BY <2>2 DEF Started, Stopped, Enable, Missed, Woken, Exit, Abort, vars, lineVars, taskVars
    <3> QED BY <3>1, RxApart
  <2>3. CASE Stop \/ Disable
    <3>1. order' = order /\ cmd' = cmd /\ text' = RunOver
      BY <2>3 DEF Stop, Disable, taskVars
    <3> QED BY <3>1, RxApart DEF RunOver
  <2>4. CASE Type \/ Backspace \/ Illegal
    <3>1. order' = order /\ cmd' = cmd /\ rx \in Buf
      BY <2>4 DEF Type, Overrun, Backspace, Illegal, Receiving, taskVars, Good, TypeOK
    <3>2. \E l : text' = [text EXCEPT ![rx] = l]
      <4>1. CASE Type
        BY <4>1 DEF Type, Overrun, ResetLine, Good
      <4>2. CASE Backspace \/ Illegal
        BY <4>2 DEF Backspace, Illegal, ResetLine
      <4> QED BY <2>4, <4>1, <4>2
    <3> QED BY <2>t, <3>1, <3>2, RxApart
  <2>5. CASE LineEnd
    BY <2>5, LineArrives
  <2>6. CASE Take
    BY <2>6, LineExecutes
  <2>7. CASE Finish
    BY <2>7, LineDone
  <2> QED BY <2>1, <2>2, <2>3, <2>4, <2>5, <2>6, <2>7 DEF Next, Control, Task
<1>3. Good /\ Next /\ hung' # hung => Lines!Break
  <2> SUFFICES ASSUME Good, Next, hung' # hung PROVE Lines!Break
    OBVIOUS
  <2>1. Type \/ LineEnd
    BY DEF Next, Control, Task, Start, Started, Stop, Stopped, Disable, Enable, Backspace, Illegal,
           Missed, Woken, Exit, Take, Finish, Abort, vars, ctlVars
  <2> QED BY <2>1, HangStep, LineSpoilt
<1>4. Inv /\ [Next]_vars => [Lines!Next]_(Lines!lineVars)
  <2> SUFFICES ASSUME Inv, [Next]_vars
               PROVE  Lines!Next \/ (Waiting' = Waiting /\ Executing' = Executing /\ hung' = hung)
    BY DEF Lines!lineVars
  <2>1. CASE UNCHANGED vars
    BY <2>1 DEF vars, ctlVars, taskVars, lineVars, Waiting, Executing
  <2>2. CASE Next /\ hung
    BY <2>1, <2>2, HangsForGood
  <2>3. CASE Next /\ ~hung
    <3>1. Good
      BY <2>3 DEF Inv
    <3>2. CASE hung' = hung
      <4>1. ~hung /\ hung' = FALSE
        BY <2>3, <3>1, <3>2 DEF Good, TypeOK
      <4> QED BY <4>1, <2>3, <3>1, <3>2, <1>2 DEF Lines!Next, Lines!Work
    <3>3. CASE hung' # hung
      BY <2>3, <3>1, <3>3, <1>3 DEF Lines!Next
    <3> QED BY <3>2, <3>3
  <2> QED BY <2>1, <2>2, <2>3
<1> QED BY <1>1, <1>4, Invariant, PTL DEF Spec, ImplementsQueue, Lines!Spec
=============================================================================
