--------------------------- MODULE OtaBootProofs ---------------------------
(***************************************************************************)
(* Proofs about the update service and the bootloader of OtaBoot, for any  *)
(* number of sections and versions, under both policies.                   *)
(***************************************************************************)
EXTENDS OtaBoot, TLAPS

LEMMA Seqs == SeqNum = 2 /\ ImgSeq = {0, 1} /\ App \in Section
  BY NSecAssumption, SMT DEF SeqNum, ImgSeq, App, Section

LEMMA Cells ==
  /\ Blank \notin Version /\ Bad \notin Version /\ Blank # Bad
  /\ Version \subseteq Cell /\ Blank \in Cell /\ Bad \in Cell
  BY CellAssumption DEF Cell

LEMMA SectionsOK == \A s : Sections(s) \subseteq Section /\ App \in Sections(s)
  BY Seqs DEF Sections

\* The part of the invariant that presumes no lapse.
Core == Chosen /\ Booting /\ Running /\ pc # "upgrade"

\* What the typing of the flash areas gives.
LEMMA Areas ==
  ASSUME TypeOK
  PROVE  /\ img \in [ImgSeq -> [Section -> Cell]]
         /\ img[0] \in [Section -> Cell] /\ img[1] \in [Section -> Cell]
         /\ DOMAIN img = ImgSeq
         /\ BootChoice \in ImgSeq /\ Target \in ImgSeq /\ running \in ImgSeq
         /\ Target # runningSeq
         /\ cfg \in {0, 1, 2} /\ writing \in {0, 1, 2} /\ cfgSeq \in {0, 1, 2}
         /\ loadSeq \in {0, 1} /\ runningSeq \in {0, 1}
  BY Seqs, SMT DEF TypeOK, BootChoice, Target, UpdateSeq

\* Erasing or writing area s leaves the other one alone.
LEMMA ErasedArea ==
  ASSUME TypeOK, NEW s \in ImgSeq
  PROVE  /\ Erased(s) \in [ImgSeq -> [Section -> Cell]]
         /\ \A t \in ImgSeq \ {s} : Erased(s)[t] = img[t]
         /\ \A k \in Section : Erased(s)[s][k] = Blank
  BY Areas, Cells DEF Erased

LEMMA ScrambledArea ==
  ASSUME TypeOK, NEW s \in ImgSeq, NEW new \in Scrambled(s)
  PROVE  /\ new \in [ImgSeq -> [Section -> Cell]]
         /\ \A t \in ImgSeq \ {s} : new[t] = img[t]
  BY Areas DEF Scrambled

LEMMA WrittenArea ==
  ASSUME TypeOK, NEW s \in ImgSeq, NEW k \in Section, NEW c \in Cell
  PROVE  /\ [img EXCEPT ![s][k] = c] \in [ImgSeq -> [Section -> Cell]]
         /\ \A t \in ImgSeq \ {s} : [img EXCEPT ![s][k] = c][t] = img[t]
         /\ [img EXCEPT ![s][k] = c][s] = [img[s] EXCEPT ![k] = c]
  BY Areas

\* An area that is left alone keeps its properties.
LEMMA KeptArea ==
  ASSUME NEW t, img'[t] = img[t], xz' = xz
  PROVE  /\ Valid(t)' <=> Valid(t)
         /\ AppLoads(t)' <=> AppLoads(t)
         /\ \A v : Is(t, v)' <=> Is(t, v)
  BY DEF Valid, AppLoads, Is, Sections

\* An intact image that is not a compressed one can be started.
LEMMA ValidLoads == \A s : Valid(s) /\ ~(xz /\ s = 1) => AppLoads(s)
  BY SectionsOK DEF Valid, AppLoads

LEMMA IsValid == \A s : \A v \in Version : Is(s, v) => Valid(s)
  BY DEF Is, Valid

-----------------------------------------------------------------------------
LEMMA InitInv == Init => IInv
  <1> SUFFICES ASSUME Init PROVE IInv
    OBVIOUS
  <1> PICK v \in Version :
        img = [s \in ImgSeq |-> [k \in Section |-> IF s = 0 THEN v ELSE Blank]]
    BY DEF Init
  <1>0. img \in [ImgSeq -> [Section -> Cell]]
    BY Cells
  <1>a. 1 \in 1 .. NSec + 1 /\ 0 \in 0 .. SeqNum /\ 0 \in ImgSeq
    BY Seqs, NSecAssumption, SMT
  <1>1. TypeOK
    BY <1>0, <1>a DEF Init, TypeOK
  <1>2. Is(0, v) /\ BootChoice = 0
    BY Seqs, SectionsOK DEF Init, Is, BootChoice
  <1>3. Chosen
    BY <1>2, IsValid DEF Init, Chosen
  <1>4. Booting /\ Running /\ pc # "upgrade" /\ Loop
    BY Seqs, SMT DEF Init, Booting, Running, Loop, Unpacking, InApp
  <1> QED
    BY <1>1, <1>3, <1>4 DEF IInv

\* Steps that change neither flash nor the place in a download.
LEMMA ReadCfgInv == IInv /\ ReadCfg /\ xz' = xz => IInv'
  <1> SUFFICES ASSUME IInv, ReadCfg, xz' = xz PROVE IInv'
    OBVIOUS
  <1>u. /\ img' = img /\ cfg' = cfg /\ writing' = writing /\ tries' = tries
        /\ running' = running /\ runningSeq' = runningSeq /\ build' = build
        /\ nextSec' = nextSec /\ due' = due /\ lapse' = lapse
        /\ pc = "boot" /\ cfgSeq' = cfg
        /\ loadSeq' = IF cfg = SeqNum THEN 0 ELSE cfg
    BY DEF ReadCfg, flash, appVars, history
  <1>v. \/ pc' = "xzErase" /\ xz /\ cfg = 1
        \/ pc' = "load" /\ ~(xz /\ cfg = 1)
        \/ pc' = "load" /\ cfg = 1 /\ img[1][App] = Bad
    BY DEF ReadCfg
  <1>1. TypeOK'
    BY <1>u, <1>v, Seqs, SMT DEF IInv, TypeOK
  <1>2. Loop'
    BY <1>u, <1>v, Seqs, SMT DEF IInv, Loop, Unpacking
  <1>3. ASSUME ~lapse PROVE Core'
    <2>1. Chosen /\ TypeOK
      BY <1>3 DEF IInv
    <2>2. Chosen'
      BY <1>u, <2>1 DEF Chosen, Valid, Is, BootChoice, Sections
    <2>3. loadSeq' = BootChoice /\ cfgSeq' = cfg /\ BootChoice' = BootChoice
      <3>1. cfg \in {0, 1, 2} /\ SeqNum = 2
        BY <2>1, Areas, Seqs
      <3> QED
        BY <1>u, <3>1, SMT DEF BootChoice
    <2>4. img[1][App] # Bad \/ cfg # 1
      BY <2>1, Cells, SectionsOK DEF Chosen, Valid, BootChoice
    <2>5. \/ pc' = "xzErase" /\ xz /\ cfg = 1
          \/ pc' = "load" /\ ~(xz /\ cfg = 1)
      BY <1>v, <2>4
    <2>6. Booting'
      <3>1. CASE pc' = "xzErase" /\ xz /\ cfg = 1
        BY <1>u, <2>3, <3>1 DEF Booting, Unpacking
      <3>2. CASE pc' = "load" /\ ~(xz /\ cfg = 1)
        <4>1. ~(xz /\ BootChoice = 1)
          BY <3>2, SMT DEF BootChoice
        <4>2. AppLoads(BootChoice)
          BY <2>1, <4>1, ValidLoads DEF Chosen
        <4>3. AppLoads(loadSeq)'
          BY <1>u, <2>3, <4>2 DEF AppLoads
        <4> QED
          BY <1>u, <2>3, <3>2, <4>3 DEF Booting, Unpacking
      <3> QED
        BY <2>5, <3>1, <3>2
    <2>7. Running' /\ pc' # "upgrade"
      BY <2>5 DEF Running, InApp
    <2> QED
      BY <2>2, <2>6, <2>7 DEF Core
  <1> QED
    BY <1>u, <1>1, <1>2, <1>3 DEF IInv, Core

\* The configuration register as image_set_cfg uses it.
LEMMA CfgSteps ==
  /\ \A s : Cfg!Begin(s) => writing = 2 /\ writing' = s /\ cfg' = cfg
  /\ CfgFails => writing # 2 /\ writing' = 2 /\ cfg' \in {cfg, 2, writing}
  /\ Cfg!Commit => writing # 2 /\ writing' = 2 /\ cfg' = writing
  BY Seqs DEF Cfg!Begin, Cfg!Commit, Cfg!Abandon, CfgFails

\* A configuration of image 1 makes it the choice, any other makes it image 0.
LEMMA Choice ==
  /\ cfg = 1 => BootChoice = 1
  /\ cfg # 1 => BootChoice = 0
  /\ cfg' = 1 => BootChoice' = 1
  /\ cfg' # 1 => BootChoice' = 0
  BY DEF BootChoice

LEMMA XzEraseInv == IInv /\ XzErase /\ xz' = xz => IInv'
  <1> SUFFICES ASSUME IInv, XzErase, xz' = xz PROVE IInv'
    OBVIOUS
  <1>u. /\ cfg' = cfg /\ writing' = writing /\ tries' = tries
        /\ loadSeq' = loadSeq /\ cfgSeq' = cfgSeq
        /\ running' = running /\ runningSeq' = runningSeq /\ build' = build
        /\ nextSec' = 1 /\ due' = due /\ pc = "xzErase"
    BY DEF XzErase, bootVars, appVars
  <1>v. \/ img' = Erased(0) /\ pc' = "xzWrite" /\ lapse' = lapse
        \/ img' \in Scrambled(0) /\ pc' = "upgrade" /\ lapse' = TRUE
    BY DEF XzErase
  <1>t. TypeOK /\ Loop /\ 0 \in ImgSeq /\ 1 \in ImgSeq \ {0}
    BY Seqs, SMT DEF IInv
  <1>i. img' \in [ImgSeq -> [Section -> Cell]] /\ img'[1] = img[1]
    <2>1. CASE img' = Erased(0)
      BY <1>t, <2>1, ErasedArea
    <2>2. CASE img' \in Scrambled(0)
      BY <1>t, <2>2, ScrambledArea
    <2> QED
      BY <1>v, <2>1, <2>2
  <1>1. TypeOK'
    <2>1. nextSec' \in 1 .. NSec + 1
      BY <1>u, NSecAssumption, SMT
    <2> QED
      BY <1>u, <1>v, <1>t, <1>i, <2>1 DEF TypeOK
  <1>2. Loop'
    BY <1>u, <1>v, <1>t DEF Loop, Unpacking
  <1>3. ASSUME ~lapse' PROVE Core'
    <2>1. ~lapse /\ pc' = "xzWrite" /\ Chosen /\ Booting
      BY <1>v, <1>3, <1>t DEF IInv, TypeOK
    <2>2. xz /\ cfg = 1 /\ cfgSeq = 1 /\ BootChoice = 1 /\ BootChoice' = 1
      BY <1>u, <2>1, Choice DEF Booting, Unpacking
    <2>3. Chosen'
      BY <1>u, <1>i, <2>1, <2>2, KeptArea DEF Chosen
    <2>4. Booting'
      BY <1>u, <2>1, <2>2, SMT DEF Booting, Unpacking, Section
    <2>5. Running' /\ pc' # "upgrade"
      BY <2>1 DEF Running, InApp
    <2> QED
      BY <2>3, <2>4, <2>5 DEF Core
  <1> QED
    BY <1>1, <1>2, <1>3 DEF IInv, Core

LEMMA XzWriteInv == IInv /\ XzWrite /\ xz' = xz => IInv'
  <1> SUFFICES ASSUME IInv, XzWrite, xz' = xz PROVE IInv'
    OBVIOUS
  <1>u. /\ cfg' = cfg /\ writing' = writing /\ tries' = tries
        /\ loadSeq' = loadSeq /\ cfgSeq' = cfgSeq
        /\ running' = running /\ runningSeq' = runningSeq /\ build' = build
        /\ due' = due /\ pc = "xzWrite"
    BY DEF XzWrite, bootVars, appVars
  <1>v. \/ /\ nextSec <= NSec /\ img[1][App] \in Version
           /\ img' = [img EXCEPT ![0][nextSec] = img[1][App]]
           /\ nextSec' = nextSec + 1 /\ pc' = "xzWrite" /\ lapse' = lapse
        \/ /\ nextSec > NSec \/ img[1][App] \notin Version
           /\ pc' = "xzCheck" /\ img' = img /\ nextSec' = nextSec /\ lapse' = lapse
        \/ /\ nextSec <= NSec
           /\ \E c \in {Blank, Bad} : img' = [img EXCEPT ![0][nextSec] = c]
           /\ pc' = "xzCheck" /\ lapse' = TRUE /\ nextSec' = nextSec
    BY DEF XzWrite
  <1>t. TypeOK /\ Loop /\ 0 \in ImgSeq /\ 1 \in ImgSeq \ {0}
    BY Seqs, SMT DEF IInv
  <1>n. /\ nextSec \in 1 .. NSec + 1 /\ nextSec' \in 1 .. NSec + 1
        /\ nextSec <= NSec => nextSec \in Section
    BY <1>v, <1>t, NSecAssumption, SMT DEF TypeOK, Section
  <1>i. img' \in [ImgSeq -> [Section -> Cell]] /\ img'[1] = img[1]
    BY <1>v, <1>t, <1>n, WrittenArea, Cells, Areas
  <1>1. TypeOK'
    BY <1>u, <1>v, <1>t, <1>i, <1>n DEF TypeOK
  <1>2. Loop'
    BY <1>u, <1>v, <1>t DEF Loop, Unpacking
  <1>3. ASSUME ~lapse' PROVE Core'
    <2>1. ~lapse /\ Chosen /\ Booting
      BY <1>v, <1>3, <1>t DEF IInv, TypeOK
    <2>2. xz /\ cfg = 1 /\ cfgSeq = 1 /\ BootChoice = 1 /\ BootChoice' = 1
      BY <1>u, <2>1, Choice DEF Booting, Unpacking
    <2>3. Chosen'
      BY <1>u, <1>i, <2>1, <2>2, KeptArea DEF Chosen
    <2>4. img[1][App] \in Version
      BY <2>1, <2>2, SectionsOK DEF Chosen, Valid
    <2>5. \A k \in Section : k < nextSec' => img'[0][k] = img[1][App]
      <3>1. \A k \in Section : k < nextSec => img[0][k] = img[1][App]
        BY <1>u, <2>1 DEF Booting
      <3>2. CASE img' = img /\ nextSec' = nextSec
        BY <3>1, <3>2
      <3>3. CASE /\ nextSec <= NSec /\ nextSec' = nextSec + 1
                 /\ img' = [img EXCEPT ![0][nextSec] = img[1][App]]
        <4>1. img'[0] = [img[0] EXCEPT ![nextSec] = img[1][App]]
          BY <1>t, <3>3, <1>n, WrittenArea, Areas, Cells, <2>4
        <4>2. \A k \in Section : k < nextSec + 1 => k < nextSec \/ k = nextSec
          BY <1>n, SMT DEF Section
        <4> QED
          BY <3>1, <3>3, <4>1, <4>2, <1>t, Areas
      <3> QED
        BY <1>3, <1>v, <3>2, <3>3
    <2>6. pc' = "xzCheck" => \A k \in Section : k < nextSec'
      BY <1>3, <1>v, <1>n, <2>4, NSecAssumption, SMT DEF Section
    <2>7. Booting'
      BY <1>u, <1>v, <1>i, <2>2, <2>5, <2>6 DEF Booting, Unpacking
    <2>8. Running' /\ pc' # "upgrade"
      BY <1>v DEF Running, InApp
    <2> QED
      BY <2>3, <2>7, <2>8 DEF Core
  <1> QED
    BY <1>1, <1>2, <1>3 DEF IInv, Core

\* The unpacked image is, section by section, the compressed one.
LEMMA Unpacked ==
  ASSUME Chosen, BootChoice = 1, \A k \in Section : img[0][k] = img[1][App]
  PROVE  Valid(0) /\ Valid(1) /\ (due # Blank => Is(0, due) /\ Is(1, due))
  BY SectionsOK DEF Chosen, Valid, Is

LEMMA XzCheckInv == IInv /\ XzCheck /\ xz' = xz => IInv'
  <1> SUFFICES ASSUME IInv, XzCheck, xz' = xz PROVE IInv'
    OBVIOUS
  <1>u. /\ img' = img /\ tries' = tries /\ loadSeq' = loadSeq /\ cfgSeq' = cfgSeq
        /\ running' = running /\ runningSeq' = runningSeq /\ build' = build
        /\ nextSec' = nextSec /\ due' = due /\ lapse' = lapse /\ pc = "xzCheck"
    BY DEF XzCheck, bootVars, appVars, history
  <1>v. /\ cfg' = cfg
        /\ \/ Valid(1) /\ writing' = 0 /\ pc' = "xzCfg"
           \/ ~Valid(1) /\ writing' = writing /\ pc' = "upgrade"
    BY CfgSteps DEF XzCheck
  <1>t. TypeOK /\ Loop /\ 0 \in ImgSeq /\ 0 # SeqNum
    BY Seqs, SMT DEF IInv
  <1>1. TypeOK'
    BY <1>u, <1>v, <1>t DEF TypeOK
  <1>2. Loop'
    BY <1>u, <1>v, <1>t DEF Loop, Unpacking
  <1>3. ASSUME ~lapse PROVE Core'
    <2>1. Chosen /\ Booting
      BY <1>3 DEF IInv
    <2>2. xz /\ cfg = 1 /\ cfgSeq = 1 /\ BootChoice = 1 /\ BootChoice' = 1
      BY <1>u, <1>v, <2>1, Choice DEF Booting, Unpacking
    <2>3. Chosen' /\ pc' = "xzCfg" /\ writing' = 0
      BY <1>u, <1>v, <2>1, <2>2, KeptArea DEF Chosen
    <2>4. Booting'
      BY <1>u, <1>v, <2>1, <2>2, <2>3 DEF Booting, Unpacking
    <2>5. Running' /\ pc' # "upgrade"
      BY <2>3 DEF Running, InApp
    <2> QED
      BY <2>3, <2>4, <2>5 DEF Core
  <1> QED
    BY <1>u, <1>1, <1>2, <1>3 DEF IInv, Core

LEMMA XzCfgInv == IInv /\ XzCfg /\ xz' = xz => IInv'
  <1> SUFFICES ASSUME IInv, XzCfg, xz' = xz PROVE IInv'
    OBVIOUS
  <1>u. /\ img' = img /\ tries' = tries /\ cfgSeq' = cfgSeq
        /\ running' = running /\ runningSeq' = runningSeq /\ build' = build
        /\ nextSec' = nextSec /\ due' = due /\ pc = "xzCfg"
    BY DEF XzCfg, appVars
  <1>v. /\ writing' = 2
        /\ \/ cfg' = writing /\ loadSeq' = 0 /\ pc' = "load" /\ lapse' = lapse
           \/ /\ cfg' \in {cfg, 2, writing} /\ loadSeq' = loadSeq
              /\ pc' = "upgrade" /\ lapse' = TRUE
    BY CfgSteps DEF XzCfg
  <1>t. TypeOK /\ Loop /\ 0 \in ImgSeq /\ SeqNum = 2
    BY Seqs, SMT DEF IInv
  <1>1. TypeOK'
    BY <1>u, <1>v, <1>t DEF TypeOK
  <1>2. Loop'
    BY <1>u, <1>v, <1>t DEF Loop, Unpacking
  <1>3. ASSUME ~lapse' PROVE Core'
    <2>1. ~lapse /\ Chosen /\ Booting /\ pc' = "load" /\ cfg' = writing /\ loadSeq' = 0
      BY <1>v, <1>3, <1>t DEF IInv, TypeOK
    <2>2. /\ BootChoice = 1 /\ writing = 0
          /\ \A k \in Section : img[0][k] = img[1][App]
      BY <1>u, <2>1, Choice DEF Booting, Unpacking
    <2>3. Valid(0) /\ (due # Blank => Is(0, due)) /\ AppLoads(0)
      <3>1. ~(xz /\ 0 = 1)
        BY SMT
      <3> QED
        BY <2>1, <2>2, <3>1, Unpacked, ValidLoads
    <2>4. cfg' = 0 /\ BootChoice' = 0
      <3>1. 0 # 1
        BY SMT
      <3> QED
        BY <2>1, <2>2, <3>1, Choice
    <2>5. Chosen' /\ AppLoads(0)'
      BY <1>u, <2>3, <2>4, KeptArea DEF Chosen
    <2>6. Booting'
      BY <1>u, <2>1, <2>4, <2>5 DEF Booting, Unpacking
    <2>7. Running' /\ pc' # "upgrade"
      BY <2>1 DEF Running, InApp
    <2> QED
      BY <2>5, <2>6, <2>7 DEF Core
  <1> QED
    BY <1>1, <1>2, <1>3 DEF IInv, Core

LEMMA TryNextInv == IInv /\ TryNext /\ xz' = xz => IInv'
  <1> SUFFICES ASSUME IInv, TryNext, xz' = xz PROVE IInv'
    OBVIOUS
  <1>u. /\ img' = img /\ cfg' = cfg /\ writing' = writing /\ cfgSeq' = cfgSeq
        /\ running' = running /\ runningSeq' = runningSeq /\ build' = build
        /\ nextSec' = nextSec /\ due' = due /\ lapse' = lapse /\ pc = "load"
        /\ ~AppLoads(loadSeq)
    BY DEF TryNext, flash, appVars, history
  <1>v. /\ loadSeq' = (loadSeq + 1) % SeqNum /\ tries' = tries + 1
        /\ pc' = IF tries' = SeqNum THEN "upgrade" ELSE "load"
    BY DEF TryNext
  <1>t. TypeOK /\ Loop /\ SeqNum = 2 /\ ImgSeq = {0, 1}
    BY Seqs DEF IInv
  <1>n. loadSeq' \in ImgSeq /\ tries' \in 0 .. SeqNum
    <2>1. loadSeq \in {0, 1} /\ tries \in 0 .. 2 /\ tries < 2
      BY <1>u, <1>t DEF TypeOK, Loop
    <2> QED
      BY <1>v, <1>t, <2>1, SMT
  <1>1. TypeOK'
    BY <1>u, <1>v, <1>t, <1>n DEF TypeOK
  <1>2. Loop'
    <2>1. tries' # SeqNum => tries' < SeqNum
      BY <1>n, <1>t, SMT
    <2> QED
      BY <1>u, <1>v, <1>t, <2>1 DEF Loop, Unpacking
  <1>3. lapse
    BY <1>u DEF IInv, Booting
  <1> QED
    BY <1>u, <1>1, <1>2, <1>3 DEF IInv

LEMMA RecordChoiceInv == IInv /\ RecordChoice /\ xz' = xz => IInv'
  <1> SUFFICES ASSUME IInv, RecordChoice, xz' = xz PROVE IInv'
    OBVIOUS
  <1>u. /\ img' = img /\ tries' = tries /\ loadSeq' = loadSeq /\ cfgSeq' = cfgSeq
        /\ running' = running /\ runningSeq' = runningSeq /\ build' = build
        /\ nextSec' = nextSec /\ due' = due /\ lapse' = lapse /\ pc = "load"
        /\ AppLoads(loadSeq) /\ loadSeq # cfgSeq /\ pc' = "bootCfg"
        /\ cfg' = cfg /\ writing' = loadSeq
    BY CfgSteps DEF RecordChoice, bootVars, appVars, history
  <1>t. TypeOK /\ Loop /\ SeqNum = 2 /\ ImgSeq = {0, 1}
    BY Seqs DEF IInv
  <1>1. TypeOK'
    BY <1>u, <1>t DEF TypeOK
  <1>2. Loop'
    <2>1. loadSeq # SeqNum
      BY <1>t, SMT DEF TypeOK
    <2> QED
      BY <1>u, <1>t, <2>1 DEF Loop, Unpacking
  <1>3. ASSUME ~lapse PROVE Core'
    <2>1. Chosen /\ loadSeq = BootChoice /\ (cfgSeq = cfg \/ cfg = 0)
      BY <1>u, <1>3 DEF IInv, Booting
    <2>2. cfg # 1 /\ loadSeq = 0
      <3>1. cfg = 1 => FALSE
        BY <1>u, <2>1, Choice, SMT
      <3> QED
        BY <2>1, <3>1, Choice
    <2>3. Chosen' /\ BootChoice' = 0 /\ AppLoads(loadSeq)'
      BY <1>u, <2>1, <2>2, Choice, KeptArea DEF Chosen
    <2>4. Booting'
      BY <1>u, <2>2, <2>3 DEF Booting, Unpacking
    <2>5. Running' /\ pc' # "upgrade"
      BY <1>u DEF Running, InApp
    <2> QED
      BY <2>3, <2>4, <2>5 DEF Core
  <1> QED
    BY <1>u, <1>1, <1>2, <1>3 DEF IInv, Core

LEMMA ChoiceRecordedInv == IInv /\ ChoiceRecorded /\ xz' = xz => IInv'
  <1> SUFFICES ASSUME IInv, ChoiceRecorded, xz' = xz PROVE IInv'
    OBVIOUS
  <1>u. /\ img' = img /\ tries' = tries /\ loadSeq' = loadSeq /\ cfgSeq' = cfgSeq
        /\ running' = running /\ runningSeq' = runningSeq /\ build' = build
        /\ nextSec' = nextSec /\ due' = due /\ lapse' = lapse /\ pc = "bootCfg"
        /\ pc' = "start" /\ writing' = 2 /\ cfg' \in {cfg, 2, writing}
    BY CfgSteps DEF ChoiceRecorded, bootVars, appVars, history
  <1>t. TypeOK /\ Loop /\ SeqNum = 2 /\ ImgSeq = {0, 1}
    BY Seqs DEF IInv
  <1>1. TypeOK'
    BY <1>u, <1>t DEF TypeOK
  <1>2. Loop'
    BY <1>u, <1>t DEF Loop, Unpacking
  <1>3. ASSUME ~lapse PROVE Core'
    <2>1. Chosen /\ loadSeq = 0 /\ writing = 0 /\ BootChoice = 0 /\ AppLoads(loadSeq)
      BY <1>u, <1>3 DEF IInv, Booting
    <2>2. cfg # 1 /\ cfg' # 1
      <3>1. cfg = 1 => FALSE
        BY <2>1, Choice, SMT
      <3>2. 2 # 1 /\ 0 # 1
        BY SMT
      <3> QED
        BY <1>u, <2>1, <3>1, <3>2
    <2>3. Chosen' /\ BootChoice' = 0 /\ AppLoads(loadSeq)'
      BY <1>u, <2>1, <2>2, Choice, KeptArea DEF Chosen
    <2>4. Booting'
      BY <1>u, <2>1, <2>3 DEF Booting, Unpacking
    <2>5. Running' /\ pc' # "upgrade"
      BY <1>u DEF Running, InApp
    <2> QED
      BY <2>3, <2>4, <2>5 DEF Core
  <1> QED
    BY <1>u, <1>1, <1>2, <1>3 DEF IInv, Core

LEMMA LoadChosenInv == IInv /\ LoadChosen /\ xz' = xz => IInv'
  <1> SUFFICES ASSUME IInv, LoadChosen, xz' = xz PROVE IInv'
    OBVIOUS
  <1>u. /\ img' = img /\ cfg' = cfg /\ writing' = writing /\ tries' = tries
        /\ loadSeq' = loadSeq /\ cfgSeq' = cfgSeq
        /\ running' = running /\ runningSeq' = runningSeq /\ build' = build
        /\ nextSec' = nextSec /\ due' = due /\ lapse' = lapse /\ pc = "load"
        /\ pc' = "start" /\ AppLoads(loadSeq)
    BY DEF LoadChosen, flash, bootVars, appVars, history
  <1>t. TypeOK /\ Loop
    BY DEF IInv
  <1>1. TypeOK'
    BY <1>u, <1>t DEF TypeOK
  <1>2. Loop'
    BY <1>u, <1>t DEF Loop, Unpacking
  <1>3. ASSUME ~lapse PROVE Core'
    <2>1. Chosen /\ loadSeq = BootChoice
      BY <1>u, <1>3 DEF IInv, Booting
    <2>2. Chosen' /\ BootChoice' = BootChoice /\ AppLoads(loadSeq)'
      BY <1>u, <2>1 DEF Chosen, Valid, Is, BootChoice, AppLoads, Sections
    <2>3. Booting'
      BY <1>u, <2>1, <2>2 DEF Booting, Unpacking
    <2>4. Running' /\ pc' # "upgrade"
      BY <1>u DEF Running, InApp
    <2> QED
      BY <2>2, <2>3, <2>4 DEF Core
  <1> QED
    BY <1>u, <1>1, <1>2, <1>3 DEF IInv, Core

LEMMA StartAppInv == IInv /\ StartApp /\ xz' = xz => IInv'
  <1> SUFFICES ASSUME IInv, StartApp, xz' = xz PROVE IInv'
    OBVIOUS
  <1>u. /\ img' = img /\ cfg' = cfg /\ writing' = writing /\ tries' = tries
        /\ loadSeq' = loadSeq /\ cfgSeq' = cfgSeq
        /\ running' = loadSeq /\ build' = build
        /\ runningSeq' = IF cfg = SeqNum THEN 0 ELSE cfg
        /\ nextSec' = nextSec /\ due' = Blank /\ lapse' = lapse /\ pc = "start"
        /\ pc' = "idle"
    BY DEF StartApp, flash, bootVars
  <1>t. TypeOK /\ Loop
    BY DEF IInv
  <1>n. runningSeq' = BootChoice
    <2>1. cfg \in {0, 1, 2} /\ SeqNum = 2
      BY <1>t, Areas, Seqs
    <2> QED
      BY <1>u, <2>1, SMT DEF BootChoice
  <1>1. TypeOK'
    BY <1>u, <1>n, <1>t, Areas DEF TypeOK
  <1>2. Loop'
    BY <1>u, <1>t DEF Loop, Unpacking
  <1>3. ASSUME ~lapse PROVE Core'
    <2>1. Chosen /\ loadSeq = BootChoice /\ AppLoads(loadSeq)
      BY <1>u, <1>3 DEF IInv, Booting
    <2>2. /\ Chosen' /\ BootChoice' = BootChoice /\ Valid(running)'
          /\ AppLoads(running)'
      BY <1>u, <2>1 DEF Chosen, Valid, Is, BootChoice, AppLoads, Sections
    <2>3. Booting'
      BY <1>u DEF Booting, Unpacking
    <2>4. Running' /\ pc' # "upgrade"
      BY <1>u, <1>n, <2>1, <2>2 DEF Running
    <2> QED
      BY <2>2, <2>3, <2>4 DEF Core
  <1> QED
    BY <1>u, <1>1, <1>2, <1>3 DEF IInv, Core

-----------------------------------------------------------------------------
\* While the application runs.
LEMMA AppFacts ==
  ASSUME IInv, ~lapse, InApp
  PROVE  /\ TypeOK /\ Loop /\ Chosen
         /\ Valid(running) /\ AppLoads(running) /\ runningSeq = running
         /\ pc \notin {"done", "failed"} => running = BootChoice
         /\ pc # "done" => due = Blank
         /\ running \in ImgSeq \ {Target} /\ Target \in ImgSeq
  BY Areas DEF IInv, Running

\* A step of the application that leaves the configuration and its own image
\* alone keeps everything but the progress of the download.
LEMMA AppStep ==
  ASSUME IInv, ~lapse, InApp, InApp', pc \notin {"done", "failed"},
         img'[running] = img[running], cfg' = cfg, xz' = xz,
         running' = running, runningSeq' = runningSeq, due' = due
  PROVE  /\ Chosen' /\ Booting' /\ Valid(running)' /\ AppLoads(running)'
         /\ runningSeq' = running' /\ running' = BootChoice'
         /\ due' = Blank /\ Target' = Target
  <1>1. BootChoice' = BootChoice /\ Target' = Target
    BY DEF BootChoice, Target
  <1>2. BootChoice = running /\ due = Blank /\ pc # "done"
    BY AppFacts DEF InApp
  <1>3. Chosen' /\ Valid(running)' /\ AppLoads(running)'
    BY <1>1, <1>2, AppFacts, KeptArea DEF Chosen
  <1>4. Booting'
    BY DEF Booting, Unpacking, InApp
  <1> QED
    BY <1>1, <1>2, <1>3, <1>4, AppFacts

LEMMA StartSessionInv == ASSUME NEW v \in Version, IInv, StartSession(v), xz' = xz PROVE IInv'
  <1>u. /\ img' = img /\ cfg' = cfg /\ writing' = writing /\ tries' = tries
        /\ loadSeq' = loadSeq /\ cfgSeq' = cfgSeq
        /\ running' = running /\ runningSeq' = runningSeq /\ build' = v
        /\ nextSec' = nextSec /\ due' = due
        /\ lapse' = (lapse \/ pc \in {"done", "failed"})
        /\ pc \in {"idle", "download", "done", "failed"} /\ pc' = "erase"
    BY DEF StartSession, flash, bootVars
  <1>t. TypeOK /\ Loop
    BY DEF IInv
  <1>1. TypeOK'
    BY <1>u, <1>t DEF TypeOK
  <1>2. Loop'
    BY <1>u, <1>t DEF Loop, Unpacking
  <1>3. ASSUME ~lapse' PROVE Core'
    <2>1. ~lapse /\ pc \notin {"done", "failed"} /\ InApp /\ InApp'
      BY <1>u, <1>3 DEF InApp
    <2>2. /\ Chosen' /\ Booting' /\ Valid(running)' /\ AppLoads(running)'
          /\ runningSeq' = running' /\ running' = BootChoice' /\ due' = Blank
      BY <1>u, <2>1, AppStep
    <2>3. Running' /\ pc' # "upgrade"
      BY <1>u, <2>2 DEF Running
    <2> QED
      BY <2>2, <2>3 DEF Core
  <1> QED
    BY <1>1, <1>2, <1>3 DEF IInv, Core

LEMMA EraseTargetInv == IInv /\ EraseTarget /\ xz' = xz => IInv'
  <1> SUFFICES ASSUME IInv, EraseTarget, xz' = xz PROVE IInv'
    OBVIOUS
  <1>u. /\ cfg' = cfg /\ writing' = writing /\ tries' = tries
        /\ loadSeq' = loadSeq /\ cfgSeq' = cfgSeq
        /\ running' = running /\ runningSeq' = runningSeq /\ build' = build
        /\ nextSec' = 1 /\ due' = due /\ lapse' = lapse /\ pc = "erase"
    BY DEF EraseTarget, bootVars, appVars, history
  <1>v. \/ img' = Erased(Target) /\ pc' = "download"
        \/ img' \in Scrambled(Target) /\ pc' = "idle"
    BY DEF EraseTarget
  <1>t. TypeOK /\ Loop /\ Target \in ImgSeq
    BY Areas DEF IInv
  <1>i. /\ img' \in [ImgSeq -> [Section -> Cell]]
        /\ \A t \in ImgSeq \ {Target} : img'[t] = img[t]
        /\ pc' = "download" => \A k \in Section : img'[Target][k] = Blank
    <2>1. CASE img' = Erased(Target)
      BY <1>t, <2>1, ErasedArea
    <2>2. CASE img' \in Scrambled(Target) /\ pc' = "idle"
      BY <1>t, <2>2, ScrambledArea
    <2> QED
      BY <1>v, <2>1, <2>2
  <1>1. TypeOK'
    <2>1. nextSec' \in 1 .. NSec + 1
      BY <1>u, NSecAssumption, SMT
    <2> QED
      BY <1>u, <1>v, <1>t, <1>i, <2>1 DEF TypeOK
  <1>2. Loop'
    BY <1>u, <1>v, <1>t DEF Loop, Unpacking
  <1>3. ASSUME ~lapse PROVE Core'
    <2>1. InApp /\ InApp' /\ pc \notin {"done", "failed"}
      BY <1>u, <1>v DEF InApp
    <2>2. img'[running] = img[running]
      BY <1>3, <1>i, <2>1, AppFacts
    <2>3. /\ Chosen' /\ Booting' /\ Valid(running)' /\ AppLoads(running)'
          /\ runningSeq' = running' /\ running' = BootChoice' /\ due' = Blank
          /\ Target' = Target
      BY <1>u, <1>3, <2>1, <2>2, AppStep
    <2>4. build' \in Version
      BY <1>u, <1>3 DEF IInv, Running
    <2>5. pc' = "download" => \A k \in Sections(Target') : img'[Target'][k] = Blank
      BY <1>i, <2>3, SectionsOK
    <2>6. Running' /\ pc' # "upgrade"
      BY <1>v, <2>3, <2>4, <2>5 DEF Running, Sections
    <2> QED
      BY <2>3, <2>6 DEF Core
  <1> QED
    BY <1>u, <1>1, <1>2, <1>3 DEF IInv, Core

LEMMA ReceiveSectionInv == IInv /\ ReceiveSection /\ xz' = xz => IInv'
  <1> SUFFICES ASSUME IInv, ReceiveSection, xz' = xz PROVE IInv'
    OBVIOUS
  <1>u. /\ cfg' = cfg /\ writing' = writing /\ tries' = tries
        /\ loadSeq' = loadSeq /\ cfgSeq' = cfgSeq
        /\ running' = running /\ runningSeq' = runningSeq /\ build' = build
        /\ nextSec' = nextSec + 1 /\ due' = due /\ lapse' = lapse
        /\ pc = "download" /\ pc' = pc /\ nextSec \in Section
    BY SectionsOK DEF ReceiveSection, bootVars, appVars, history
  <1>c. PICK c \in {build, Bad} : img' = [img EXCEPT ![Target][nextSec] = c]
    BY DEF ReceiveSection
  <1>t. TypeOK /\ Loop /\ Target \in ImgSeq /\ c \in Cell
    BY <1>c, Areas, Cells DEF IInv, TypeOK
  <1>i. /\ img' \in [ImgSeq -> [Section -> Cell]]
        /\ \A t \in ImgSeq \ {Target} : img'[t] = img[t]
        /\ img'[Target] = [img[Target] EXCEPT ![nextSec] = c]
    BY <1>u, <1>c, <1>t, WrittenArea
  <1>1. TypeOK'
    <2>1. nextSec' \in 1 .. NSec + 1
      BY <1>u, NSecAssumption, SMT DEF Section
    <2> QED
      BY <1>u, <1>t, <1>i, <2>1 DEF TypeOK
  <1>2. Loop'
    BY <1>u, <1>t DEF Loop, Unpacking
  <1>3. ASSUME ~lapse PROVE Core'
    <2>1. InApp /\ InApp' /\ pc \notin {"done", "failed"}
      BY <1>u DEF InApp
    <2>2. img'[running] = img[running]
      BY <1>3, <1>i, <2>1, AppFacts
    <2>3. /\ Chosen' /\ Booting' /\ Valid(running)' /\ AppLoads(running)'
          /\ runningSeq' = running' /\ running' = BootChoice' /\ due' = Blank
          /\ Target' = Target
      BY <1>u, <1>3, <2>1, <2>2, AppStep
    <2>4. /\ build' \in Version
          /\ \A k \in Sections(Target) : img[Target][k] \in {Blank, Bad, build}
      BY <1>u, <1>3 DEF IInv, Running
    <2>5. \A k \in Sections(Target') : img'[Target'][k] \in {Blank, Bad, build'}
      BY <1>u, <1>c, <1>t, <1>i, <2>3, <2>4, SectionsOK, Areas
    <2>6. Running' /\ pc' # "upgrade"
      BY <1>u, <2>3, <2>4, <2>5 DEF Running, Sections
    <2> QED
      BY <2>3, <2>6 DEF Core
  <1> QED
    BY <1>u, <1>1, <1>2, <1>3 DEF IInv, Core

LEMMA EndOfImageInv == IInv /\ EndOfImage /\ xz' = xz => IInv'
  <1> SUFFICES ASSUME IInv, EndOfImage, xz' = xz PROVE IInv'
    OBVIOUS
  <1>u. /\ img' = img /\ cfg' = cfg /\ writing' = writing /\ tries' = tries
        /\ loadSeq' = loadSeq /\ cfgSeq' = cfgSeq
        /\ running' = running /\ runningSeq' = runningSeq /\ build' = build
        /\ nextSec' = nextSec /\ due' = due /\ lapse' = lapse
        /\ pc = "download" /\ pc' = "check"
    BY DEF EndOfImage, flash, bootVars, appVars, history
  <1>t. TypeOK /\ Loop
    BY DEF IInv
  <1>1. TypeOK'
    BY <1>u, <1>t DEF TypeOK
  <1>2. Loop'
    BY <1>u, <1>t DEF Loop, Unpacking
  <1>3. ASSUME ~lapse PROVE Core'
    <2>1. InApp /\ InApp' /\ pc \notin {"done", "failed"}
      BY <1>u DEF InApp
    <2>2. /\ Chosen' /\ Booting' /\ Valid(running)' /\ AppLoads(running)'
          /\ runningSeq' = running' /\ running' = BootChoice' /\ due' = Blank
          /\ Target' = Target
      BY <1>u, <1>3, <2>1, AppStep
    <2>3. /\ build' \in Version
          /\ \A k \in Sections(Target) : img[Target][k] \in {Blank, Bad, build}
      BY <1>u, <1>3 DEF IInv, Running
    <2>4. \A k \in Sections(Target') : img'[Target'][k] \in {Blank, Bad, build'}
      BY <1>u, <2>2, <2>3
    <2>5. Running' /\ pc' # "upgrade"
      BY <1>u, <2>2, <2>3, <2>4 DEF Running, Sections
    <2> QED
      BY <2>2, <2>5 DEF Core
  <1> QED
    BY <1>u, <1>1, <1>2, <1>3 DEF IInv, Core

LEMMA AbortDownloadInv == IInv /\ AbortDownload /\ xz' = xz => IInv'
  <1> SUFFICES ASSUME IInv, AbortDownload, xz' = xz PROVE IInv'
    OBVIOUS
  <1>u. /\ cfg' = cfg /\ writing' = writing /\ tries' = tries
        /\ loadSeq' = loadSeq /\ cfgSeq' = cfgSeq
        /\ running' = running /\ runningSeq' = runningSeq /\ build' = build
        /\ nextSec' = nextSec /\ due' = due /\ lapse' = lapse
        /\ pc = "download" /\ pc' = "idle"
    BY DEF AbortDownload, bootVars, appVars, history
  <1>t. TypeOK /\ Loop /\ Target \in ImgSeq
    BY Areas DEF IInv
  <1>i. /\ img' \in [ImgSeq -> [Section -> Cell]]
        /\ \A t \in ImgSeq \ {Target} : img'[t] = img[t]
    <2>1. CASE img' = img
      BY <1>t, <2>1, Areas
    <2>2. CASE nextSec \in Section /\ img' = [img EXCEPT ![Target][nextSec] = Bad]
      BY <1>t, <2>2, WrittenArea, Cells
    <2> QED
      BY <2>1, <2>2, SectionsOK DEF AbortDownload
  <1>1. TypeOK'
    BY <1>u, <1>t, <1>i DEF TypeOK
  <1>2. Loop'
    BY <1>u, <1>t DEF Loop, Unpacking
  <1>3. ASSUME ~lapse PROVE Core'
    <2>1. InApp /\ InApp' /\ pc \notin {"done", "failed"}
      BY <1>u DEF InApp
    <2>2. img'[running] = img[running]
      BY <1>3, <1>i, <2>1, AppFacts
    <2>3. /\ Chosen' /\ Booting' /\ Valid(running)' /\ AppLoads(running)'
          /\ runningSeq' = running' /\ running' = BootChoice' /\ due' = Blank
      BY <1>u, <1>3, <2>1, <2>2, AppStep
    <2>4. Running' /\ pc' # "upgrade"
      BY <1>u, <2>3 DEF Running
    <2> QED
      BY <2>3, <2>4 DEF Core
  <1> QED
    BY <1>u, <1>1, <1>2, <1>3 DEF IInv, Core

LEMMA CheckSectionsInv == IInv /\ CheckSections /\ xz' = xz => IInv'
  <1> SUFFICES ASSUME IInv, CheckSections, xz' = xz PROVE IInv'
    OBVIOUS
  <1>u. /\ img' = img /\ cfg' = cfg /\ writing' = writing /\ tries' = tries
        /\ loadSeq' = loadSeq /\ cfgSeq' = cfgSeq
        /\ running' = running /\ runningSeq' = runningSeq /\ build' = build
        /\ nextSec' = nextSec /\ due' = due /\ lapse' = lapse /\ pc = "check"
        /\ \/ pc' = "verify" /\ Valid(Target)
           \/ pc' = "idle"
    BY DEF CheckSections, flash, bootVars, appVars, history
  <1>t. TypeOK /\ Loop
    BY DEF IInv
  <1>1. TypeOK'
    BY <1>u, <1>t DEF TypeOK
  <1>2. Loop'
    BY <1>u, <1>t DEF Loop, Unpacking
  <1>3. ASSUME ~lapse PROVE Core'
    <2>1. InApp /\ InApp' /\ pc \notin {"done", "failed"}
      BY <1>u DEF InApp
    <2>2. /\ Chosen' /\ Booting' /\ Valid(running)' /\ AppLoads(running)'
          /\ runningSeq' = running' /\ running' = BootChoice' /\ due' = Blank
          /\ Target' = Target
      BY <1>u, <1>3, <2>1, AppStep
    <2>3. /\ build' \in Version
          /\ \A k \in Sections(Target) : img[Target][k] \in {Blank, Bad, build}
      BY <1>u, <1>3 DEF IInv, Running
    <2>4. Valid(Target) => Is(Target, build)
      BY <2>3, Cells DEF Valid, Is
    <2>5. pc' = "verify" => Is(Target, build)'
      BY <1>u, <2>2, <2>4, KeptArea DEF Is, Sections
    <2>6. Running' /\ pc' # "upgrade"
      BY <1>u, <2>2, <2>3, <2>5 DEF Running
    <2> QED
      BY <2>2, <2>6 DEF Core
  <1> QED
    BY <1>u, <1>1, <1>2, <1>3 DEF IInv, Core

LEMMA VerifyImageInv == IInv /\ VerifyImage /\ xz' = xz => IInv'
  <1> SUFFICES ASSUME IInv, VerifyImage, xz' = xz PROVE IInv'
    OBVIOUS
  <1>u. /\ img' = img /\ tries' = tries /\ loadSeq' = loadSeq /\ cfgSeq' = cfgSeq
        /\ running' = running /\ runningSeq' = runningSeq /\ build' = build
        /\ nextSec' = nextSec /\ due' = due /\ lapse' = lapse /\ pc = "verify"
    BY DEF VerifyImage, bootVars, appVars, history
  <1>v. /\ cfg' = cfg
        /\ \/ writing' = Target /\ pc' = "appCfg"
           \/ writing' = writing /\ pc' = "idle"
    BY CfgSteps DEF VerifyImage
  <1>t. TypeOK /\ Loop /\ Target \in ImgSeq /\ Target # SeqNum
    <2>1. TypeOK /\ Loop /\ Target \in {0, 1} /\ SeqNum = 2
      BY Areas, Seqs DEF IInv
    <2> QED
      BY <2>1, Seqs, SMT
  <1>1. TypeOK'
    BY <1>u, <1>v, <1>t DEF TypeOK
  <1>2. Loop'
    BY <1>u, <1>v, <1>t DEF Loop, Unpacking
  <1>3. ASSUME ~lapse PROVE Core'
    <2>1. InApp /\ InApp' /\ pc \notin {"done", "failed"}
      BY <1>u, <1>v DEF InApp
    <2>2. /\ Chosen' /\ Booting' /\ Valid(running)' /\ AppLoads(running)'
          /\ runningSeq' = running' /\ running' = BootChoice' /\ due' = Blank
          /\ Target' = Target
      BY <1>u, <1>v, <1>3, <2>1, AppStep
    <2>3. build' \in Version /\ Is(Target, build)
      BY <1>u, <1>3 DEF IInv, Running
    <2>4. Is(Target, build)'
      BY <1>u, <2>2, <2>3 DEF Is, Sections
    <2>5. Running' /\ pc' # "upgrade"
      BY <1>v, <2>2, <2>3, <2>4 DEF Running
    <2> QED
      BY <2>2, <2>5 DEF Core
  <1> QED
    BY <1>u, <1>1, <1>2, <1>3 DEF IInv, Core

\* While the new configuration is written both images are intact.
LEMMA SetCfgInv == IInv /\ SetCfg /\ xz' = xz => IInv'
  <1> SUFFICES ASSUME IInv, SetCfg, xz' = xz PROVE IInv'
    OBVIOUS
  <1>u. /\ img' = img /\ tries' = tries /\ loadSeq' = loadSeq /\ cfgSeq' = cfgSeq
        /\ running' = running /\ runningSeq' = runningSeq /\ build' = build
        /\ nextSec' = nextSec /\ lapse' = lapse /\ pc = "appCfg"
    BY DEF SetCfg, bootVars, appVars
  <1>v. /\ writing' = 2
        /\ \/ cfg' = writing /\ pc' = "done" /\ due' = build
           \/ cfg' \in {cfg, 2, writing} /\ pc' = "failed" /\ due' = due
    BY CfgSteps DEF SetCfg
  <1>t. TypeOK /\ Loop /\ SeqNum = 2
    BY Seqs DEF IInv
  <1>1. TypeOK'
    BY <1>u, <1>v, <1>t DEF TypeOK
  <1>2. Loop'
    BY <1>u, <1>v, <1>t DEF Loop, Unpacking
  <1>3. ASSUME ~lapse PROVE Core'
    <2>1. /\ Valid(running) /\ AppLoads(running) /\ runningSeq = running
          /\ due = Blank /\ running \in ImgSeq \ {Target} /\ Target \in ImgSeq
      BY <1>u, <1>3, AppFacts DEF InApp
    <2>2. build \in Version /\ Is(Target, build) /\ writing = Target
      BY <1>u, <1>3 DEF IInv, Running
    <2>3. Valid(running)' /\ AppLoads(running)' /\ Is(Target, build)'
      <3>1. Target' = Target
        BY <1>u DEF Target
      <3> QED
        BY <1>u, <2>1, <2>2, <3>1 DEF Valid, AppLoads, Is, Sections
    <2>4. Chosen'
      <3>1. \A s \in ImgSeq : Valid(s) /\ (s = Target => Is(s, build))
        BY <2>1, <2>2, IsValid, Seqs
      <3>2. CASE cfg' = writing /\ due' = build
        <4>1. BootChoice' = Target
          <5>1. Target \in {0, 1} /\ cfg' = Target
            BY <2>1, <2>2, <3>2, Seqs
          <5> QED
            BY <5>1, Choice
        <4>2. Valid(Target)' /\ Is(Target, build)'
          BY <1>u, <2>1, <3>1, <2>3 DEF Valid, Target, Sections
        <4> QED
          BY <1>u, <3>2, <4>1, <2>1, <2>2, <3>1, KeptArea DEF Chosen
      <3>3. CASE due' = due
        <4>1. BootChoice' \in ImgSeq
          BY Choice, Seqs
        <4> QED
          BY <1>u, <3>1, <3>3, <4>1, <2>1, KeptArea DEF Chosen
      <3> QED
        BY <1>v, <3>2, <3>3
    <2>5. Booting'
      BY <1>v DEF Booting, Unpacking
    <2>6. Running' /\ pc' # "upgrade"
      BY <1>u, <1>v, <2>1, <2>3 DEF Running
    <2> QED
      BY <2>4, <2>5, <2>6 DEF Core
  <1> QED
    BY <1>u, <1>1, <1>2, <1>3 DEF IInv, Core

-----------------------------------------------------------------------------
\* A reset keeps the invariant when the flash still starts an intact image.
LEMMA RestartInv ==
  ASSUME IInv, Restart, lapse' = lapse, due' = due, writing' = 2,
         cfg' \in {0, 1, 2}, img' \in [ImgSeq -> [Section -> Cell]],
         ~lapse => Chosen'
  PROVE  IInv'
  <1>1. TypeOK'
    <2>1. 1 \in 1 .. NSec + 1 /\ 0 \in 0 .. SeqNum
      BY NSecAssumption, SMT DEF SeqNum
    <2> QED
      BY <2>1, Seqs DEF Restart, IInv, TypeOK
  <1>2. Loop'
    BY Seqs, SMT DEF Restart, Loop, Unpacking
  <1>3. Booting' /\ Running' /\ pc' # "upgrade"
    BY DEF Restart, Booting, Running, Unpacking, InApp
  <1> QED
    BY <1>1, <1>2, <1>3 DEF IInv

LEMMA RebootInv == IInv /\ Reboot => IInv'
  <1> SUFFICES ASSUME IInv, Reboot PROVE IInv'
    OBVIOUS
  <1>u. /\ img' = img /\ cfg' = cfg /\ writing' = writing
        /\ due' = due /\ lapse' = lapse /\ pc = "done" /\ Restart /\ xz' = xz
    BY DEF Reboot, Restart, flash, history
  <1>1. writing = 2 /\ cfg \in {0, 1, 2} /\ img \in [ImgSeq -> [Section -> Cell]]
    BY <1>u, Areas, Seqs DEF IInv, Loop
  <1>2. ~lapse => Chosen'
    BY <1>u DEF IInv, Chosen, Valid, Is, BootChoice, Sections
  <1> QED
    BY <1>u, <1>1, <1>2, RestartInv

\* A power failure damages only the area that is being written.
LEMMA Damage ==
  ASSUME TypeOK, NEW new \in DamagedImages
  PROVE  /\ new \in [ImgSeq -> [Section -> Cell]]
         /\ pc \in {"erase", "download"} => \A t \in ImgSeq \ {Target} : new[t] = img[t]
         /\ pc \in {"xzErase", "xzWrite"} => new[1] = img[1]
         /\ pc \notin {"erase", "download", "xzErase", "xzWrite"} => new = img
  <1>t. /\ 0 \in ImgSeq /\ 1 \in ImgSeq \ {0} /\ Target \in ImgSeq
        /\ build \in Cell /\ img[1][App] \in Cell
        /\ img \in [ImgSeq -> [Section -> Cell]]
    <2>1. 0 # 1
      BY SMT
    <2> QED
      BY <2>1, Seqs, Areas, Cells DEF TypeOK
  <1>1. CASE pc = "erase"
    <2>1. new \in Scrambled(Target)
      BY <1>1 DEF DamagedImages
    <2> QED
      BY <1>1, <1>t, <2>1, ScrambledArea
  <1>2. CASE pc = "download"
    <2>1. \/ new = img
          \/ \E k \in {nextSec} \cap Sections(Target), c \in {Bad, build} :
               new = [img EXCEPT ![Target][k] = c]
      BY <1>2 DEF DamagedImages
    <2> QED
      BY <1>2, <1>t, <2>1, WrittenArea, SectionsOK, Cells
  <1>3. CASE pc = "xzErase"
    <2>1. new \in Scrambled(0)
      BY <1>3 DEF DamagedImages
    <2> QED
      BY <1>3, <1>t, <2>1, ScrambledArea
  <1>4. CASE pc = "xzWrite"
    <2>1. \/ new = img
          \/ \E k \in {nextSec} \cap Section, c \in {Bad, img[1][App]} :
               new = [img EXCEPT ![0][k] = c]
      BY <1>4 DEF DamagedImages
    <2> QED
      BY <1>4, <1>t, <2>1, WrittenArea, Cells
  <1>5. CASE pc \notin {"erase", "download", "xzErase", "xzWrite"}
    <2>1. new = img
      BY <1>5 DEF DamagedImages
    <2> QED
      BY <1>5, <1>t, <2>1
  <1> QED
    BY <1>1, <1>2, <1>3, <1>4, <1>5

LEMMA PowerLossInv == IInv /\ PowerLoss => IInv'
  <1> SUFFICES ASSUME IInv, PowerLoss PROVE IInv'
    OBVIOUS
  <1>u. /\ due' = due /\ lapse' = lapse /\ Restart /\ xz' = xz /\ img' \in DamagedImages
    BY DEF PowerLoss, Restart, history
  <1>c. \/ writing = 2 /\ writing' = 2 /\ cfg' = cfg
        \/ writing # 2 /\ writing' = 2 /\ cfg' \in {cfg, 2, writing}
    BY CfgSteps, Seqs DEF PowerLoss, CfgFails
  <1>t. TypeOK /\ Loop /\ SeqNum = 2 /\ writing' = 2
    BY <1>c, Seqs DEF IInv
  <1>i. /\ img' \in [ImgSeq -> [Section -> Cell]]
        /\ pc \in {"erase", "download"} => \A t \in ImgSeq \ {Target} : img'[t] = img[t]
        /\ pc \in {"xzErase", "xzWrite"} => img'[1] = img[1]
        /\ pc \notin {"erase", "download", "xzErase", "xzWrite"} => img' = img
    BY <1>u, <1>t, Damage
  <1>1. cfg' \in {0, 1, 2}
    BY <1>c, <1>t, Areas
  <1>2. ASSUME ~lapse PROVE Chosen'
    <2>0. Chosen /\ Booting
      BY <1>2 DEF IInv
    <2>1. CASE cfg' = cfg /\ img'[BootChoice] = img[BootChoice]
      <3>1. BootChoice' = BootChoice
        BY <2>1, Choice
      <3> QED
        BY <1>u, <2>0, <2>1, <3>1, KeptArea DEF Chosen
    <2>2. CASE pc \in {"erase", "download"}
      <3>1. cfg' = cfg
        BY <1>c, <1>t, <2>2 DEF Loop
      <3>2. BootChoice \in ImgSeq \ {Target}
        BY <1>2, <2>2, AppFacts DEF InApp
      <3> QED
        BY <1>i, <2>1, <2>2, <3>1, <3>2
    <2>3. CASE pc \in {"xzErase", "xzWrite"}
      <3>1. cfg' = cfg
        BY <1>c, <1>t, <2>3 DEF Loop
      <3>2. BootChoice = 1
        BY <2>0, <2>3, Choice DEF Booting, Unpacking
      <3> QED
        BY <1>i, <2>1, <2>3, <3>1, <3>2
    <2>4. CASE pc = "xzCfg"
      <3>1. Valid(0) /\ Valid(1) /\ (due # Blank => Is(0, due) /\ Is(1, due))
        BY <2>0, <2>4, Unpacked, Choice DEF Booting, Unpacking
      <3> QED
        BY <1>u, <1>i, <2>4, <3>1, KeptArea, Choice DEF Chosen
    <2>5. CASE pc = "bootCfg"
      <3>1. writing = 0 /\ BootChoice = 0
        BY <2>0, <2>5 DEF Booting
      <3>2. 0 # 1 /\ 2 # 1
        BY SMT
      <3>3. cfg' # 1
        BY <1>c, <3>1, <3>2, Choice
      <3>4. BootChoice' = BootChoice /\ img' = img
        BY <1>i, <2>5, <3>1, <3>3, Choice
      <3> QED
        BY <1>u, <2>0, <3>4, KeptArea DEF Chosen
    <2>6. CASE pc = "appCfg"
      <3>1. /\ Valid(running) /\ due = Blank /\ running \in ImgSeq \ {Target}
            /\ Target \in ImgSeq
        BY <1>2, <2>6, AppFacts DEF InApp
      <3>2. Valid(Target)
        BY <1>2, <2>6, IsValid DEF IInv, Running
      <3>3. Valid(0) /\ Valid(1)
        BY <3>1, <3>2, Seqs
      <3> QED
        BY <1>u, <1>i, <2>6, <3>1, <3>3, KeptArea, Choice DEF Chosen
    <2>7. CASE pc \notin {"erase", "download", "xzErase", "xzWrite", "xzCfg",
                          "bootCfg", "appCfg"}
      <3>1. cfg' = cfg
        BY <1>c, <1>t, <2>7 DEF Loop
      <3> QED
        BY <1>i, <2>1, <2>7, <3>1
    <2> QED
      BY <2>2, <2>3, <2>4, <2>5, <2>6, <2>7
  <1> QED
    BY <1>u, <1>t, <1>i, <1>1, <1>2, RestartInv

-----------------------------------------------------------------------------
LEMMA NextInv == IInv /\ [Next]_vars => IInv'
  <1> SUFFICES ASSUME IInv, [Next]_vars PROVE IInv'
    OBVIOUS
  <1>1. CASE BootNext
    BY <1>1, ReadCfgInv, XzEraseInv, XzWriteInv, XzCheckInv, XzCfgInv, TryNextInv,
       RecordChoiceInv, ChoiceRecordedInv, LoadChosenInv, StartAppInv DEF BootNext
  <1>2. CASE OtaNext
    BY <1>2, StartSessionInv, EraseTargetInv, ReceiveSectionInv, EndOfImageInv,
       AbortDownloadInv, CheckSectionsInv, VerifyImageInv, SetCfgInv DEF OtaNext
  <1>3. CASE Reboot
    BY <1>3, RebootInv
  <1>4. CASE PowerLoss
    BY <1>4, PowerLossInv
  <1>5. CASE UNCHANGED vars
    BY <1>5 DEF vars, IInv, TypeOK, Loop, Chosen, Booting, Running, Unpacking,
       InApp, Valid, AppLoads, Is, Sections, BootChoice, Target, UpdateSeq
  <1> QED
    BY <1>1, <1>2, <1>3, <1>4, <1>5 DEF Next

\* The inductive invariant holds: the configuration always leads a bootloader
\* to an intact image, whatever step a power failure interrupts.
THEOREM Invariant == Spec => []IInv
  BY InitInv, NextInv, PTL DEF Spec

\* Every variable of the update service and of the bootloader keeps its type.
THEOREM TypeCorrect == Spec => []TypeOK
  <1>1. IInv => TypeOK
    BY DEF IInv
  <1> QED
    BY <1>1, Invariant, PTL

\* image.c, ota.c, bl_load_bin: at every moment a reset would start, or
\* unpack, an image all of whose sections are intact.
THEOREM ResetIsSafe == Spec => []SafeToReset
  <1>1. IInv => SafeToReset
    BY DEF IInv, SafeToReset, Chosen
  <1> QED
    BY <1>1, Invariant, PTL

\* ota.c: the image the application runs from stays intact and is never the
\* one that is erased and written.
THEOREM RunningStaysIntact == Spec => []RunningIntact
  <1>1. IInv => RunningIntact
    BY Areas DEF IInv, RunningIntact, Running
  <1> QED
    BY <1>1, Invariant, PTL

\* bl_load_bin, bl_xz_image: the bootloader always finds an application.
THEOREM NotStranded == Spec => []NeverStranded
  <1>1. IInv => NeverStranded
    BY DEF IInv, NeverStranded
  <1> QED
    BY <1>1, Invariant, PTL

\* bl_load_bin: the first application started after a successful session is
\* the one that session installed.
THEOREM InstalledTakesOver == Spec => TakesOver
  <1>1. IInv /\ [Next]_vars => [StartApp /\ ~lapse => due = Blank \/ Is(loadSeq, due)]_vars
    BY DEF IInv, Booting, Chosen, StartApp
  <1> QED
    BY <1>1, Invariant, PTL DEF Spec, TakesOver

-----------------------------------------------------------------------------
(* The update as a single step *)

LEMMA KeptVersion ==
  ASSUME NEW t, img'[t] = img[t], xz' = xz
  PROVE  VersionOf(t)' = VersionOf(t)
  BY DEF VersionOf, Is, Sections

LEMMA VersionIs == \A s, v : Is(s, v) => VersionOf(s) = v
  BY SectionsOK DEF VersionOf, Is

\* A step that changes neither the image of the choice nor what runs.
LEMMA Unseen ==
  ASSUME ResetVersion' = ResetVersion, RunVersion' = RunVersion,
         Offered' = Offered, lapse' = lapse
  PROVE  UNCHANGED Update!updVars
  BY DEF Update!updVars

\* Neither does a step of the bootloader that leaves the choice alone.
LEMMA UnseenBoot ==
  ASSUME ~InApp, ~InApp', BootChoice' = BootChoice,
         img'[BootChoice] = img[BootChoice], xz' = xz, lapse' = lapse
  PROVE  UNCHANGED Update!updVars
  <1>1. ResetVersion' = ResetVersion
    BY KeptVersion DEF ResetVersion
  <1>2. RunVersion' = RunVersion /\ Offered' = Offered
    BY DEF RunVersion, Offered, InApp
  <1> QED
    BY <1>1, <1>2, Unseen

\* Or one of the application that writes elsewhere.
LEMMA UnseenApp ==
  ASSUME InApp, InApp', pc # "appCfg", pc' # "appCfg", cfg' = cfg,
         running' = running, img'[BootChoice] = img[BootChoice],
         img'[running] = img[running], xz' = xz, lapse' = lapse
  PROVE  UNCHANGED Update!updVars
  <1>1. BootChoice' = BootChoice
    BY DEF BootChoice
  <1>2. ResetVersion' = ResetVersion
    BY <1>1, KeptVersion DEF ResetVersion
  <1>3. RunVersion' = RunVersion /\ Offered' = Offered
    BY KeptVersion DEF RunVersion, Offered
  <1> QED
    BY <1>2, <1>3, Unseen

\* A lapse is for good, and the abstract device makes no promise after it.
LEMMA LapseStays ==
  ASSUME IInv, Next
  PROVE  /\ lapse \in BOOLEAN /\ lapse' \in BOOLEAN
         /\ lapse => lapse'
         /\ lapse' => Update!UpdNext
  <1>1. lapse \in BOOLEAN /\ lapse' \in BOOLEAN
    BY NextInv DEF IInv, TypeOK
  <1>2. lapse => lapse'
    BY <1>1 DEF Next, BootNext, OtaNext, Reboot, PowerLoss, history,
       ReadCfg, XzErase, XzWrite, XzCheck, XzCfg, TryNext, RecordChoice,
       ChoiceRecorded, LoadChosen, StartApp, StartSession, EraseTarget,
       ReceiveSection, EndOfImage, AbortDownload, CheckSections, VerifyImage, SetCfg
  <1>3. lapse' => Update!UpdNext
    BY <1>1 DEF Update!UpdNext
  <1> QED
    BY <1>1, <1>2, <1>3

LEMMA BootUpdates ==
  IInv /\ BootNext => Update!UpdNext \/ UNCHANGED Update!updVars
  <1> SUFFICES ASSUME IInv, BootNext, ~lapse, ~lapse'
               PROVE  Update!UpdNext \/ UNCHANGED Update!updVars
    BY LapseStays DEF Next
  <1>0. lapse' = lapse
    BY LapseStays, Zenon DEF Next
  <1>i. /\ TypeOK /\ Loop /\ Chosen /\ Booting /\ xz' = xz
    BY DEF IInv, BootNext
  <1>1. CASE ReadCfg \/ TryNext \/ LoadChosen \/ XzCheck \/ RecordChoice
    <2>1. img' = img /\ cfg' = cfg /\ ~InApp /\ ~InApp'
      BY <1>1, CfgSteps DEF ReadCfg, TryNext, LoadChosen, XzCheck, RecordChoice, flash, InApp
    <2>2. BootChoice' = BootChoice /\ img'[BootChoice] = img[BootChoice]
      BY <2>1 DEF BootChoice
    <2> QED
      BY <1>i, <1>0, <2>1, <2>2, UnseenBoot
  <1>2. CASE XzErase \/ XzWrite
    <2>1. cfg' = cfg /\ cfg = 1 /\ ~InApp /\ ~InApp'
      BY <1>i, <1>0, <1>2 DEF XzErase, XzWrite, Booting, Unpacking, InApp
    <2>2. img'[1] = img[1]
      <3>1. 0 \in ImgSeq /\ 1 \in ImgSeq \ {0}
        BY Seqs, SMT
      <3>2. CASE XzErase
        BY <1>i, <1>0, <3>1, <3>2, ErasedArea, ScrambledArea DEF XzErase
      <3>3. CASE XzWrite
        BY <1>i, <1>0, <3>1, <3>3, Areas DEF XzWrite
      <3> QED
        BY <1>2, <3>2, <3>3
    <2> QED
      BY <1>i, <1>0, <2>1, <2>2, UnseenBoot, Choice
  <1>3. CASE XzCfg
    <2>1. pc = "xzCfg" /\ cfg = 1 /\ img' = img /\ ~InApp /\ ~InApp' /\ cfg' = 0
      BY <1>i, <1>0, <1>3, CfgSteps DEF XzCfg, Booting, Unpacking, InApp
    <2>2. Is(0, img[1][App]) /\ Is(1, img[1][App]) /\ 0 # 1
      <3>1. \A k \in Section : img[0][k] = img[1][App]
        BY <1>i, <1>0, <2>1 DEF Booting
      <3>2. Sections(1) = {App}
        BY <1>i, <1>0, <2>1 DEF Booting, Unpacking, Sections
      <3> QED
        BY <3>1, <3>2, SectionsOK, SMT DEF Is
    <2>3. VersionOf(0) = VersionOf(1) /\ VersionOf(0)' = VersionOf(0)
      BY <1>i, <1>0, <2>1, <2>2, VersionIs, KeptVersion
    <2>4. ResetVersion' = ResetVersion
      BY <2>1, <2>2, <2>3, Choice DEF ResetVersion
    <2>5. RunVersion' = RunVersion /\ Offered' = Offered
      BY <2>1 DEF RunVersion, Offered, InApp
    <2> QED
      BY <1>i, <1>0, <2>4, <2>5, Unseen
  <1>4. CASE ChoiceRecorded
    <2>1. img' = img /\ ~InApp /\ ~InApp' /\ writing = 0 /\ cfg' \in {cfg, 2, writing}
      BY <1>i, <1>0, <1>4, CfgSteps DEF ChoiceRecorded, Booting, InApp
    <2>2. BootChoice = 0
      BY <1>i, <1>0, <1>4 DEF ChoiceRecorded, Booting
    <2>3. BootChoice' = BootChoice
      <3>1. 0 # 1 /\ 2 # 1
        BY SMT
      <3>2. cfg # 1
        BY <2>2, <3>1, Choice
      <3> QED
        BY <2>1, <2>2, <3>1, <3>2, Choice
    <2> QED
      BY <1>i, <1>0, <2>1, <2>3, UnseenBoot
  <1>5. CASE StartApp
    <2>1. /\ pc = "start" /\ pc' = "idle" /\ img' = img /\ cfg' = cfg
          /\ running' = loadSeq /\ loadSeq = BootChoice
      BY <1>i, <1>0, <1>5 DEF StartApp, Booting, flash
    <2>2. BootChoice' = BootChoice /\ ResetVersion' = ResetVersion
      BY <1>i, <1>0, <2>1, KeptVersion DEF BootChoice, ResetVersion
    <2>3. RunVersion = Blank /\ Offered = Blank /\ Offered' = Blank
      BY <2>1 DEF RunVersion, Offered, InApp
    <2>4. RunVersion' = ResetVersion
      BY <1>i, <1>0, <2>1, KeptVersion DEF RunVersion, InApp, ResetVersion
    <2>5. Update!Start
      BY <2>2, <2>3, <2>4 DEF Update!Start
    <2> QED
      BY <1>i, <1>0, <2>5 DEF Update!UpdNext
  <1> QED
    BY <1>1, <1>2, <1>3, <1>4, <1>5 DEF BootNext

\* While nothing is pending the application's writes go to the other area.
LEMMA WritesElsewhere ==
  ASSUME IInv, ~lapse, EraseTarget \/ ReceiveSection \/ AbortDownload
  PROVE  img'[BootChoice] = img[BootChoice] /\ img'[running] = img[running]
  <1>1. pc \in {"erase", "download"}
    BY DEF EraseTarget, ReceiveSection, AbortDownload
  <1>2. BootChoice \in ImgSeq \ {Target} /\ running = BootChoice /\ Target \in ImgSeq
    BY <1>1, AppFacts DEF InApp
  <1>t. TypeOK
    BY DEF IInv
  <1>3. CASE EraseTarget
    BY <1>t, <1>2, <1>3, ErasedArea, ScrambledArea DEF EraseTarget
  <1>4. CASE ReceiveSection \/ AbortDownload
    <2>1. \/ img' = img
          \/ \E k \in Section, c \in Cell : img' = [img EXCEPT ![Target][k] = c]
      BY <1>t, <1>4, Cells, SectionsOK DEF ReceiveSection, AbortDownload, TypeOK
    <2> QED
      BY <1>t, <1>2, <2>1, WrittenArea
  <1> QED
    BY <1>3, <1>4

LEMMA OtaUpdates ==
  IInv /\ OtaNext => Update!UpdNext \/ UNCHANGED Update!updVars
  <1> SUFFICES ASSUME IInv, OtaNext, ~lapse, ~lapse'
               PROVE  Update!UpdNext \/ UNCHANGED Update!updVars
    BY LapseStays DEF Next
  <1>0. lapse' = lapse /\ xz' = xz /\ TypeOK /\ Loop /\ Running
    <2>1. lapse' = lapse
      BY LapseStays, Zenon DEF Next
    <2> QED
      BY <2>1 DEF IInv, OtaNext
  <1>1. CASE \E v \in Version : StartSession(v)
    <2>1. /\ InApp /\ InApp' /\ pc # "appCfg" /\ pc' # "appCfg" /\ cfg' = cfg
          /\ running' = running /\ img' = img
      BY <1>1 DEF StartSession, InApp, flash
    <2> QED
      BY <1>0, <2>1, UnseenApp
  <1>2. CASE EraseTarget \/ ReceiveSection \/ AbortDownload
    <2>1. /\ InApp /\ InApp' /\ pc # "appCfg" /\ pc' # "appCfg" /\ cfg' = cfg
          /\ running' = running
      BY <1>2 DEF EraseTarget, ReceiveSection, AbortDownload, InApp, appVars
    <2> QED
      BY <1>0, <1>2, <2>1, WritesElsewhere, UnseenApp
  <1>3. CASE EndOfImage \/ CheckSections
    <2>1. /\ InApp /\ InApp' /\ pc # "appCfg" /\ pc' # "appCfg" /\ cfg' = cfg
          /\ running' = running /\ img' = img
      BY <1>3 DEF EndOfImage, CheckSections, InApp, flash, appVars
    <2> QED
      BY <1>0, <2>1, UnseenApp
  <1>4. CASE VerifyImage
    <2>1. /\ pc = "verify" /\ pc' \in {"appCfg", "idle"} /\ cfg' = cfg
          /\ running' = running /\ img' = img /\ build' = build /\ build \in Version
      BY <1>0, <1>4, CfgSteps DEF VerifyImage, appVars, Running
    <2>2. CASE pc' = "idle"
      BY <1>0, <2>1, <2>2, UnseenApp DEF InApp
    <2>3. CASE pc' = "appCfg"
      <3>1. ResetVersion' = ResetVersion
        BY <1>0, <2>1, KeptVersion DEF ResetVersion, BootChoice
      <3>2. RunVersion' = RunVersion /\ RunVersion = VersionOf(running)
        BY <1>0, <2>1, <2>3, KeptVersion DEF RunVersion, InApp
      <3>3. RunVersion # Blank
        <4>1. running \in ImgSeq /\ Valid(running)
          BY <1>0, <2>1 DEF Running, InApp, TypeOK
        <4>2. img[running][App] \in Version
          BY <4>1, SectionsOK DEF Valid
        <4> QED
          BY <3>2, <4>2, Cells DEF VersionOf
      <3>4. Offered = Blank /\ Offered' = build
        BY <2>1, <2>3 DEF Offered
      <3>5. Update!Verify(build)
        BY <3>1, <3>2, <3>3, <3>4 DEF Update!Verify
      <3> QED
        BY <1>0, <2>1, <3>5 DEF Update!UpdNext
    <2> QED
      BY <2>1, <2>2, <2>3
  <1>5. CASE SetCfg
    <2>1. /\ pc = "appCfg" /\ pc' \in {"done", "failed"} /\ img' = img
          /\ running' = running /\ cfg' \in {cfg, 2, writing}
      BY <1>5, CfgSteps DEF SetCfg, appVars
    <2>2. /\ writing = Target /\ Is(Target, build) /\ build \in Version
          /\ running \in ImgSeq \ {Target} /\ Target \in ImgSeq
          /\ BootChoice = running
      BY <1>0, <2>1, AppFacts DEF Running, InApp
    <2>3. RunVersion' = RunVersion /\ Offered = build /\ Offered' = Blank /\ build # Blank
      BY <1>0, <2>1, <2>2, KeptVersion, Cells DEF RunVersion, InApp, Offered
    <2>4. BootChoice' \in {running, Target}
      BY <2>2, Choice, Seqs
    <2>5. CASE BootChoice' = running
      <3>1. ResetVersion' = ResetVersion
        BY <1>0, <2>1, <2>2, <2>5, KeptVersion DEF ResetVersion
      <3>2. Update!Reject
        BY <2>3, <3>1 DEF Update!Reject
      <3> QED
        BY <1>0, <3>2 DEF Update!UpdNext
    <2>6. CASE BootChoice' = Target
      <3>1. ResetVersion' = build
        BY <1>0, <2>1, <2>2, <2>6, KeptVersion, VersionIs DEF ResetVersion
      <3>2. Update!Install
        BY <2>3, <3>1 DEF Update!Install
      <3> QED
        BY <1>0, <3>2 DEF Update!UpdNext
    <2> QED
      BY <2>4, <2>5, <2>6
  <1> QED
    BY <1>1, <1>2, <1>3, <1>4, <1>5 DEF OtaNext

LEMMA ResetUpdates ==
  IInv /\ (Reboot \/ PowerLoss) => Update!UpdNext \/ UNCHANGED Update!updVars
  <1> SUFFICES ASSUME IInv, Reboot \/ PowerLoss, ~lapse, ~lapse'
               PROVE  Update!UpdNext
    BY LapseStays DEF Next
  <1>0. lapse' = lapse /\ xz' = xz /\ TypeOK /\ Loop /\ Chosen /\ Booting /\ SeqNum = 2
    <2>1. lapse' = lapse
      BY LapseStays, Zenon DEF Next
    <2> QED
      BY <2>1, Seqs DEF IInv, Reboot, PowerLoss, Restart
  <1>1. RunVersion' = Blank /\ Offered' = Blank
    BY DEF Reboot, PowerLoss, Restart, RunVersion, Offered, InApp
  <1>2. ASSUME ResetVersion' = ResetVersion PROVE Update!UpdNext
    <2>1. Update!Reset
      BY <1>1, <1>2 DEF Update!Reset
    <2> QED
      BY <1>0, <2>1 DEF Update!UpdNext
  <1>3. ASSUME BootChoice' = BootChoice, img'[BootChoice] = img[BootChoice]
        PROVE  Update!UpdNext
    <2>1. ResetVersion' = ResetVersion
      BY <1>0, <1>3, KeptVersion DEF ResetVersion
    <2> QED
      BY <1>2, <2>1
  <1>4. CASE Reboot
    <2>1. BootChoice' = BootChoice /\ img' = img
      BY <1>4 DEF Reboot, flash, BootChoice
    <2> QED
      BY <1>3, <2>1
  <1>5. CASE PowerLoss
    <2>c. \/ writing = 2 /\ cfg' = cfg
          \/ writing # 2 /\ cfg' \in {cfg, 2, writing}
      BY <1>5, CfgSteps, Seqs DEF PowerLoss, CfgFails
    <2>i. /\ pc \in {"erase", "download"} => \A t \in ImgSeq \ {Target} : img'[t] = img[t]
          /\ pc \in {"xzErase", "xzWrite"} => img'[1] = img[1]
          /\ pc \notin {"erase", "download", "xzErase", "xzWrite"} => img' = img
      BY <1>0, <1>5, Damage DEF PowerLoss
    <2>k. pc \notin {"xzCfg", "bootCfg", "appCfg"} => BootChoice' = BootChoice
      BY <1>0, <2>c DEF Loop, BootChoice
    <2>1. CASE pc \in {"erase", "download"}
      <3>1. BootChoice \in ImgSeq \ {Target}
        BY <2>1, AppFacts DEF InApp
      <3> QED
        BY <1>3, <2>1, <2>i, <2>k, <3>1
    <2>2. CASE pc \in {"xzErase", "xzWrite"}
      <3>1. BootChoice = 1
        BY <1>0, <2>2, Choice DEF Booting, Unpacking
      <3> QED
        BY <1>3, <2>2, <2>i, <2>k, <3>1
    <2>3. CASE pc = "xzCfg"
      <3>1. BootChoice = 1 /\ img' = img /\ Sections(1) = {App}
        BY <1>0, <2>3, <2>i, Choice DEF Booting, Unpacking, Sections
      <3>2. Is(0, img[1][App]) /\ Is(1, img[1][App])
        BY <1>0, <2>3, <3>1, SectionsOK DEF Booting, Is
      <3>3. BootChoice' \in {0, 1}
        BY Choice
      <3>4. ResetVersion' = ResetVersion
        BY <1>0, <3>1, <3>2, <3>3, VersionIs, KeptVersion DEF ResetVersion
      <3> QED
        BY <1>2, <3>4
    <2>4. CASE pc = "bootCfg"
      <3>1. writing = 0 /\ BootChoice = 0 /\ img' = img
        BY <1>0, <2>4, <2>i DEF Booting
      <3>2. 0 # 1 /\ 2 # 1
        BY SMT
      <3>3. BootChoice' = 0
        BY <2>c, <3>1, <3>2, Choice
      <3> QED
        BY <1>3, <3>1, <3>3
    <2>5. CASE pc = "appCfg"
      <3>1. /\ img' = img /\ Is(Target, build) /\ build \in Version
            /\ running \in ImgSeq \ {Target} /\ Target \in ImgSeq
            /\ BootChoice = running
        BY <2>5, <2>i, AppFacts DEF IInv, Running, InApp
      <3>2. Offered = build /\ build # Blank
        BY <2>5, <3>1, Cells DEF Offered
      <3>3. BootChoice' \in {running, Target}
        BY <3>1, Choice, Seqs
      <3>4. CASE BootChoice' = running
        BY <1>3, <3>1, <3>4
      <3>5. CASE BootChoice' = Target
        <4>1. ResetVersion' = build
          BY <1>0, <3>1, <3>5, KeptVersion, VersionIs DEF ResetVersion
        <4>2. Update!Reset
          BY <1>1, <3>2, <4>1 DEF Update!Reset
        <4> QED
          BY <1>0, <4>2 DEF Update!UpdNext
      <3> QED
        BY <3>3, <3>4, <3>5
    <2>6. CASE pc \notin {"erase", "download", "xzErase", "xzWrite", "xzCfg",
                          "bootCfg", "appCfg"}
      BY <1>3, <2>6, <2>i, <2>k
    <2> QED
      BY <2>1, <2>2, <2>3, <2>4, <2>5, <2>6
  <1> QED
    BY <1>4, <1>5

LEMMA InitUpdates == Init => Update!UpdInit
  <1> SUFFICES ASSUME Init PROVE Update!UpdInit
    OBVIOUS
  <1> PICK v \in Version :
        img = [s \in ImgSeq |-> [k \in Section |-> IF s = 0 THEN v ELSE Blank]]
    BY DEF Init
  <1>1. Is(0, v) /\ BootChoice = 0
    BY Seqs, SectionsOK DEF Init, Is, BootChoice
  <1>2. ResetVersion = v
    BY <1>1, VersionIs DEF ResetVersion
  <1>3. RunVersion = Blank /\ Offered = Blank /\ lapse = FALSE
    BY DEF Init, RunVersion, Offered, InApp
  <1> QED
    BY <1>2, <1>3 DEF Update!UpdInit

\* ota.c, image.c, bl_load_bin, bl_xz_image: whatever steps, failures and
\* resets an update is made of, the version a reset starts changes in one
\* step, to the complete version of a verified session, and what an
\* application is started from is that version.
THEOREM UpdateIsAtomic == Spec => ImplementsUpdate
  <1>1. IInv /\ [Next]_vars => [Update!UpdNext]_(Update!updVars)
    <2> SUFFICES ASSUME IInv, [Next]_vars
                 PROVE  Update!UpdNext \/ UNCHANGED Update!updVars
      OBVIOUS
    <2>1. CASE BootNext
      BY <2>1, BootUpdates
    <2>2. CASE OtaNext
      BY <2>2, OtaUpdates
    <2>3. CASE Reboot \/ PowerLoss
      BY <2>3, ResetUpdates
    <2>4. CASE UNCHANGED vars
      BY <2>4 DEF vars, Update!updVars, ResetVersion, RunVersion, Offered,
         VersionOf, BootChoice, Is, Sections, InApp
    <2> QED
      BY <2>1, <2>2, <2>3, <2>4 DEF Next
  <1> QED
    BY <1>1, InitUpdates, Invariant, PTL DEF Spec, ImplementsUpdate, Update!UpdSpec

-----------------------------------------------------------------------------
LEMMA RegisterSteps ==
  /\ \A s \in ImgSeq : Cfg!Begin(s) => Cfg!RegNext
  /\ Cfg!Commit => Cfg!RegNext
  /\ Cfg!Abandon => Cfg!RegNext
  BY DEF Cfg!RegNext, Cfg!Begin, Cfg!Commit, Cfg!Abandon

\* image.c, bl_load_bin: whoever writes the configuration does it as a user of
\* FdcmRegister, one write at a time; so what Fdcm was shown to implement is
\* all that the other theorems assume of it.
THEOREM UsesRegister == Spec => [][Cfg!RegNext]_(Cfg!regVars)
  <1>1. IInv /\ [Next]_vars => [Cfg!RegNext]_(Cfg!regVars)
    <2> SUFFICES ASSUME IInv, [Next]_vars
                 PROVE  Cfg!RegNext \/ (cfg' = cfg /\ writing' = writing)
      BY DEF Cfg!regVars
    <2>1. CASE ReadCfg \/ XzErase \/ XzWrite \/ TryNext \/ LoadChosen \/ StartApp
      BY <2>1 DEF ReadCfg, XzErase, XzWrite, TryNext, LoadChosen, StartApp, flash
    <2>2. CASE XzCheck \/ VerifyImage
      <3>1. 0 \in ImgSeq /\ Target \in ImgSeq
        BY Seqs, Areas DEF IInv
      <3> QED
        BY <2>2, <3>1, RegisterSteps DEF XzCheck, VerifyImage
    <2>3. CASE XzCfg \/ ChoiceRecorded \/ SetCfg
      BY <2>3, RegisterSteps DEF XzCfg, ChoiceRecorded, SetCfg, CfgFails
    <2>4. CASE RecordChoice
      BY <2>4, RegisterSteps DEF RecordChoice, IInv, TypeOK
    <2>5. CASE \/ \E v \in Version : StartSession(v)
               \/ EraseTarget \/ ReceiveSection \/ EndOfImage \/ AbortDownload
               \/ CheckSections \/ Reboot
      BY <2>5 DEF StartSession, EraseTarget, ReceiveSection, EndOfImage, AbortDownload,
         CheckSections, Reboot, flash
    <2>6. CASE PowerLoss
      BY <2>6, RegisterSteps DEF PowerLoss
    <2>7. CASE UNCHANGED vars
      BY <2>7 DEF vars
    <2> QED
      BY <2>1, <2>2, <2>3, <2>4, <2>5, <2>6, <2>7 DEF Next, BootNext, OtaNext
  <1> QED
    BY <1>1, Invariant, PTL DEF Spec

LEMMA RankFacts ==
  ASSUME TypeOK
  PROVE  /\ NSec \in Nat /\ NSec > 1 /\ SeqNum = 2
         /\ tries \in 0 .. 2 /\ nextSec \in 1 .. NSec + 1
  BY NSecAssumption, Seqs DEF TypeOK

\* bl_load_bin, bl_xz_image: every step of the bootloader brings it nearer to
\* the end of its work, which is at most NSec + 12 steps away.
THEOREM BootEnds == Spec => BootDescends
  <1>1. IInv /\ [Next]_vars => [BootNext => BootRank' < BootRank /\ BootRank' >= 0]_vars
    <2> SUFFICES ASSUME IInv, BootNext PROVE BootRank' < BootRank /\ BootRank' >= 0
      OBVIOUS
    <2>0. TypeOK /\ Loop /\ xz' = xz
      BY DEF IInv, BootNext
    <2>1. CASE ReadCfg
      <3>1. pc = "boot" /\ pc' \in {"xzErase", "load"} /\ tries' = tries /\ tries < 2
        BY <2>0, <2>1, Seqs DEF ReadCfg, Loop
      <3> QED
        BY <2>0, <3>1, RankFacts DEF BootRank
    <2>2. CASE XzErase
      <3>1. pc = "xzErase" /\ pc' \in {"xzWrite", "upgrade"} /\ nextSec' = 1
        BY <2>2 DEF XzErase
      <3> QED
        BY <2>0, <3>1, RankFacts DEF BootRank
    <2>3. CASE XzWrite
      <3>1. /\ pc = "xzWrite"
            /\ \/ pc' = "xzCheck"
               \/ pc' = pc /\ nextSec <= NSec /\ nextSec' = nextSec + 1
        BY <2>3 DEF XzWrite
      <3> QED
        BY <2>0, <3>1, RankFacts DEF BootRank
    <2>4. CASE XzCheck
      <3>1. pc = "xzCheck" /\ pc' \in {"xzCfg", "upgrade"}
        BY <2>4 DEF XzCheck
      <3> QED
        BY <3>1 DEF BootRank
    <2>5. CASE XzCfg
      <3>1. pc = "xzCfg" /\ pc' \in {"load", "upgrade"} /\ tries' = tries /\ tries < 2
        BY <2>0, <2>5, Seqs DEF XzCfg, Loop, Unpacking
      <3> QED
        BY <2>0, <3>1, RankFacts DEF BootRank
    <2>6. CASE TryNext
      <3>1. /\ pc = "load" /\ tries < 2 /\ tries' = tries + 1
            /\ pc' = (IF tries' = 2 THEN "upgrade" ELSE "load")
        BY <2>0, <2>6, Seqs DEF TryNext, Loop
      <3> QED
        BY <2>0, <3>1, RankFacts DEF BootRank
    <2>7. CASE RecordChoice \/ LoadChosen
      <3>1. pc = "load" /\ tries < 2 /\ pc' \in {"bootCfg", "start"}
        BY <2>0, <2>7, Seqs DEF RecordChoice, LoadChosen, Loop
      <3> QED
        BY <2>0, <3>1, RankFacts DEF BootRank
    <2>8. CASE ChoiceRecorded
      <3>1. pc = "bootCfg" /\ pc' = "start"
        BY <2>8 DEF ChoiceRecorded
      <3> QED
        BY <3>1 DEF BootRank
    <2>9. CASE StartApp
      <3>1. pc = "start" /\ pc' = "idle"
        BY <2>9 DEF StartApp
      <3> QED
        BY <3>1 DEF BootRank
    <2> QED
      BY <2>1, <2>2, <2>3, <2>4, <2>5, <2>6, <2>7, <2>8, <2>9 DEF BootNext
  <1> QED
    BY <1>1, Invariant, PTL DEF Spec, BootDescends

\* image.h:54, main.c:371: what the comments claim holds until a second session
\* or a failed operation while unpacking, so findings 2 and 3 have no other cause.
THEOREM ClaimsHoldUntilLapse == Spec => [](~lapse => VerifiedIsIntact /\ UnpackedIsChecked)
  <1>1. ASSUME IInv, ~lapse PROVE VerifiedIsIntact /\ UnpackedIsChecked
    <2>1. TypeOK /\ Chosen /\ Booting
      BY <1>1 DEF IInv
    <2>2. VerifiedIsIntact
      <3>1. cfg \in {0, 1, 2} /\ SeqNum = 2 /\ 0 # 1
        BY <2>1, Areas, Seqs
      <3>2. cfg # SeqNum => BootChoice = cfg
        BY <3>1, Choice
      <3> QED
        BY <2>1, <3>2 DEF Chosen, VerifiedIsIntact
    <2>3. UnpackedIsChecked
      <3> SUFFICES ASSUME pc = "xzCfg" PROVE Valid(0)
        BY DEF UnpackedIsChecked
      <3>1. \A k \in Section : img[0][k] = img[1][App]
        BY <2>1 DEF Booting
      <3>2. img[1][App] \in Version
        BY <2>1, SectionsOK, Choice DEF Booting, Unpacking, Chosen, Valid
      <3> QED
        BY <3>1, <3>2, SectionsOK DEF Valid
    <2> QED
      BY <2>2, <2>3
  <1>2. IInv => (~lapse => VerifiedIsIntact /\ UnpackedIsChecked)
    BY <1>1
  <1> QED
    BY <1>2, Invariant, PTL

=============================================================================
