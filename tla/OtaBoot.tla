------------------------------ MODULE OtaBoot ------------------------------
(***************************************************************************)
(* Over-the-air update: the application (ota.c, image.c) downloads an      *)
(* image into the area it does not run from, checks it, and names it in    *)
(* the image configuration; after the next reset the bootloader            *)
(* (project/bootloader/main.c) chooses the image to start from that        *)
(* configuration.  Under policy 0x01 (xz) area 1 holds a compressed image  *)
(* which the bootloader unpacks over image 0 before it starts it.          *)
(*                                                                         *)
(* Power can fail at any step.  The two areas and the configuration        *)
(* survive; the rest is RAM.                                               *)
(*                                                                         *)
(* Abstractions.  An image is a chain of NSec sections, the first one the  *)
(* APP section; a section is blank, damaged or intact data of one version, *)
(* and the 16-bit checksums find all damage.  Reads do not fail.  The      *)
(* configuration is the register of FdcmRegister, which Fdcm implements;   *)
(* as a chunk that was written is read back unchanged (Fdcm), the          *)
(* read-back loop of image_set_raw_cfg runs once.  The bootloader itself   *)
(* is not updated.                                                         *)
(***************************************************************************)
EXTENDS Integers

CONSTANTS NSec,         \* number of sections of an image
          Version,      \* the builds an update server offers
          Blank, Bad    \* an erased section, a section that fails its check

ASSUME NSecAssumption == NSec \in Nat \ {0, 1}
ASSUME CellAssumption == Blank # Bad /\ {Blank, Bad} \cap Version = {}

SeqNum  == 2                    \* IMAGE_SEQ_NUM, also "no sequence"
ImgSeq  == 0 .. SeqNum - 1
Section == 1 .. NSec
App     == 1                    \* the section with IMAGE_APP_ID
Cell    == Version \cup {Blank, Bad}

VARIABLES xz,         \* the build: __CONFIG_OTA_POLICY == 0x01
          img,        \* flash: the sections of both areas
          cfg,        \* flash: the image configuration, SeqNum if unreadable
          writing,    \* the configuration image_set_cfg is writing, or SeqNum
          pc,         \* where the bootloader or the application is
          cfgSeq,     \* bl_load_bin: cfg_seq
          loadSeq,    \* bl_load_bin: load_seq
          tries,      \* bl_load_bin: i
          running,    \* the image the application was started from
          runningSeq, \* iop->running_seq, what the application believes
          build,      \* the version the server sends in this session
          nextSec,    \* the next section to arrive, or to be unpacked
          due,        \* history: the version of the last successful session
                      \* that no application was started from since, or Blank
          lapse       \* history: a session was started after one that had
                      \* (or may have) changed the configuration, without a
                      \* reset between them; or a flash operation failed
                      \* while the bootloader was unpacking an image

vars == <<xz, img, cfg, writing, pc, cfgSeq, loadSeq, tries, running, runningSeq,
          build, nextSec, due, lapse>>
flash == <<img, cfg, writing>>
bootVars == <<cfgSeq, loadSeq, tries>>
appVars == <<running, runningSeq, build>>
history == <<due, lapse>>

Cfg == INSTANCE FdcmRegister WITH
         Chunk <- ImgSeq, Void <- SeqNum, Nothing <- SeqNum,
         stored <- cfg, pending <- writing

\* Under policy 0x01 area 1 holds one section, the compressed image.
Sections(s) == IF xz /\ s = 1 THEN {App} ELSE Section

Is(s, v) == \A k \in Sections(s) : img[s][k] = v

\* image_check_sections.
Valid(s) == \A k \in Sections(s) : img[s][k] \in Version

\* bl_load_app_bin: only the APP section is checked; a compressed image has none.
AppLoads(s) == ~(xz /\ s = 1) /\ img[s][App] \in Version

\* Faulty variants of definitions, used to test the properties, end in Bug.
\* The area of image 0, or of image 1, is always the one to update.
UpdateZeroBug(s) == 0
UpdateOneBug(s) == 1

\* ota_update_seq_policy.
UpdateSeq(s) == 1 - s

Target == UpdateSeq(runningSeq)

\* What area s may hold when an erase or a series of writes is cut short.
Scrambled(s) ==
  {[img EXCEPT ![s] = g] :
     g \in {h \in [Section -> Cell] :
              \A k \in Section : h[k] \in {img[s][k], Blank, Bad}}}

Erased(s) == [img EXCEPT ![s] = [k \in Section |-> Blank]]

Init ==
  /\ xz \in BOOLEAN
  /\ \E v \in Version :
       img = [s \in ImgSeq |-> [k \in Section |-> IF s = 0 THEN v ELSE Blank]]
  /\ cfg \in {0, SeqNum}
  /\ writing = SeqNum
  /\ pc = "boot"
  /\ cfgSeq = SeqNum /\ loadSeq = 0 /\ tries = 0
  /\ running = 0 /\ runningSeq = 0
  /\ build = Blank /\ nextSec = 1
  /\ due = Blank /\ lapse = FALSE

-----------------------------------------------------------------------------
(* The bootloader *)

\* An unreadable configuration is used as it is.
ReadCfgBug ==
  /\ pc = "boot"
  /\ cfgSeq' = cfg
  /\ loadSeq' = cfg
  /\ pc' = "load"
  /\ UNCHANGED <<flash, tries, appVars, nextSec, history>>

\* bl_load_bin up to the loop.  The compressed image is recognised by an
\* attribute bit of its header, which is also set in an erased header.
ReadCfg ==
  /\ pc = "boot"
  /\ cfgSeq' = cfg
  /\ loadSeq' = IF cfg = SeqNum THEN 0 ELSE cfg
  /\ \/ xz /\ cfg = 1 /\ pc' = "xzErase"
     \/ ~(xz /\ cfg = 1) /\ pc' = "load"
     \/ xz /\ cfg = 1 /\ img[1][App] = Bad /\ pc' = "load"
  /\ UNCHANGED <<flash, tries, appVars, nextSec, history>>

XzErase ==
  /\ pc = "xzErase"
  /\ \/ img' = Erased(0) /\ pc' = "xzWrite"
        /\ UNCHANGED lapse
     \/ img' \in Scrambled(0) /\ pc' = "upgrade" /\ lapse' = TRUE
  /\ nextSec' = 1
  /\ UNCHANGED <<cfg, writing, bootVars, appVars, due>>

\* The write position is not advanced.
XzWriteStuckBug ==
  /\ pc = "xzWrite"
  /\ img' = [img EXCEPT ![0][nextSec] = img[1][App]]
  /\ UNCHANGED <<cfg, writing, pc, bootVars, appVars, nextSec, history>>

\* What is left in the output buffer at the end of the stream is not written.
XzWriteShortBug ==
  /\ pc = "xzWrite"
  /\ \/ /\ nextSec < NSec
        /\ img' = [img EXCEPT ![0][nextSec] = img[1][App]]
        /\ nextSec' = nextSec + 1
        /\ UNCHANGED pc
     \/ /\ nextSec = NSec
        /\ pc' = "xzCheck"
        /\ UNCHANGED <<img, nextSec>>
  /\ UNCHANGED <<cfg, writing, bootVars, appVars, history>>

\* Unpacking stops at the end of the stream or, without more ado, when the
\* stream is bad or a write fails.
XzWrite ==
  /\ pc = "xzWrite"
  /\ \/ /\ nextSec <= NSec /\ img[1][App] \in Version
        /\ img' = [img EXCEPT ![0][nextSec] = img[1][App]]
        /\ nextSec' = nextSec + 1
        /\ UNCHANGED <<pc, lapse>>
     \/ /\ nextSec > NSec \/ img[1][App] \notin Version
        /\ pc' = "xzCheck"
        /\ UNCHANGED <<img, nextSec, lapse>>
     \/ /\ nextSec <= NSec
        /\ \E c \in {Blank, Bad} : img' = [img EXCEPT ![0][nextSec] = c]
        /\ pc' = "xzCheck"
        /\ lapse' = TRUE
        /\ UNCHANGED nextSec
  /\ UNCHANGED <<cfg, writing, bootVars, appVars, due>>

\* main.c:371 "check every section": bl_xz_image checks those of image 1.
XzCheck ==
  /\ pc = "xzCheck"
  /\ \/ Valid(1) /\ Cfg!Begin(0) /\ pc' = "xzCfg"
     \/ ~Valid(1) /\ pc' = "upgrade" /\ UNCHANGED <<cfg, writing>>
  /\ UNCHANGED <<img, bootVars, appVars, nextSec, history>>

\* A failed fdcm_write may have left any of the register's outcomes.
CfgFails == Cfg!Abandon \/ Cfg!Commit

XzCfg ==
  /\ pc = "xzCfg"
  /\ \/ Cfg!Commit /\ loadSeq' = 0 /\ pc' = "load" /\ UNCHANGED lapse
     \/ CfgFails /\ loadSeq' = loadSeq /\ pc' = "upgrade" /\ lapse' = TRUE
  /\ UNCHANGED <<img, cfgSeq, tries, appVars, nextSec, due>>

\* One turn of the loop of bl_load_bin that finds no application.
TryNext ==
  /\ pc = "load"
  /\ ~AppLoads(loadSeq)
  /\ loadSeq' = (loadSeq + 1) % SeqNum
  /\ tries' = tries + 1
  /\ pc' = IF tries' = SeqNum THEN "upgrade" ELSE "load"
  /\ UNCHANGED <<flash, cfgSeq, appVars, nextSec, history>>

\* The image started is not the configured one: record it first.
RecordChoice ==
  /\ pc = "load"
  /\ AppLoads(loadSeq) /\ loadSeq # cfgSeq
  /\ Cfg!Begin(loadSeq)
  /\ pc' = "bootCfg"
  /\ UNCHANGED <<img, bootVars, appVars, nextSec, history>>

\* "write img cfg fail" is only logged.
ChoiceRecorded ==
  /\ pc = "bootCfg"
  /\ CfgFails
  /\ pc' = "start"
  /\ UNCHANGED <<img, bootVars, appVars, nextSec, history>>

LoadChosen ==
  /\ pc = "load"
  /\ AppLoads(loadSeq) /\ loadSeq = cfgSeq
  /\ pc' = "start"
  /\ UNCHANGED <<flash, bootVars, appVars, nextSec, history>>

\* Jump to the application, whose image_init reads the configuration again.
StartApp ==
  /\ pc = "start"
  /\ running' = loadSeq
  /\ runningSeq' = IF cfg = SeqNum THEN 0 ELSE cfg
  /\ pc' = "idle"
  /\ due' = Blank
  /\ UNCHANGED <<flash, bootVars, build, nextSec, lapse>>

BootNext == /\ \/ ReadCfg \/ XzErase \/ XzWrite \/ XzCheck \/ XzCfg \/ TryNext
               \/ RecordChoice \/ ChoiceRecorded \/ LoadChosen \/ StartApp
            /\ UNCHANGED xz

-----------------------------------------------------------------------------
(* The update service of the application *)

\* ota_get_image, or ota_push_init and ota_push_start.
StartSession(v) ==
  /\ pc \in {"idle", "download", "done", "failed"}
  /\ lapse' = (lapse \/ pc \in {"done", "failed"})
  /\ build' = v
  /\ pc' = "erase"
  /\ UNCHANGED <<flash, bootVars, running, runningSeq, nextSec, due>>

EraseTarget ==
  /\ pc = "erase"
  /\ \/ img' = Erased(Target) /\ pc' = "download"
     \/ img' \in Scrambled(Target) /\ pc' = "idle"
  /\ nextSec' = 1
  /\ UNCHANGED <<cfg, writing, bootVars, appVars, history>>

\* A section arrives, intact or not, and is written.
ReceiveSection ==
  /\ pc = "download"
  /\ nextSec \in Sections(Target)
  /\ \E c \in {build, Bad} : img' = [img EXCEPT ![Target][nextSec] = c]
  /\ nextSec' = nextSec + 1
  /\ UNCHANGED <<cfg, writing, pc, bootVars, appVars, history>>

\* The end of the file, which may come early, or the end of the area.
EndOfImage ==
  /\ pc = "download"
  /\ pc' = "check"
  /\ UNCHANGED <<flash, bootVars, appVars, nextSec, history>>

\* The transfer or a write fails, or the client calls ota_push_stop.
AbortDownload ==
  /\ pc = "download"
  /\ \/ UNCHANGED img
     \/ /\ nextSec \in Sections(Target)
        /\ img' = [img EXCEPT ![Target][nextSec] = Bad]
  /\ pc' = "idle"
  /\ UNCHANGED <<cfg, writing, bootVars, appVars, nextSec, history>>

\* The result of the check is ignored.
CheckSectionsBug ==
  /\ pc = "check"
  /\ pc' = "verify"
  /\ UNCHANGED <<flash, bootVars, appVars, nextSec, history>>

CheckSections ==
  /\ pc = "check"
  /\ pc' = IF Valid(Target) THEN "verify" ELSE "idle"
  /\ UNCHANGED <<flash, bootVars, appVars, nextSec, history>>

\* ota_verify_image: the digest may differ; if not, image_set_cfg.
VerifyImage ==
  /\ pc = "verify"
  /\ \/ Cfg!Begin(Target) /\ pc' = "appCfg"
     \/ UNCHANGED <<cfg, writing>> /\ pc' = "idle"
  /\ UNCHANGED <<img, bootVars, appVars, nextSec, history>>

SetCfg ==
  /\ pc = "appCfg"
  /\ \/ Cfg!Commit /\ pc' = "done" /\ due' = build
     \/ CfgFails /\ pc' = "failed" /\ due' = due
  /\ UNCHANGED <<img, bootVars, appVars, nextSec, lapse>>

-----------------------------------------------------------------------------
(* Reset *)

Restart ==
  /\ pc' = "boot"
  /\ cfgSeq' = SeqNum /\ loadSeq' = 0 /\ tries' = 0
  /\ running' = 0 /\ runningSeq' = 0
  /\ build' = Blank /\ nextSec' = 1
  /\ UNCHANGED xz

\* cmd_ota calls ota_reboot when ota_verify_image succeeded.
Reboot ==
  /\ pc = "done"
  /\ Restart
  /\ UNCHANGED <<flash, history>>

\* The sections a power failure in the middle of a step may damage.
DamagedImages ==
  CASE pc = "erase"    -> Scrambled(Target)
    [] pc = "download" ->
         {img} \cup {[img EXCEPT ![Target][k] = c] :
                       k \in {nextSec} \cap Sections(Target), c \in {Bad, build}}
    [] pc = "xzErase"  -> Scrambled(0)
    [] pc = "xzWrite"  ->
         {img} \cup {[img EXCEPT ![0][k] = c] :
                       k \in {nextSec} \cap Section, c \in {Bad, img[1][App]}}
    [] OTHER -> {img}

\* Power fails, or the device is reset, at any moment.
PowerLoss ==
  /\ Restart
  /\ img' \in DamagedImages
  /\ IF writing = SeqNum THEN UNCHANGED <<cfg, writing>>
                         ELSE Cfg!Abandon \/ Cfg!Commit
  /\ UNCHANGED history

OtaNext == /\ \/ \E v \in Version : StartSession(v)
              \/ EraseTarget \/ ReceiveSection \/ EndOfImage \/ AbortDownload
              \/ CheckSections \/ VerifyImage \/ SetCfg
           /\ UNCHANGED xz

Next == BootNext \/ OtaNext \/ Reboot \/ PowerLoss

Spec == Init /\ [][Next]_vars

\* The bootloader runs by itself, and cmd_ota resets the device at once.
FairSpec == Spec /\ WF_vars(BootNext) /\ WF_vars(Reboot)

-----------------------------------------------------------------------------
(* Properties *)

TypeOK ==
  /\ xz \in BOOLEAN
  /\ img \in [ImgSeq -> [Section -> Cell]]
  /\ cfg \in ImgSeq \cup {SeqNum}
  /\ writing \in ImgSeq \cup {SeqNum}
  /\ pc \in {"boot", "xzErase", "xzWrite", "xzCheck", "xzCfg", "load", "bootCfg",
             "start", "upgrade", "idle", "erase", "download", "check", "verify",
             "appCfg", "done", "failed"}
  /\ cfgSeq \in ImgSeq \cup {SeqNum}
  /\ loadSeq \in ImgSeq
  /\ tries \in 0 .. SeqNum
  /\ running \in ImgSeq /\ runningSeq \in ImgSeq
  /\ build \in Version \cup {Blank}
  /\ nextSec \in 1 .. NSec + 1
  /\ due \in Version \cup {Blank}
  /\ lapse \in BOOLEAN

\* The image a bootloader that started now would use.
BootChoice == IF cfg = 1 THEN 1 ELSE 0

\* If the device were reset now, the bootloader would start, or unpack, an
\* image all of whose sections are intact (it only checks APP itself).
SafeToReset == ~lapse => Valid(BootChoice)

InApp == pc \in {"idle", "erase", "download", "check", "verify", "appCfg",
                 "done", "failed"}

\* The image the application executes from flash is never touched, and is the
\* one the application takes for the running one.
RunningIntact == ~lapse /\ InApp => Valid(running) /\ Target # running

\* The device does not end up waiting for a serial upgrade.
NeverStranded == ~lapse => pc # "upgrade"

\* The first application started after a successful session is, in every
\* section, the version of that session.
TakesOver == [][StartApp /\ ~lapse => due = Blank \/ Is(loadSeq, due)]_vars

\* The version area s holds, if all its sections are of one.
VersionOf(s) == IF Is(s, img[s][App]) THEN img[s][App] ELSE Bad

ResetVersion == VersionOf(BootChoice)
RunVersion == IF InApp THEN VersionOf(running) ELSE Blank
Offered == IF pc = "appCfg" THEN build ELSE Blank

Update == INSTANCE AtomicUpdate WITH
            None <- Blank, next <- ResetVersion, now <- RunVersion,
            offer <- Offered, void <- lapse

\* Seen from outside, an update is a single step from one complete version to
\* another, whatever erasing, resets, failures and unpacking it is made of.
ImplementsUpdate == Update!UpdSpec

\* When power failures stop, an installed version gets to run.
Installs ==
  <>[][~PowerLoss]_vars =>
     \A v \in Version : due = v ~> lapse \/ (pc = "idle" /\ Is(running, v))

\* The steps the bootloader is away from the application, at most.
BootRank == CASE pc = "boot"    -> NSec + 12
              [] pc = "xzErase" -> NSec + 11
              [] pc = "xzWrite" -> NSec + 11 - nextSec
              [] pc = "xzCheck" -> 9
              [] pc = "xzCfg"   -> 8
              [] pc = "load"    -> 3 + SeqNum - tries
              [] pc = "bootCfg" -> 2
              [] pc = "start"   -> 1
              [] OTHER          -> 0

\* The bootloader never goes round in circles: neither in the loop over the
\* images, nor in the one that unpacks, nor from one into the other.
BootDescends == [][BootNext => BootRank' < BootRank /\ BootRank' >= 0]_vars

\* image.h:54 IMAGE_STATE_VERIFIED: the configuration names an image that
\* passes verification.
VerifiedIsIntact == cfg # SeqNum => Valid(cfg)

\* main.c:371 "check every section": when bl_xz_image has passed that check,
\* every section of the image it unpacked is intact.
UnpackedIsChecked == pc = "xzCfg" => Valid(0)

-----------------------------------------------------------------------------
(* The inductive invariant behind the safety properties *)

Unpacking == pc \in {"xzErase", "xzWrite", "xzCheck", "xzCfg"}

Loop ==        \* whatever happens: the loop ends, and who writes cfg
  /\ pc \in {"boot", "load"} \/ Unpacking => tries < SeqNum
  /\ writing # SeqNum <=> pc \in {"xzCfg", "bootCfg", "appCfg"}

Chosen ==      \* what a reset would start
  /\ Valid(BootChoice)
  /\ due # Blank => Is(BootChoice, due)

Booting ==     \* what the bootloader has done so far
  /\ Unpacking => xz /\ cfg = 1 /\ cfgSeq = 1
  /\ pc = "xzWrite" => \A k \in Section : k < nextSec => img[0][k] = img[1][App]
  /\ pc \in {"xzCheck", "xzCfg"} => \A k \in Section : img[0][k] = img[1][App]
  /\ pc = "xzCfg" => writing = 0
  /\ pc \in {"load", "bootCfg", "start"} => loadSeq = BootChoice /\ AppLoads(loadSeq)
  /\ pc = "load" => cfgSeq = cfg \/ cfg = 0
  /\ pc = "bootCfg" => writing = 0 /\ loadSeq = 0

Running ==     \* what the application runs and what it is downloading
  /\ InApp => Valid(running) /\ AppLoads(running) /\ runningSeq = running
  /\ InApp /\ pc \notin {"done", "failed"} => running = BootChoice
  /\ InApp /\ pc # "done" => due = Blank
  /\ pc \in {"erase", "download", "check", "verify", "appCfg"} => build \in Version
  /\ pc \in {"download", "check"} =>
       \A k \in Sections(Target) : img[Target][k] \in {Blank, Bad, build}
  /\ pc \in {"verify", "appCfg"} => Is(Target, build)
  /\ pc = "appCfg" => writing = Target

IInv == TypeOK /\ Loop /\ (~lapse => Chosen /\ Booting /\ Running /\ pc # "upgrade")
=============================================================================
