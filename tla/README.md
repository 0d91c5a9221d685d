# XRADIO Skylark SDK: TLA+ models and proofs

The SDK runs on XR872/XR808 Wi-Fi microcontrollers: one core, FreeRTOS, code
executed from a NOR flash. This directory models the parts of it whose
mistakes cost most in the field: what survives a power failure, what a device
boots after an update, what is erased, how events reach their observers, how
samples reach the speaker and lines the console's task, and how the heap is
shared.
Sources are named relative to the repository (`src/...` is its own directory
of that name, `project/...` the application framework).

Run a check with `tlc -config MCFdcm.cfg MCFdcm`, a proof with
`tlapm FdcmProofs.tla`. `PROJECT.json` lists the runs, the lines every
definition stands for, the findings, the hazards and the theorems. A
definition whose name ends in `Bug` is a faulty variant of the one that
follows it; it shows that a property can fail and is used by no specification.

## 1. The system

| Part | State | Operations | What is hard | What makes it correct | Module |
|---|---|---|---|---|---|
| Flash Data Chunk Manager `src/rom/rom_bin/src/image/fdcm.c` | one erase block: header, bitmap, slots | `fdcm_write`, `fdcm_read`, `fdcm_erase` | power loss between any two flash operations; NOR cells that only clear | a successful write is read back; an old chunk never comes back; nothing outside the area | `Fdcm`, `FdcmRegister` |
| Image configuration and layout `src/image/image.c`, ROM `image.c` | configuration record in an FDCM area, running sequence | `image_init`, `image_get_cfg`, `image_set_cfg`, `image_check_sections` | a configuration that is lost or names a bad image | what it names can be started | `OtaBoot` |
| OTA service `src/ota/ota.c` | update area, session | `ota_get_image`, `ota_push_*`, `ota_verify_image`, `ota_reboot` | truncated or damaged downloads, repeated sessions, power loss | the running image is never touched; a reset is safe at any time; an update is one step from a complete version to the accepted one | `OtaBoot`, `AtomicUpdate` |
| Bootloader `project/bootloader/main.c` | the sequence it tries | `bl_load_bin`, `bl_xz_image` | unpacking over the only startable image, fallback | finds an image whatever was interrupted, and gets there | `OtaBoot`, `AtomicUpdate` |
| Flash access `src/image/flash.c`, `hal_flash.c` | the cells, what the chip can erase | `flash_erase`, `HAL_Flash_Erase` | splitting an area into 4/32/64 KB blocks | all of the area, nothing else, no block twice | `FlashErase` |
| System control `project/common/framework/sys_ctrl/` | message queue, list of observers, publisher and observer states | `sys_event_send`, `sys_handler_send_wait_finish`, `sys_ctrl_attach/touch/detach`, `observer_destroy`, the looper | calls from callbacks during a notification, an unlocked destroy, a rendezvous on a stack semaphore | every attached observer gets an event once; no dangling node; every caller returns | `SysCtrl` |
| Priority queue `sys_ctrl/container.c` | pool and sorted list | push, pop | node ownership, binary semaphore | each message once, in order | planned |
| POSIX layer `project/common/apps/cedarx/os_glue/pthread.c` | `wait` counters, semaphores | `sem_*`, `pthread_cond_*`, `pthread_once`, join | unprotected counter, tokens of late waiters | no lost wake-up | planned |
| Audio playback `src/audio/pcm/audio_pcm.c`, `src/driver/chip/hal_i2s.c`, `codec/xradio_internal_codec.c` | cache of half a buffer, DMA buffer of two halves, counters of ended halves | `snd_pcm_open/write/flush/close`, the DMA interrupts | a writer that races with the interrupts, under-runs, writes of any size | every sample once and in order; what is returned is what was taken; calls return | `Playback`, `SampleStream` |
| Console `src/console/console.c` | a ring of line buffers, semaphore, state | receive interrupt, task, start, stop, enable, disable | buffers that run out, order without time stamps, stop and start around both, a backspace that does not move the pointer | every buffer in one place; lines complete and in order; each executed | `Console`, `LineQueue` |
| Heap `src/sys/sys_heap` | free list, count of free bytes | malloc, free, realloc, init | splitting, merging, extending in place | every byte in one block, neighbours merged, count right, data kept | `Heap` |
| Power management `src/pm` | devices, wake locks | suspend, resume | events that arrive while devices suspend | resumed in reverse order, exactly the suspended | planned |

Interactions. The image configuration and `sysinfo` are chunks of an FDCM
area. `ota.c` clears its target with `flash_erase`, checks it with
`image_check_sections` and names it in the configuration; the bootloader
reads that configuration after a reset and shares nothing else with the
application. Drivers and network code send events to the one looper thread
of system control, in which all handlers and callbacks run.

Not modelled, and left out of the plan: FreeRTOS and LiteOS, lwip, mbedtls,
libwebsockets, nopoll, Paho MQTT, shttpd, udhcp, HTTPClient, fatfs, cJSON, xz,
jpeg and the codecs are vendored or binary; the drivers of `src/driver` are
register sequences whose other half is the hardware (the transmit path of the
two sound cards excepted); the dispatch of AT and other commands is text
processing. `PROJECT.json` gives the reason for each part.

## 2. The modules

**`FdcmRegister`** is what callers of FDCM rely on: a register that holds one
chunk. While a write is pending the stored chunk may be lost, but it is only
ever replaced by the pending one; between writes a caller may discard it.

**`Fdcm`** has one action per flash operation of `fdcm_write`: `EraseArea`,
`WriteHeader`, `WriteBitmap`, `MarkSlot`, `WriteData`, chosen by `StartWrite`.
`FlashError` and `PowerLoss` may strike at each and leave it undone, done or
half done (`Damage`). `Erase` is `fdcm_erase`, which nothing in the repository
calls, in one step that may equally be cut short. `header` is the data size recorded in the header, `used`
the number of leading zero bits of the bitmap, `slot` the cells. The capacity
arithmetic, with the 16-bit `bitmap_size`, is that of the source;
`fdcm_read` is the operator `ReadChunk`. Its refinement of `FdcmRegister` is
the property `ImplementsRegister`.

**`OtaBoot`** composes update service, image configuration and bootloader;
`pc` says which step of which program comes next. `img` holds the sections of
both areas, `cfg` the configuration. `cfg` is not a variable that is assigned:
it is an instance of `FdcmRegister` (`Cfg!Begin`, `Cfg!Commit`,
`Cfg!Abandon`), so the boot is checked against exactly what `Fdcm` was shown
to provide. `xz`, fixed in the initial state, selects policy 0x01, where area 1
holds a compressed image the bootloader unpacks over image 0. `PowerLoss` is enabled in every state and
may scramble what was being written.

**`AtomicUpdate`** is what all this promises the user of a device: it runs one
version, an update replaces it by the offered one in a single step or not at
all, and a reset at any moment starts the one or the other. `OtaBoot` refines
it (`ImplementsUpdate`): `next` is the version a reset would start by the
configuration and the areas as they are (`ResetVersion`), `now` the one the
application runs, `offer` the checked one whose configuration write is under
way. The step of the abstract update is the write of the configuration, under
both policies; unpacking changes image 0 and the configuration but not
`next`. `void` is `lapse`: what findings 2 and 3 are about ends the promise.

**`FlashErase`** is `flash_erase`: `RunsOf` is its planning in terms of
`AlignUp` and `AlignDown`, `EraseBlock`, `NextRun` and `Return` its loops over
the plan. A chip is the set of block sizes it erases; a lost command and a
time-out are nondeterministic. Addresses count 2 KB units so that misaligned
calls exist.

**`SysCtrl`** is the looper with the publisher in it. The looper's actions
follow `main_looper` and `notify`: `Receive`, `StartNotify`, per observer
`Trigger`/`EndCallback` or `Skip`, `EndScan`, the sweep `Unlink`/`Release`,
`EndNotify`, `Destruct`. Between `Trigger` and `EndCallback` any call may
happen, from the callback (the mutex is recursive) and, where the code takes
no lock (`Create`, `Destroy`, `Send`, `SendWait`, `Wake`), from other threads
at any time. A call that takes the mutex is one action because the mutex is
held for the whole of it and, by the looper, for a whole notification.
`Careful` states what callbacks refrain from: detaching an observer that is
not attached, and touching the observer they are called for.

**`SampleStream`** is what an application expects of a playback stream: the
samples it handed over come out in order, each once.

**`Playback`** is that stream from `snd_pcm_write` to the DMA, for both sound
cards (`card`). A call of the PCM layer is cut into the calls of
`HAL_SndCard_PcmWrite` it makes (`job`), and each of these into what the
driver does per half: `Start` a stopped DMA, or `SeeRunning` and then, with
interrupts disabled, `Sync` (a half has ended) or `Wait` and `Wake`. The look
at `txRunning` and `HAL_DisableIRQ` are two actions because an interrupt can
come between them. `Tick` is the end of a half with its interrupt: it counts,
wakes the writer, stops the DMA after `Thres` halves (`Overrun`). Samples are
numbers, a buffer is a run of them followed by zeros, and `mem[h].fresh` says
that a half has not been played since it was written. Half size and threshold
are constants. The map names the I2S lines or, where the cards differ or a
definition stands for both, those of the codec.

**`Console`** has one action per character the interrupt takes (`Type`,
`Backspace`, `Illegal`, `LineEnd`), one per step of the task (`Woken`, `Exit`
or `Take`, `Finish`) and the control calls; `Start` and `Started` are two
because the thread runs before the state is set. `free`, `ready`, `rx` and
`cmd` say where each buffer is. A backspace decrements the count but leaves
the pointer of the run where it is (console.c:194-206), so `Type` and `LineEnd`
store at the end of what was stored in this run, which may be the byte behind
the buffer: the first one of the next buffer. That is `Overrun`: the byte
changes, the check of console.c:231 or 252 finds it, and `CONS_ABORT`
(console_debug.h:48), an empty endless loop, keeps the interrupt for ever
(`hung`), so that no thread runs again. `CONS_ERR` in a `console_start` that
gets no semaphore or no thread ends the same way, not in the -1 of the line
after it (`ctl = "failed"`). `Abort` is the loop: nothing but stuttering. The history variables `echo` (the line as the
terminal shows it), `order` (the order of arrival) and `odd` (lines the code
does not keep equal to their echo) are used by the properties only.

The properties state what holds in spite of the overrun and exempt it by name.
`TypeOK` bounds a complete line below the buffer's length unless `hung`.
`Echoed` leaves out the lines with a backspace in the middle of a run (`odd`)
and, once `hung`, the one buffer behind the one that overran (`Spoilt`); it
also says that no other line overruns. `ImplementsQueue` lets one waiting or
executing line change in the step that sets `hung`. `Responds` claims nothing
of a console that hangs. `Accounted` needs no exemption. That the overrun
happens is said here and not by a run of its own: after 255 characters, the
longest line that fits, a backspace, a character and a line end taken in one
run of the callback lead to the check of console.c:231, and the state space of
the run `console` holds such behaviours.

**`LineQueue`** is what a console's user expects: a queue of lines, of which
one at a time is executed, first come first served, each as it was when it was
ended. `Console` refines it: `queue` is the contents of the ready buffers in
the order of arrival, `current` that of the command that is executed. So a
buffer that the interrupt overwrites, or one that is executed twice or never,
is no step of the queue, with one exception: when a line overruns its buffer
(`broken`, which is `hung`), one line of the queue or the current one may
change, and after that the queue takes no step.

**`Heap`** has one action per call that changes the heap: `Malloc`, `Free`, and
of `sys_heap_realloc` the ways `Extend`, `Same` and `Move`. The free list is a
function from addresses to sizes; `Insert` is
`sys_heap_prvInsertBlockIntoFreeList`. Addresses count units of the alignment
(16 bytes), which is also the size of a header. `mem` holds whose data is in
each unit and where in the request its owner wrote it, so that a header, or a
copy in the wrong place, too short or shifted, shows.

The modules whose names end in `Proofs` hold the theorems about the module
they are named for; the `MC` modules give constants their values.

## 3. The runs

| Run | Question | States | Result |
|---|---|---|---|
| `fdcm` | Does the journal keep and recover chunks when every flash operation may fail or be cut short, and implement the register? | 756 | holds |
| `fdcm_read` | Does a read stay inside the area? | same | violated: finding 1 |
| `ota_boot` | Is a reset safe at every moment is an update atomic, and does an accepted version run, under both update policies? | 81,568 | holds |
| `ota_retry` | Does the configuration always name an intact image? | same | violated: finding 2 |
| `ota_xz_fault` | Is the unpacked image checked? | same | violated: finding 3 |
| `flash_erase` | Is every area erased, and nothing else, on chips with 4 KB and, if they have 64 KB, 32 KB erase? | 182,438 | holds |
| `flash_erase_modes` | The same on the other chips of `flash_chip_cfg.c` | same | violated: finding 4 |
| `sys_ctrl` | Do observers get every event once, is the list sound, do waiting callers return? | 80,760 | holds |
| `sys_ctrl_careless` | Does an attach that succeeded register, whatever callbacks do? | same bounds | violated: finding 5 |
| `playback` | Is every sample played once and in order, is a flush complete, does every call return? | 102,165 | holds |
| `console` | Do lines reach the task complete, unmixed and in order while buffers run out and the console starts and stops? | 148,501 | holds |
| `heap` | Are blocks disjoint and merged, the count right and data kept in its place, after any calls? | 338,040 | holds |

Every property of a passing run has a mutant in `PROJECT.json`: a plausible
fault of the code under which TLC finds the property violated.

### Bounds

* `Fdcm`: 31 bytes leave two slots for the 11-byte chunks, the second ending
  exactly with the area, three for the 6-byte chunk, none for the 30-byte one:
  an append, a full journal, a change of chunk size and a chunk that does not
  fit all occur. Nothing else is bounded; runs of any number of writes and
  failures are explored.
* `OtaBoot`: two sections tell a first section that is complete from an image
  that is; two versions tell an old image from a new one. Any number of
  sessions, resets and power failures.
* `FlashErase`: areas start at every 2 KB of the first 64 KB block and end
  anywhere up to and beyond the 200 KB chip (`MaxStart`, `MaxEnd`): every
  combination of remainders by 4, 32 and 64 KB at both ends, with zero, one or
  two whole 64 KB blocks in between. At most one lost command per call.
* `SysCtrl`: two observers (of one key, of all keys), three events, one
  waiting client, a queue of two: a callback can act on the observer itself, on
  one behind it and on one ahead of it; the queue fills up. The queue length of
  the product is 6 and only delays messages further.

* `Playback`: halves of three samples, writes of one sample to two halves and
  one, eight samples before the stream is closed: a write can fit the cache,
  fill it exactly, go over it with less than, exactly or more than a half
  left. Threshold 3 of up to 255 lets the DMA play, repeat or clear halves and
  stop; the counters can differ by one and be equal, as the proof shows they do
  for every threshold.
* `Console`: the two buffers of the product (`CONSOLE_CMD_LINE_BUF_NUM`), lines
  of up to two of two characters and the terminating zero instead of 255: a
  line can be empty, full or one too long, or run over its buffer into the
  other one while that is ready, executed or free.
* `Heap`: nine units (144 bytes), requests of up to four and three owners:
  blocks with a free neighbour on neither, either and both sides, splits at,
  below and above the smallest block, and full heaps.

### Fairness

Four specifications state fairness. `OtaBoot!FairSpec`: the bootloader is
the only program that runs and does not block, so it takes its steps; and
`cmd_ota` calls `ota_reboot` in the statement after the verification. Nothing
is assumed of servers or of power: `Installs` speaks of behaviours in which
power failures stop. `SysCtrl!FairSpec`: FreeRTOS schedules the looper thread
and a thread whose semaphore was released. This includes that callbacks
return (`EndCallback`), which the framework asks of them. Callers are under
no obligation. `Playback!FairSpec`: a DMA that runs reaches the end of its half,
and the thread in a call gets its turn; nobody need call. `Returns` leaves out
the one window in which the code itself loses: the DMA is stopped between the
look at `txRunning` and `HAL_DisableIRQ` (hal_i2s.c:1002-1024), and the writer
then waits for an interrupt that does not come (`stalled`). Deadlock is not
checked in this run for that reason. `Console!FairSpec`: the console's task and
the thread in `console_start` or `console_stop` get their turn, and commands
return; nobody need type. `Responds` leaves out the console whose first line
came in before console.c:396 had set the state: its task has ended; and the one
whose interrupt hangs after an overrun. `Stopped` needs no such exemption, as
the callback is disabled before the thread in `console_stop` waits.

## 4. The findings

1. `fdcm_read` computes a slot address from `bit_cnt - 1` without testing for
   0 (fdcm.c:213). After power was lost between header and bitmap it reads
   from below the first slot and reports success.
2. A second update session before the reset erases the image that the
   configuration already names as verified (ota.c:149).
3. `bl_xz_image` checks, as 'every section', the compressed image it read
   instead of image 0 it wrote (main.c:372); a write error while unpacking
   goes unnoticed.
4. On chips without a 32 KB or a 4 KB erase `flash_erase` returns success for
   areas it did not erase (flash.c:90, hal_flash.c:824).
5. `detach` in a callback marks an observer that is not in the list
   (publisher.c:111); the next `attach` takes the mark for membership and
   returns 0 without registering it (publisher.c:70).

## 5. The proofs

All safety properties of the passing runs are theorems of the specifications,
for every value of the constants that satisfies the modules' assumptions
(`ASSUME` of each module, evaluated by TLC in its runs). Each proof has the
same shape: an inductive invariant, one lemma per action or group of actions,
and PTL for the temporal step.

* **`FdcmProofs`** (chunks of any number and size, any area below 9 * 65536
  bytes): `Journal` says that under a valid header the used slots fit and later
  ones are blank; `Progress` what `fdcm_write` knows before each operation;
  `Result` what success leaves. `Progress` is needed because the properties
  only speak of single operations, `Journal` because an interrupted write
  leaves a journal the next one continues. `Refinement` proves that every step
  is a step of `FdcmRegister` or a stutter. `ReadsConfined` bounds finding 1:
  a read leaves the area only under a valid header with an empty bitmap, and
  never after a write that succeeded. The capacity lemmas are about
  division by a variable and are built from the definition of `\div`.
* **`OtaBootProofs`** (any number of sections and versions, both policies):
  `Chosen` (what a reset would start is intact and is the due version),
  `Booting` (what unpacking has done so far) and `Running` (what the
  application may rely on). They hold while `lapse` is false, that is unless a
  session follows a successful one without a reset, or a flash operation
  failed while unpacking: findings 2 and 3 show why both are excluded, and
  `ClaimsHoldUntilLapse` that nothing else is wrong with the two claims.
  `UpdateIsAtomic` proves, action by action, that every step is one of
  `AtomicUpdate` or leaves its variables alone. `UsesRegister` proves that the
  composed system changes `cfg` by steps of `FdcmRegister` only, which is the
  other half of what `Refinement` in `FdcmProofs` shows. `BootEnds` is a
  variant of the bootloader: `BootRank` falls with every step of it, through
  the loop over the images and the one that unpacks.
* **`FlashEraseProofs`** (any chip and area): the runs left to do are aligned,
  inside the area, disjoint and not yet erased, and together with what is
  erased they cover the area. `Erases` assumes `Usable` chips (finding 4); the
  other theorems do not. `CallEnds`: the number of runs, and within a run what
  is left of it, go down with every step; the runs' alignment is what keeps the
  loop of `HAL_Flash_Erase` from stepping over the end of a run.
* **`PlaybackProofs`** (any half size, threshold and write size): `Place` and
  `Order` follow the samples: played, in the half the DMA reads, in the other
  half, in the hands of the call, in the cache, without gap. `Fresh` is what
  makes overwriting safe: a half the interrupt has counted has been played.
  `Implements` is the refinement of `SampleStream`, `NoTear` and `Drains`
  action properties from the same invariant. Two theorems are the safety half
  of `Returns`: `WakeupNotLost`, that a writer that waits has its token or an
  interrupt that owes it one, and no call finds the token of another;
  `CallEnds`, that `CallRank` falls with every step of a call and no interrupt
  raises it.
* **`ConsoleProofs`** (any number and length of buffers): seen from behind the
  last command the buffers lie on the ring in the order executing, ready,
  receiving, free (`Ring`), which is why a search without time stamps finds
  the oldest line (`Ordered`). `IsLineQueue` is the refinement of `LineQueue`:
  the interrupt writes into the receiving buffer only, so what waits or is
  executed does not change, until it overruns that buffer. `Inv` has two halves
  for this: `Good`, the invariant of a console that works, and `Hanged`, what
  an overrun leaves, which no further step changes (`HangsForGood`); between
  them `LineSpoilt` shows that at most one line of the queue, that in the next
  buffer, changes. `Accounts` counts the tokens, those of the ready
  lines and that of a stop in progress, so the task never waits at the
  semaphore while there is a line to execute or a thread in `console_stop`:
  the safety half of `Responds`.
* **`HeapProofs`** (any heap, any number of owners, requests of any size):
  `Inserting`, `Removing` and `Cutting` say which units the free list covers
  after each of its operations; every action then moves a set of units between
  the free list and one block (`Moves`), and the cardinalities give `Counts`.
  `Stamps`: no header is written where an owner stores, because every header
  is a unit of another block or of the free list.
* **`SysCtrlProofs`** (any number of observers, events, clients and slots):
  `ListInv` gives `NoDangling` because an observer's state is not idle for as
  long as its node is in the list, with the one exception of a node already
  unlinked (`Release`), which is why `list_del` must come before the reset of
  the state. `RegInv` adds, for careful callers, that an observer that is not
  idle is in the list. `TurnInv` places every observer that is due at or ahead
  of the iterator and every one that was triggered behind it, which gives
  `AllNotified` and `NotifiedOnce`. `MailInv` says that a waiting client has
  exactly one message. `TurnEnds` (finitely many observers) is the variant of
  a notification: callbacks may attach observers behind the iterator, but none
  twice, so the walk meets each at most once and the looper is back at its
  queue after at most 4 * |Obs| + 7 of its steps. With `Paired` and the order
  of the queue that is the safety half of `Returns`.

Only model-checked: `Installs`, `Returns` (of `SysCtrl` and of `Playback`) and
`Responds`, which are liveness properties under fairness, and what the
violation runs show. The variants and wake-up invariants above say that there
is always a next step and that it leads nearer; that it is taken needs
fairness and ENABLED, which the provers do not handle. No module uses
recursion.

## 6. What is left

In this order, because of what goes wrong if the part is wrong:

1. `CondVar` (pthread.c): `wait` as load and store, mutex, semaphore; a signal
   that finds a waiter wakes one. Abstract specification: a set of waiters.
   Bounds: three threads, one condition.
2. `OtaPush`, composed with `OtaBoot`'s session: `get_size`, `ota_skip_size`
   and the overflow test of `ota_push_data` in 32 bits; bytes land at their
   offset, inside the area, for any split into calls. Provable.
3. Capture (`snd_pcm_read`), the mirror image of `Playback`, and closing a
   stream while a write waits, which the code does not synchronise.
4. `Pm` (pm.c): order of suspend and resume, and a wake-up that races with it.
5. `PrioQueue` (container.c), with `SysCtrl`'s queue as its abstract
   specification; it is switched off in the build (sys_ctrl.h:39), and its pop
   returns a node to the list it took it from (container.c:214).
6. For `SysCtrl`: the observers with a thread of their own, and the rule that a
   callback must not wait for its own looper.

### Not modelled

Most of the repository's lines are libraries kept in the tree: FreeRTOS and
LiteOS, lwip, mbedtls, libwebsockets, nopoll, Paho MQTT,
shttpd, udhcp, HTTPClient, fatfs with its code page tables, cJSON, xz, jpeg,
and archives of codecs without source. They have their own specifications and
are not this project's subject. Of the SDK's own code the drivers and the sleep
code are mostly register accesses: what they must guarantee is in the data
sheet of the chip, so a model would invent one half of the protocol.
`psram_heap_4.c` repeats the modelled heap with constants in place of
fields.
