# Verification of the ESP32-CAM server

TLA+ modules of this repository's program, the TLC runs that check them on
small instances, and proofs that hold for every instance. Paths are relative to
the repository. `PROJECT.json` maps each definition to the lines it models.

## 1. The system

The board streams JPEG images to clients of the local network. It has two cores
and runs FreeRTOS; `main/app/app.c` connects to Wi-Fi, starts the camera, opens
the server's sockets and creates six tasks.

```
            ISRs: VSYNC, DMA                     TCP clients
                   | events                           | interest messages
              cam_task (core 0)                  accept task -- request task
                   | frame_buffer_queue               \  table  /   (one mutex)
   cam_take   capture task (core 1) <--event bits--      |
                   | image_produce_queue                 |
              send task (core 0) ------- mutex ----------+--> RTP over UDP
                   | image_recycle_queue
   cam_give   recycle task (core 1)
```

Around it: the boot that leads there, the start and stop of the camera, its
sensor behind a serial bus, two watchdogs fed by hooks of the kernel, and the
radio with its calibration data in flash.

| Component | State | Operations | What is hard | What makes it correct |
|---|---|---|---|---|
| Control server: `main/network/server.c`, three tasks of `tasks.c` | table of 10 connections, count, interest mask, receive buffer, three event bits | accept, poll/receive, serve interest, disconnect, send frame | blocking calls between critical sections, a stale copy of the table, bits set after the mutex is given, TCP cut points, lwIP's 10 sockets | table, mask and bits agree; a request is its sender's; every interested client gets the frame; clients are served and freed |
| Image pipeline: the other three tasks | two queues of length 1, a frame pointer in each task | capture, send, recycle | bare pointers handed between tasks on two cores; tasks that block on each other | a frame is at one station, stable while it is sent, and comes back; who is interested gets images |
| Camera driver, running: `components/esp32-camera/driver/cam_hal.c`, `target/esp32/ll_cam.c` | event queue, task state, `en` flags, frame queue | two ISRs, `cam_task`, `cam_take`, `cam_give` | an ISR that overwrites the task's state; no locks; overflow, bad pictures | a frame has one owner and frames go on coming |
| Camera lifecycle: `driver/esp_camera.c`, `cam_hal.c` | thirteen things taken one by one | init, deinit, interrupts and `cam_task` meanwhile | a failure in the middle; things freed while they are used | all or nothing; nothing freed in use |
| DMA sizes and sample filters: `ll_cam.c`, `sensor.c` | sizes | their computation for a sensor, format, clock, frame size | divisors, three counts of the same bytes in three files | the half buffers make exactly the frame |
| Windows of the sensors: `sensors/*.c` | registers of the window | `set_framesize` | tables, margins and divisions that differ for each sensor | the window is in the array, and the picture it makes is the frame's |
| OV2640 and SCCB: `sensors/ov2640.c`, `driver/sccb.c` | two banks of registers, the remembered bank, the status | setters, tables, start, save, load | transfers that fail; the same setting in two places | status and sensor agree |
| Wi-Fi start, boot: `main/network/wifi.c`, `main/app/app.c` | event group, retry counter, registrations, what is ready | `wifi_init`, event handler, `app_init`, `app_run` | another task's handler over a group that is deleted; failures, reboots | right result; no task without its parts; the boot ends |
| Task watchdog: `esp_common/src/task_wdt.c` | list of tasks, timer | init, add, reset, delete, ISR | several parties share one timer | a silent task is noticed |
| Interrupt watchdog: `esp_common/src/int_wdt.c` | flag, timer | tick hooks of two cores | one core feeds for both | a deaf core is caught |
| FreeRTOS hooks: `esp_common/src/freertos_hooks.c` | two tables for each core | register, deregister, call | slots shared by components | hook and subscription agree |
| PHY: `esp_wifi/src/phy_init.c` | reference count, three entries in flash | enable, disable, load, calibrate, store | a restart between two writes; another board or version | foreign data is not loaded; own data is not lost |

## 2. Modules

| Module | Models |
|---|---|
| `Server` | the accept, request and send tasks, their table, TCP as byte streams |
| `ServerProofs` | theorems about `Server`; the second half is about interest |
| `FrameOwner` | abstract: what the driver promises about frames |
| `CamHal` | the running driver; implements `FrameOwner` |
| `FramePipeline`, `FramePipelineProofs` | extends `CamHal` by the three image tasks; the proofs about both |
| `Streaming`, `StreamingProofs` | composes `Server` with the image tasks, over `FrameOwner` |
| `Wifi` | `wifi_init`, its handler, event loop, station |
| `App` | extends `Wifi` to the whole boot, with failures and reboots |
| `Watchdog` | abstract: what a watchdog of several parties promises |
| `FreertosHooks` | the tables of hooks; extended by the two watchdogs |
| `TaskWdt`, `IntWdt`, `WatchdogProofs` | the two watchdogs; both implement `Watchdog` |
| `Phy` | radio, calibration data, restarts |
| `AppProofs` | theorems about `Wifi` and `App`; in its second half about `Phy` |
| `CameraLifecycle`, `LifecycleProofs` | start, failure and stop of the camera |
| `SensorWindow` | what each sensor is told to read and to send for a frame size |
| `CameraConfig`, `CameraConfigProofs` | extends it by the sizes of frames and DMA; the proofs about both |
| `Ov2640`, `Ov2640Proofs` | the sensor's settings over a bus that fails |
| `MCServer` | symmetry of clients for TLC |
| `MCBoard` | the parts around the server, in one run |

### How state and actions correspond to the code

**Server.** One variable per global or live local of the code: `connections`,
`count`, `mask` (a set of slots for the 16-bit mask), `bits` (the event group),
`chunk` (byte 4 of each receive buffer, the only byte that outlives a `recv()`
and is read), the program counters `apc`, `hpc`, `spc`, and each task's locals.
A critical section without a blocking call is one action, enabled when `mutex`
is free. Two sections block inside, in `recv()` and in `sendto()`; they hold
`mutex` and are one action per slot. What the code does after it gives the
mutex is a separate action, so the windows between count and bit, mask and bit,
copy and `poll()` are in the model. A client is one TCP connection; `sent`,
`delivered` and `received` count the bytes of its stream, so that messages may
be cut, joined or unread when it closes. The peers and lwIP are external:
`Connect`, `Write`, `Deliver`, `Leave`, `Readable`, `Ended`, `Taken`.

**CamHal.** `events` is the event queue and `state` is `cam_obj->state`, written
by the task and, on overflow, by both interrupts. Each place of `cam_task` where
an interrupt or the other core can come between is a value of `pc`. A frame's
`en` flag is its membership in `enabled`. The contents of a picture are reduced
to its number of half buffers and to whether its markers are there.
`cam_take`'s recursion is a loop; its timeout is `finite` or, after an unsigned
underflow, `endless`. `FrameOwner` sees `queue`, the frames held by the
application or by `cam_take`, and the frame being written.

**FramePipeline** adds one program counter and one pointer per task to `CamHal`
and the two queues. `wanted` stands for the two event bits that `Server`
computes; the send task's critical section is one step.

**Streaming** is the other side of that cut: the event bits are `Server`'s, the
send loop is `Server`'s `SendBegin`, `SendSlot`, `SendEnd`, and the driver is
`FrameOwner`, which `CamHal` implements. Its `CaptureNothing` is both the full
queue and `cam_take`'s timeout.

**Wifi** has the main task, the event loop as a sequence of `posted` events that
is dispatched one at a time, and a station that may be refused or dropped.
The loop's mutex makes the run of a handler one step. **App** puts `app_main`
around it, one action per call of `app_init` and `app_run`. An `ESP_ERROR_CHECK` that
fails is `Abort`, a reboot that keeps the flash. `server_start` may leave any of
the socket sets its early returns allow, for its status is ignored, and `CreateSync` may
leave the tasks without the mutex, the event group or the queues: nobody looks at these
either.

**TaskWdt.** Every call of the code runs in one critical section under
`twdt_spinlock`, and so does the interrupt: each is one action. The list is a
function from subscribed tasks to `has_reset`. An idle task goes by the name of
its core and reports from its hook. **IntWdt** has one action per tick of a core,
which is where the two cores meet. In both, time is a counter that stops at the
timeout until the interrupt has run: interrupts are not held up for longer than
the unit of time. Both map the flags to what an abstract `Watchdog` has heard.

**FreertosHooks** is a library of tables: the other components that use them are
`OtherHooks` and `OtherTickHooks`, so a registration may find no slot.

**Phy.** `flash` has the three entries of the namespace `phy`; each `nvs_set_*`
is one action that succeeds, or fails and ends the storing, and a restart can
come between any two. `chip` and `version` are what the entries are
compared with. The users of the radio call in pairs, as the drivers do.

**CameraLifecycle.** `Takes` is the order in which three functions take things
and `Gives` the one way back; the actions walk these sequences. A failure can
come at each step, except at the two whose result nobody looks at. The
interrupts and `cam_task` are reduced to what they use.

**CameraConfig** is an algorithm: `InitCamera` chooses a sensor, a format, a clock
and a frame size, and `CamConfig` computes what `cam_config` computes.
`Filtered` is what a filter returns, `Written` what its loop and its rest write.
The code's search loops for a divisor are `Max` of a set. A start whose size the
sensor's `set_framesize` refuses fails.

**SensorWindow** has one operator for each driver whose source says what its numbers
mean, and brings them to one form: the part of the array that is read, the room
for a picture this leaves, and what is sent. For the OV2640 and the two SmartSens
sensors the numbers pass through 8-bit registers: `Window` is how the OV2640 reads
them, and inverts the code's `Registers`. The sizes of the arrays are those of the
drivers' default tables. Of the OV3660 and OV5640 the length of a line
(`X_TOTAL_SIZE`) and the clocks are left out.

**Ov2640.** A call is a sequence of transfers, `script` the calls that are left of
what was begun, and each step does one transfer of the first. `regBank` is the static
variable `reg_bank`, `chipBank` the bank the sensor has selected. A register is the
set of the settings whose bit is on in it, for all thirteen settings that are one bit:
the tables of registers keep what they write to these. `Settings` are those the
application changes. Every setter writes the status first and one bit after it,
whatever comes of the write; `set_vflip` writes another bit of the same register
before (`SetVref`). A read that fails yields all bits set or none, as
`SCCB_Read` returns 0xFF or 0 for its two halves; an error ends a call, and the start as well where `esp_camera.c` looks at it
(`onError`).

**MCBoard.** These parts share no state but the tables of hooks, of which the two
watchdogs use different ones. Each has the calls of the others as its own
environment. So the run explores them one after the other: in each initial state
one part is chosen, and only that one moves. A property of a part holds in the
sum exactly if it holds in the part alone; fairness is the boot's, in its own
behaviours. The states are added up instead of multiplied.

## 3. Runs

| Run | Instance | Shows |
|---|---|---|
| `server_table` | 3 clients, 2 slots, 3 sockets, 1 may leave, messages whole or cut after one byte | types, table, copy, parsed requests, frame delivery and freeing through all interleavings; slots are reused and the table is full |
| `server_interest` | 2 paced clients, 2 slots, 2 messages each, both may leave | the inductive invariant; bits follow interest; interest follows the last message |
| `streaming` | 1 client, 2 messages, 1 frame, fair | a client that is alone is served, gets images as long as it is interested, and is freed: through both groups of tasks |
| `server_stale_poll`, `server_lost_bit`, `server_split`, `server_sockets` | the smallest instance of each | findings, below |
| `camhal` | 3 frames, `CAMERA_GRAB_LATEST`, pictures of fixed size, 3 faults, fair | one owner and own frame written through the pop and push of a full queue; `CamHal` implements `FrameOwner`; frames flow although each frame was once the wrong size |
| `pipeline` | 2 JPEG frames grabbed when empty, as in `camera.c`; 3 halves, 2 faults, fair | one station per frame, stable while it is sent; no deadlock: `cam_take` returns, every lent frame comes back, images flow while wanted |
| `board` | the parts of `MCBoard`; see below | sixteen properties of the parts around the server, among them two refinements of `Watchdog` |
| `wifi_dropped` | 1 retry, 1 drop | finding, below |
| `ov2640_restore` | 2 settings | finding, below |

### The properties of `board`

| Part | Bounds | Properties |
|---|---|---|
| `App` over `Wifi` | 2 retries, 2 drops, 1 reboot, a failure at each step | `HandlerHasGroup`, `FailureIsFinal`, `TasksFollowBoot`, `BootEnds` |
| `TaskWdt` | 1 task and 2 idle tasks, timeout of 2 ticks, 2 hooks a core, 2 initialisations | `SilenceIsNoticed`, `HookFollowsTask`, `SharedSpec` |
| `IntWdt` | 2 cores, timeout 3 and at first 5 ticks | `DeafCoreIsCaught`, `BothSpec` |
| `Phy` | 2 boards, 2 versions, 2 users, 3 restarts | `LoadedIsOurs`, `StaysCalibrated` |
| `CameraLifecycle` | every step may fail, any number of starts | `AllOrNothing`, `FreedIsUnused` |
| `CameraConfig` | all 14 sensors, 4 formats, 2 classes of clock, 22 frame sizes, `CAMERA_DMA_BUFFER_SIZE_MAX` of `sdkconfig.defaults` | `PictureFits`, `WindowFits` |
| `Ov2640` | all 13 settings, 2 of which the application changes, 1 failed transfer between starts | `StatusIsTrue` |

### Why the bounds are enough

- `Peers`, `MaxConnections`: two slots and three clients give a full table, a
  slot that is reused while another is in use, and a client that waits for room.
- `MaxMessages` is 1 or 2: a change of mind takes two. `CutPoints` lists where a
  message may be cut; `server_table` cuts after the first byte (the rest
  is then an unknown request) and `server_split` after the header. The theorems hold
  for every set of cut points.
- `Paced` clients wait for one message to be read before the next. Without it
  `LastWordWins` fails, for a reason that is by design of `recv()` and not of an
  interleaving: one `recv()` yields at most one request (`server.c:218`), so of two
  messages that TCP joins the second is dropped. `server_split` is not paced, nor
  are the theorems that do not say so (section 4).
- `MaxFaults` counts overflows, bad pictures and pictures of a bad size. There
  are as many as frames, enough to lose them all if the code lost one each time.
- `EventLength` is 7 in the code (8 half buffers less one), `FrameHalves` some dozens;
  both are small here, so that overflow and a full frame are reached.
- `streaming` has one frame: each step of two is covered by `pipeline`, and
  with one every hand-over is on the path to the next image. With a second client
  that is silent the finding of `server_stale_poll` would break its properties.
- `MaxRetryCount` is 5 in the code; 2 has a retry that is the last and one that is not,
  and the theorems hold for every number. `MaxDrops` 2: a drop, a success after it and another drop. `MaxReboots` 1: the
  second boot starts from what the first left.
- `Timeout` 2 and two idle tasks and one other: a task that reports while two are
  silent, and one deleted while another hangs. `MaxHooks` 2: a table that others fill.
- `MaxChip`, `MaxVersion` 2 and 3 restarts: data of this board, a restart in the
  middle of storing, other software, and back to storing.
- `Settings`: `agc` has `aec` beside it in its register, and `vflip` has `hmirror` and
  the bit that its setter writes first. What a load restores, and a start tables and
  reads, is all thirteen. The theorem holds for every set of settings.
- `MaxBusFaults` is counted anew at each start of the camera: what one failure
  leaves behind is what the next start finds.

Runs say `CHECK_DEADLOCK FALSE`: bounded clients, faults, drops and restarts come
to an end, and then the system rests. `FramePipeline` and `CamHal` have no end of their
own; liveness is checked there instead.

### Fairness

- Server: every task runs; the mutex wakes its longest waiter and its users have
  the same clamped priority, so the steps that take it are strongly fair; TCP
  delivers. Clients owe nothing.
- CamHal: the camera sends pictures, `cam_task` has the second highest priority,
  a caller of `cam_take` goes on and gives back what it took.
- FramePipeline: the three tasks run. Clients owe nothing.
- Streaming: both, and of the driver what `CamHal`'s `FramesFlow` shows: with a
  frame of its own it comes to write to it and does not give up every picture.
- App: `app_main` and the event loop run. The network owes no answer: `wifi_init` waits
  without a timeout (`wifi.c:76`), and `BootEnds` says that an attempt to connect that
  is never answered, as without a DHCP server, is the only thing that can keep the
  boot waiting.

### Findings

1. `InterestServed`, `server.c:191`: `poll()` waits without a timeout on a copy of
   the table; a client installed meanwhile is not served until an older one moves.
2. `ClientsAwaited`, `tasks.c:73`: the bit is cleared after the mutex is given; a
   client installed in between is not waited for.
3. `InterestWasDeclared`, `tasks.c:67`: a header without its body is served with the
   byte that the slot's previous client left.
4. `EveryClientGreeted`, `server.c:63`: sockets are forgotten and never closed. The
   instance has a socket for each slot, so that the refusal needs a client that left
   its socket behind, and happens with an empty table; the board has seven sockets for
   ten slots, and comes to it sooner.
5. `StaysOnline`, `wifi.c:94`: a later drop is not handled.
6. `SettingsRestored`, `esp_camera.c:450`: settings are loaded in alphabetical order;
   `set_framesize` comes after `set_colorbar` and `set_dcw`, and its table of registers
   overwrites both.

Some more that no run shows:

- joined messages (above);
- `esp_camera.h:84` says that with `CAMERA_GRAB_LATEST` the queue always contains
  the last `fb_count` frames, while `cam_hal.c:397` makes it one shorter;
- `FreedIsUnused` needs `SameCore`. The board runs `cam_task` on core 0, where
  `app_main` is. With `CONFIG_CAMERA_CORE1` set a VSYNC that was queued before
  `cam_stop` makes `cam_task` start the DMA again after it; `cam_deinit` deletes the
  task and frees the buffer that the DMA writes to;
- `LoadedIsOurs` needs `GoesBack = FALSE`. The data is written before the address
  and the version that vouch for it; when older software comes back, or the flash
  to an earlier board, after a restart in between, the old entries vouch for the
  new data;
- the OV5640's row of `ratio_table` for 1x1 (`ov5640_settings.h:18`) ends at column
  2543 where its own width of 1920 and the margins give 2303: the window is 2160 x
  1920, and pictures of 96x96 and 240x240 are squeezed. `WindowFits` does not
  forbid that, as the picture is scaled. The row for 3x2 is two lines short;
- the SC031GS refuses every size but 200x200 (`sc031gs.c:247`), which
  `framesize_t` does not have: no camera with it can be started;
- the NT99141 sends 640x360 for `FRAMESIZE_VGA`, as the comment at `nt99141.c:275`
  says, and 640x480 for sizes it does not know; `cam_task` drops uncompressed
  pictures that are not as long as the frame (`cam_hal.c:199`);
- the OV2640's `aec2` is written as one value and read back as the other
  (`Inverted`), so its status is wrong after every start.

## 4. Proofs

Eight modules hold theorems, for every value of the constants that the named
assumptions of the modules allow. Some have a hypothesis of their own:

| Hypothesis | Theorems | Why |
|---|---|---|
| `OneAtATime` | `InterestInvariant`, `InterestDeclaredTheorem`, `LastWordTheorem` | each client waits for its message to be read, and TCP does not cut it. Without it the code breaks both properties: see `server_split` and joined messages above |
| `SameCore = TRUE` | `SameCoreTheorem`, `FreedIsUnusedTheorem` | `cam_task` on the caller's core, as the board's configuration has it. On the other core the property fails |
| `GoesBack = FALSE` | `LoadedTheorem` | no older software after newer, no earlier board again. Otherwise the property fails |
| `JpegHolds`: `DmaBufferMax >= 32768` | `PictureTheorem` | a compressed picture's DMA buffer is 8 half buffers of 4096 bytes (`ll_cam.c:467`) whatever `CONFIG_CAMERA_DMA_BUFFER_SIZE_MAX` is. `Kconfig` lets it be 8192 to 32768; the board's is 32768 |
| `HoldsTwoNodes`: `DmaBufferMax >= 8192` | `UncompressedTheorem` | the whole range of that option, for the formats that obey it |

`server_interest` and `board` check these properties on instances that satisfy the
hypotheses; nothing else is assumed.

### What is proved

| Module | Theorems of run properties | Others |
|---|---|---|
| `ServerProofs` | `ServerInvariant`, `TypeCorrect`, `TableAlwaysConsistent`, `SnapshotAlwaysMatches`, `RequestsFromActive`, `AcceptAlwaysFindsSlot`, `InterestBitAlwaysMatches`, `FrameAlwaysReachesInterested`, `FreedOnlyAtStreamEnd` (an action property), `InterestDeclaredTheorem`, `LastWordTheorem` | `InterestInvariant` |
| `StreamingProofs` | `StreamReachTheorem` | `StreamServerTheorem`: `StreamSpec => Spec`; `StreamOwnerTheorem`: `StreamSpec => Driver!Spec`; `StreamInvTheorem`, `SentIsOursTheorem` |
| `FramePipelineProofs` | of `CamHal`: `OnePlaceTheorem`, `OwnFrameTheorem`, `OwnerTheorem` (it implements `FrameOwner`) | `CamInvTheorem`, `TypeTheorem` |
| | of `FramePipeline`: `PipelineTypeTheorem`, `LentTheorem`, `StableTheorem`, `PipelineOwnerTheorem` | `DriverTheorem`: `PipelineSpec => Spec`; `PipelineInvTheorem` |
| `WatchdogProofs` | `DeafCoreTheorem`, `SilenceTheorem`, `HookTheorem`, `BothTheorem` and `SharedTheorem` (both implement `Watchdog`) | `IntWdtInvTheorem`, `TaskWdtInvTheorem` |
| `LifecycleProofs` | `AllOrNothingTheorem` (either core), `FreedIsUnusedTheorem` | `OrderInvTheorem`, `SameCoreTheorem` |
| `AppProofs` | of `App`: `HandlerHasGroupTheorem`, `FailureIsFinalTheorem`, `TasksTheorem` | `WifiInvTheorem`, `AppWifiInvTheorem` |
| | of `Phy`: `StaysCalibratedTheorem` (an action property), `LoadedTheorem` | `SessionTheorem`, `RadioTheorem` |
| `CameraConfigProofs` | `PictureTheorem`, `WindowTheorem` | `UncompressedTheorem`: `PictureFits` of the formats that are not compressed |
| `Ov2640Proofs` | `StatusTheorem` | `Ov2640InvTheorem` |

### The inductive invariants, and why they are needed

Hardly any of the safety properties is inductive. TLC has checked the strengthened
invariants on small instances as well. For each a lemma, or one for each conjunct or
task, says that a step keeps it, with one step of the proof per action.

**Server: `ServerInv`** adds what each task may rely on where it is.
`MutexHeld`: the mutex is held exactly in the two long critical sections.
`HandlerLocals`: `poll()`'s answer is about the copy, and parsed requests come
from slots already passed; a slot is freed only by the request task, at the slot
it has come to, so a request it has parsed stays valid. `AcceptLocals`: the count
is below the limit from the check to the installation; only the accept task
raises it, so a slot is free, which needs `count = Cardinality(Active)`.
`SendProgress`: during the loop the frame has gone to the interested clients of
the slots passed. `InterestBit`: how far bit and mask may differ at each step of
the request task. `StreamOrder`: received, delivered and written bytes are ordered.

**Interest: `InterestInv`.** That the mask obeys the last word is true only between
a request's parsing and the next: so `RequestIsLastWord` says that a request not
yet served is its sender's last word and still in the buffer of its slot, and
`HeardWhenServed` that the mask obeys the word of every client without one.
`UnreadBefore` starts this for a client that takes a used slot: it has been read
nothing of, and the mask holds nothing for it. `WholeMessages` makes each `recv()`
of such a client exactly one message.

**Streaming: `StreamInv`.** Each step of the composition is a step of `Server` or
leaves it alone, and the same of `FrameOwner`; so the theorems about both hold in
it without another proof. `OwnerInv` says of the abstract driver that no frame is
queued twice, or queued and lent, or written while it is either. With
`LentSomewhere` and `StationsApart` (the image tasks hold what is lent, each frame
once) and `SenderMatches` (the critical section of `server_send_image_data` is entered
only with a frame) follows `SentIsOurs`: the frame that is sent slot by slot stays
the application's, with all other tasks running in between.

**CamHal: `CamInv`.** `Covered` and `Apart` are the property itself; they are not
inductive without `LocalsMatch` (the task has popped a frame exactly at the steps
that push it back), `PictureInOwnFrame` (while a picture is on its way, `pos` is a
frame that is enabled; the overflow path may set the state to idle at any of these
steps, and so the invariant is about `pc` and not only `state`) and
`OnlyLatestPops` (a driver that does not grab the latest frame never finds the
queue full, for it is as long as there are frames).

**FramePipeline: `PipelineInv`.** `DriverTheorem` first: the three tasks together are
one of the applications that `CamHal` allows, so `CamInv` need not be proved again.
Then `TasksMatch` (a task has a frame exactly at the steps that use it),
`LentSomewhere` and `StationsApart`. `SentFrameStable` follows, since what is lent is not
enabled, and only what is enabled, or the task's, is written to.

**IntWdt: `IntWdtInv`.** The timer bounds the silence of the core that feeds it. The
other core's is bounded only if its flag is clear, and a flag set before the start
may be worth the initial timeout (`Grace`).

**TaskWdt: `TaskWdtInv`.** `SomeoneMissing`: the list never stays with all flags set,
for the last reset clears them. `SilenceBounded`: a task whose flag is set was heard,
or the interrupt has named someone, since the timer started; one whose flag is not,
since one timeout before. This is why the property says two timeouts, and why it
cannot say that the interrupt named this very task. The lemmas on `WithHook` and
`WithoutHook` say that a registration changes one callback of one core and no other;
they rest on the well-foundedness of `<` for the choice of the first free slot.

**Phy: `SessionInv`, `FlashInv`, `RadioInv`.** `EntriesInOrder`: data, address and version
are written in this order, so, as long as boards and versions do not come back, the
entries that vouch are no newer than what they vouch for, and entries that match the
board that runs are for data that does. `RadioInv`: the reference count is the
number of users; that `Disable` sees the last one needs it as a cardinality.

**CameraLifecycle: `OrderInv`, `SameCoreInv`.** In the start the camera holds what
stands before its step in `Takes`; in the teardown nothing of what stands before its
step in `Gives`. `AllOrNothing` follows on either core, for interrupts and `cam_task`
take nothing. `FreedIsUnused` needs how far `cam_task` is ahead of the caller: with
the same core it has taken the last VSYNC before the DMA is stopped.

**App: `WifiInv`.** Three histories: `Trying`, where the retries the handler has counted
follow the refusals with at most one event between them; `Failed`, which nothing
leaves, since no event is pending and the station is offline; `Joined`, where the
connected bit was first, and a later failure bit does not change what `app_main` reads.
There the station is online with nothing pending, or was dropped (`Stays`), which is what
`TasksFollowBoot` says of every board whose tasks run.

**CameraConfig: `Configured`.** What runs is what `cam_config` makes of a request that
the sensor takes; the rest is arithmetic, and for this board TLC could list the
inputs, but for no other size of the DMA's buffer. `RgbDmaIs`: what the search
loops of `ll_cam_calc_rgb_dma` find makes a half buffer whole lines, a divisor of the
frame, and nodes of one size that fill it, for every width and height of which a line
fits into a half buffer. `FilteredIs`: what a filter returns, and what its loop and its
rest write. As each line is a multiple of 16 bytes (`UncompressedPicture`) the two
agree, and the halves make the frame. A compressed picture has fixed sizes
(`JpegFigures`). For the windows there is a lemma for each family of drivers:
`LeavesRoom` for areas of which margins are taken (OV3660, OV5640), `SubsampledPlaced`
for windows that are enlarged by a ratio and centred (GC2145, GC0308), `ScPlaced` for the
two SmartSens sensors; `RegistersRead` shows that the OV2640's registers, eight bits and
what is over in three others, say what they were told.

**Ov2640: `IInv`.** `StatusIsTrue` is about a sensor at rest, and between two rests lie
dozens of transfers. One half of the invariant is about what is left to do: each
call that is left is a setter, `SetVref`, a table or the reads of `init_status`, and a
table that writes to registers of settings either comes before the reads of them
(`ToBeRead`) or touches only `Overwritten` and `Inverted` ones (`IsNarrow`). The other is
about what was done as long as no transfer failed: the bank that the driver remembers
is the selected one, except before the reset, which is followed by a register of the
other bank (`ResetIsFirst`); no register holds another one's bit; and each setting is
what its register says, or is yet to be read, or is the one that is just written.

### What is only model-checked, and why

- Liveness: `InterestServed`, `GoneIsFreed`, `ImagesReachInterested`, `FramesFlow`,
  `TakeReturns`, `LentComesBack`, `ImagesFlow`, `BootEnds`, and the findings. TLAPS does
  not prove properties under fairness.
- `SettingsRestored` is a finding about one sequence of settings and not a theorem.

## 5. Abstractions and what is not modelled

Left out of `Server`: the RTP header, failed `send()` or `poll()` calls. Left out
of `CamHal`: the contents of the DMA ring, so that a half buffer overwritten while
it is copied, and half buffers of an earlier picture still in the event queue, are
not seen; clock and timeouts are choices. Left out of `FramePipeline` and
`Streaming`: the delays that set the frame rate. Left out of `App`: what a
task does without a socket, the mutex, the event group or a queue (`app.c:43`), of which
`App` says only that it may have to. Left out of `FreertosHooks`: that a slot is read twice, for
the test and for the call, without the lock (`freertos_hooks.c:51`). Left out of
`Ov2640`: settings that are numbers, and the clock divisors. What a write reports is left out
where nobody looks at it.

Not modelled at all:

- the broadcast task: it keeps no state;
- of the other thirteen sensors, all but `set_framesize`: register tables of the
  vendor and writes of them; and the windows of OV7670, OV7725, NT99141 and BF20A6,
  whose source does not say what the numbers mean;
- image conversions: pixel arithmetic, not used by the program;
- other targets, `pm_locks.c`, `smartconfig*.c`: not built, returning at the first
  line, or never called with this configuration;
- `wifi_init.c`, `wifi_default.c`, `esp_adapter.c`: each call is forwarded to a
  library whose source is not in the repository;
- `esp_phy_get_init_data` and the country codes: tables, not configured;
- MAC addresses, brownout, debug stubs and error names.

These are most of the repository's lines, and most of them are tables,
declarations and comments of headers: the program's own logic is a small part.

## 6. Plan

Every safety property of a passing run is a theorem now. What is left, in this order:

1. `Server`: that a message that is cut or joined costs no more than this one message, an
   invariant of `received` that holds without `OneAtATime`.
2. `Ov2640`: what a failed transfer can cost at most, setting by setting, so that
   `StatusIsTrue` says something about a start with a failure too.
3. `FrameOwner`: theorems of its own, so that `StreamingProofs` and
   `FramePipelineProofs` share the lemmas on its queue.
