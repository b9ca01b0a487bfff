-------------------------- MODULE CameraLifecycle --------------------------
(***************************************************************************)
(* How the camera is started and stopped (esp32-camera/driver/             *)
(* esp_camera.c and cam_hal.c): a chain of things that are taken one after *)
(* the other, each of which may fail, and one way to give them back.  The  *)
(* interrupts and cam_task run between the caller's steps.  What they do   *)
(* to the frames is CamHal's; here they only use what the caller takes and *)
(* frees.  esp_camera.h: esp_camera_init is called once, or again after it *)
(* failed or after esp_camera_deinit.                                      *)
(***************************************************************************)
EXTENDS Naturals, Sequences

CONSTANT SameCore \* cam_task runs on the caller's core, above its priority

ASSUME LifecycleAssumption == SameCore \in BOOLEAN

VARIABLES
    held,      \* what is taken
    phase,     \* of the caller: between calls, in esp_camera_init, in the teardown
    at,        \* the caller's next step in its phase
    outcome,   \* what the last call returned
    vsyncOn,   \* the VSYNC interrupt is enabled
    dmaOn,     \* the DMA writes to its buffer
    camEvents, \* kinds of events in event_queue
    capturing  \* cam_task is in CAM_STATE_READ_BUF

callerVars == <<held, phase, at, outcome>>
captureVars == <<vsyncOn, dmaOn, camEvents, capturing>>
lifecycleVars == <<callerVars, captureVars>>

LifecycleInit ==
    /\ held = {} /\ phase = "idle" /\ at = 1 /\ outcome = "none"
    /\ vsyncOn = FALSE /\ dmaOn = FALSE /\ camEvents = {} /\ capturing = FALSE

\* What esp_camera_init takes, in this order: cam_init the object, camera_probe
\* s_state, the clock and the I2C driver, and cam_config the rest.
Takes == <<"object", "state", "clock", "sccb", "sensor", "frames", "buffer",
           "descriptors", "events", "pictures", "isr", "task", "framesize">>

\* Steps that take nothing which would have to be given back.
Checks == {"sensor", "framesize"}

\* Steps whose failure nobody looks at.
Unchecked == {"clock", "task"}

\* cam_stop
CamStop_DmaFirst == <<"dma", "vsync">>
CamStop == <<"vsync", "dma">>

\* esp_camera_deinit: cam_deinit, then its own part.
Gives == CamStop \o <<"task", "events", "pictures", "descriptors", "buffer",
                       "frames", "isr", "object", "clock", "sccb", "state">>

-----------------------------------------------------------------------------
(* The caller.                                                              *)

InitCalled ==
    /\ phase = "idle" /\ outcome # "ok"
    /\ phase' = "init" /\ at' = 1 /\ outcome' = "none"
    /\ UNCHANGED <<held, captureVars>>

Take ==
    /\ phase = "init" /\ at <= Len(Takes)
    /\ held' = held \cup ({Takes[at]} \ Checks)
    /\ at' = at + 1
    /\ UNCHANGED <<phase, outcome, captureVars>>

TakeUnchecked ==
    /\ phase = "init" /\ at <= Len(Takes) /\ Takes[at] \in Unchecked
    /\ at' = at + 1
    /\ UNCHANGED <<held, phase, outcome, captureVars>>

\* cam_init alone returns its error; after that every error ends in
\* esp_camera_deinit, by way of cam_deinit when it is cam_config's.
GiveUp_Half ==
    IF Takes[at] \in {"object", "framesize"}
      THEN phase' = "idle" ELSE phase' = "deinit"
GiveUp ==
    IF Takes[at] = "object" THEN phase' = "idle" ELSE phase' = "deinit"

\* camera_probe stops the clock itself, unless it is the sensor's reset that fails.
Fail ==
    /\ phase = "init" /\ at <= Len(Takes) /\ Takes[at] \notin Unchecked
    /\ GiveUp /\ at' = 1 /\ outcome' = "failed"
    /\ \/ Takes[at] # "sccb" /\ UNCHANGED held
       \/ Takes[at] \in {"sccb", "sensor"} /\ held' = held \ {"clock"}
    /\ UNCHANGED captureVars

\* cam_start
InitReturns ==
    /\ phase = "init" /\ at > Len(Takes)
    /\ vsyncOn' = TRUE
    /\ phase' = "idle" /\ outcome' = "ok"
    /\ UNCHANGED <<held, at, dmaOn, camEvents, capturing>>

DeinitCalled ==
    /\ phase = "idle" /\ outcome = "ok"
    /\ phase' = "deinit" /\ at' = 1 /\ outcome' = "gone"
    /\ UNCHANGED <<held, captureVars>>

\* On one core cam_task has handled its events before the caller goes on.
TaskWaits == SameCore /\ "task" \in held => camEvents = {}

Give ==
    /\ phase = "deinit" /\ at <= Len(Gives) /\ TaskWaits
    /\ held' = held \ {Gives[at]}
    /\ vsyncOn' = (vsyncOn /\ Gives[at] # "vsync")
    /\ dmaOn' = (dmaOn /\ Gives[at] # "dma")
    /\ camEvents' = IF Gives[at] = "events" THEN {} ELSE camEvents
    /\ capturing' = (capturing /\ Gives[at] # "task")
    /\ at' = at + 1
    /\ UNCHANGED <<phase, outcome>>

DeinitReturns ==
    /\ phase = "deinit" /\ at > Len(Gives)
    /\ phase' = "idle"
    /\ UNCHANGED <<held, at, outcome, captureVars>>

-----------------------------------------------------------------------------
(* The interrupts and cam_task.                                             *)

\* ll_cam_vsync_isr and ll_cam_dma_isr.
VsyncIsr ==
    /\ vsyncOn /\ camEvents' = camEvents \cup {"vsync"}
    /\ UNCHANGED <<callerVars, vsyncOn, dmaOn, capturing>>
DmaIsr ==
    /\ dmaOn /\ camEvents' = camEvents \cup {"eof"}
    /\ UNCHANGED <<callerVars, vsyncOn, dmaOn, capturing>>

\* A VSYNC ends a picture and begins the next, if a frame is free for it.
TaskVsync ==
    /\ "task" \in held /\ "vsync" \in camEvents
    /\ camEvents' = camEvents \ {"vsync"}
    /\ capturing' \in BOOLEAN /\ dmaOn' = capturing'
    /\ UNCHANGED <<callerVars, vsyncOn>>

\* A half buffer is copied; one too many, or no JPEG at all, stops the picture.
TaskEof ==
    /\ "task" \in held /\ "eof" \in camEvents
    /\ camEvents' = camEvents \ {"eof"}
    /\ \/ UNCHANGED <<dmaOn, capturing>>
       \/ capturing /\ dmaOn' = FALSE /\ capturing' \in BOOLEAN
    /\ UNCHANGED <<callerVars, vsyncOn>>

LifecycleNext ==
    \/ InitCalled \/ Take \/ TakeUnchecked \/ Fail \/ InitReturns
    \/ DeinitCalled \/ Give \/ DeinitReturns
    \/ VsyncIsr \/ DmaIsr \/ TaskVsync \/ TaskEof

LifecycleSpec == LifecycleInit /\ [][LifecycleNext]_lifecycleVars

-----------------------------------------------------------------------------
\* Between calls the camera is all there or not there at all, wherever
\* esp_camera_init failed: esp_camera_fb_get only looks at s_state, and another
\* esp_camera_init finds nothing left of the last.
Needed == {Takes[k] : k \in DOMAIN Takes} \ (Checks \cup Unchecked)
AllOrNothing ==
    phase = "idle" => IF outcome = "ok" THEN Needed \subseteq held ELSE held = {}

\* Nothing is freed under those who still use it: the DMA its buffer and its list,
\* the interrupts the queue they send to and the camera they are given, and
\* cam_task the queues and the frames.
FreedIsUnused ==
    /\ dmaOn => {"buffer", "descriptors"} \subseteq held
    /\ vsyncOn \/ dmaOn => {"object", "events"} \subseteq held
    /\ "task" \in held => {"object", "events", "pictures", "frames"} \subseteq held
=============================================================================
