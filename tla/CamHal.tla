------------------------------- MODULE CamHal -------------------------------
(***************************************************************************)
(* The camera driver of components/esp32-camera while it runs: two         *)
(* interrupt handlers, the task that turns their events into frames        *)
(* (cam_task of driver/cam_hal.c) and the calls of the application that    *)
(* take a frame (cam_take) and give it back (cam_give).                    *)
(*                                                                         *)
(* The interrupts preempt the task between any two of its steps, and the   *)
(* application runs on the other core.  Of the pictures only the number of *)
(* DMA half buffers matters, and whether a JPEG picture has its start and  *)
(* end markers.  On the ESP32 the driver is never in psram_mode.           *)
(***************************************************************************)
EXTENDS Integers, Sequences, FiniteSets

CONSTANTS
    Frames,       \* the frame buffers: fb_count of camera_config_t
    NoFrame,      \* a null pointer to a frame
    Jpeg,         \* jpeg_mode
    GrabLatest,   \* grab_mode is CAMERA_GRAB_LATEST
    EventLength,  \* the length of event_queue: dma_half_buffer_cnt - 1
    FrameHalves,  \* the half buffers that fit in a frame buffer
    MaxFaults     \* bound: overflows, bad pictures and pictures of a bad size

ASSUME CamHalAssumption ==
    /\ IsFiniteSet(Frames) /\ Frames # {}
    /\ NoFrame \notin Frames
    /\ Jpeg \in BOOLEAN /\ GrabLatest \in BOOLEAN
    /\ EventLength \in Nat \ {0}
    /\ FrameHalves \in Nat \ {0}
    /\ MaxFaults \in Nat

FrameCount == Cardinality(Frames)

\* cam_config sizes the queue of captured frames.
QueueLength == IF GrabLatest /\ FrameCount > 1 THEN FrameCount - 1 ELSE FrameCount

VARIABLES
    events,   \* event_queue
    state,    \* cam_obj->state, written by the task and by both handlers
    running,  \* the DMA is started and its interrupt enabled
    halves,   \* the half buffers the DMA has filled since the last VSYNC
    faults,   \* how many more faults the run may have
    pc,       \* cam_task: where it is
    event,    \* cam_task: cam_event
    pos,      \* cam_task: frame_pos
    cnt,      \* cam_task: half buffers copied to the frame
    popped,   \* cam_task: the frame it took back from the queue
    enabled,  \* the frames with en = 1
    queue,    \* frame_buffer_queue
    takePc,   \* cam_take: where its caller is
    taken,    \* cam_take: dma_buffer
    patience, \* cam_take: its timeout, which may have wrapped around
    held      \* the frames the application has taken

deviceVars == <<events, state, running, halves, faults>>
taskVars == <<pc, event, pos, cnt, popped>>
takeVars == <<takePc, taken, patience>>
vars == <<deviceVars, taskVars, takeVars, enabled, queue, held>>

Init ==
    /\ events = <<>> /\ state = "idle" /\ running = FALSE
    /\ halves = 0 /\ faults = MaxFaults
    /\ pc = "wait" /\ event = "eof" /\ pos \in Frames /\ cnt = 0 /\ popped = NoFrame
    /\ enabled = Frames /\ queue = <<>>
    /\ takePc = "idle" /\ taken = NoFrame /\ patience = "finite"
    /\ held = {}

-----------------------------------------------------------------------------
(* The interrupt handlers.                                                  *)

\* ll_cam_send_event: with the queue full the DMA is stopped and the task's
\* state is set behind its back.
Overflow == running' = FALSE /\ state' = "idle"

SendEvent(e) ==
    IF Len(events) < EventLength
      THEN events' = Append(events, e) /\ UNCHANGED <<state, running>>
      ELSE Overflow /\ UNCHANGED events

\* What the camera does when nothing is wrong: the events are read in time, the
\* last VSYNC is served before the next, and a picture fills at least one half
\* buffer and leaves room in its frame.  It does otherwise MaxFaults times.
InTime == Len(events) < EventLength
VsyncServed ==
    /\ \A k \in DOMAIN events : events[k] # "vsync"
    /\ event = "vsync" => pc = "wait"
RightSize == IF Jpeg THEN halves > 0 ELSE halves = FrameHalves
MoreToCome == halves < IF Jpeg THEN FrameHalves - 1 ELSE FrameHalves
Expected(ok) == /\ ok \/ faults > 0
                /\ faults' = IF ok THEN faults ELSE faults - 1

VsyncIsr ==
    /\ Expected(InTime /\ VsyncServed /\ (running => RightSize))
    /\ SendEvent("vsync")
    /\ halves' = 0
    /\ UNCHANGED <<taskVars, takeVars, enabled, queue, held>>

DmaIsr ==
    /\ running
    /\ Expected(InTime /\ MoreToCome)
    /\ SendEvent("eof")
    /\ halves' = IF halves < FrameHalves THEN halves + 1 ELSE halves
    /\ UNCHANGED <<taskVars, takeVars, enabled, queue, held>>

-----------------------------------------------------------------------------
(* cam_task.                                                                *)

Receive ==
    /\ pc = "wait" /\ events # <<>>
    /\ event' = Head(events) /\ events' = Tail(events)
    /\ pc' = "dispatch"
    /\ UNCHANGED <<state, running, halves, faults, pos, cnt, popped, takeVars, enabled,
                   queue, held>>

DispatchIdle ==
    /\ pc = "dispatch" /\ state = "idle"
    /\ pc' = IF event = "vsync" THEN "start" ELSE "wait"
    /\ UNCHANGED <<deviceVars, event, pos, cnt, popped, takeVars, enabled, queue, held>>

DispatchEof ==
    /\ pc = "dispatch" /\ state = "read" /\ event = "eof"
    /\ pc' = "copy"
    /\ UNCHANGED <<deviceVars, event, pos, cnt, popped, takeVars, enabled, queue, held>>

\* A JPEG picture of less than a half buffer has no end of its own and is lost.
DispatchVsync ==
    /\ pc = "dispatch" /\ state = "read" /\ event = "vsync"
    /\ running' = FALSE
    /\ pc' = IF cnt > 0 \/ ~Jpeg THEN "finish" ELSE "restart"
    /\ UNCHANGED <<events, state, halves, faults, event, pos, cnt, popped, takeVars,
                   enabled, queue, held>>

\* cam_get_next_frame: the current frame, or any other; cam_give may enable a
\* frame while the loop looks for one, so the first is as good as the last.
NextFrames_Any == Frames
NextFrames == IF pos \in enabled THEN {pos} ELSE enabled

\* cam_start_frame, from the idle state.
Start ==
    /\ pc = "start"
    /\ IF NextFrames = {}
         THEN pc' = "wait" /\ cnt' = 0 /\ UNCHANGED <<running, pos>>
         ELSE /\ pos' \in NextFrames
              /\ running' = TRUE
              /\ pc' = "begin"
              /\ UNCHANGED cnt
    /\ UNCHANGED <<events, state, halves, faults, event, popped, takeVars, enabled, queue,
                   held>>

Begin ==
    /\ pc = "begin"
    /\ state' = "read"
    /\ cnt' = 0
    /\ pc' = "wait"
    /\ UNCHANGED <<events, running, halves, faults, event, pos, popped, takeVars, enabled,
                   queue, held>>

Room_OffByOne == cnt <= FrameHalves
Room == cnt < FrameHalves

\* One half buffer goes to the frame, unless it has no room; without the start
\* marker in the first one the picture is given up.
CopyHalf ==
    /\ pc = "copy"
    /\ \/ /\ ~Room
          /\ running' = FALSE
          /\ UNCHANGED <<state, faults, cnt>>
       \/ /\ Room
          /\ cnt' = cnt + 1
          /\ UNCHANGED <<state, running, faults>>
       \/ /\ cnt = 0 /\ Jpeg
          /\ Expected(FALSE)
          /\ running' = FALSE /\ state' = "idle" /\ cnt' = 1
    /\ pc' = "wait"
    /\ UNCHANGED <<events, halves, event, pos, popped, takeVars, enabled, queue, held>>

ShortFrame_Lost == enabled' = enabled \ {pos}
ShortFrame == UNCHANGED enabled

\* The frame is complete: the last half buffer of a JPEG picture is copied, or
\* not if there is no room; any other picture must have the size of the frame.
Finish ==
    /\ pc = "finish"
    /\ cnt' = IF Jpeg /\ Room THEN cnt + 1 ELSE cnt
    /\ IF Jpeg \/ cnt = FrameHalves
         THEN enabled' = enabled \ {pos} /\ pc' = "send"
         ELSE ShortFrame /\ pc' = "restart"
    /\ UNCHANGED <<deviceVars, event, pos, popped, takeVars, queue, held>>

QueueFull == Len(queue) >= QueueLength

SendFrame ==
    /\ pc = "send"
    /\ IF QueueFull THEN pc' = "pop" /\ UNCHANGED queue
                    ELSE pc' = "restart" /\ queue' = Append(queue, pos)
    /\ UNCHANGED <<deviceVars, event, pos, cnt, popped, takeVars, enabled, held>>

\* The oldest frame is popped to make room; the application may just have taken
\* it, and then the new frame is dropped.
Pop ==
    /\ pc = "pop"
    /\ IF queue = <<>>
         THEN enabled' = enabled \cup {pos} /\ pc' = "restart" /\ UNCHANGED <<queue, popped>>
         ELSE /\ popped' = Head(queue) /\ queue' = Tail(queue)
              /\ pc' = "push"
              /\ UNCHANGED enabled
    /\ UNCHANGED <<deviceVars, event, pos, cnt, takeVars, held>>

Push ==
    /\ pc = "push"
    /\ IF QueueFull THEN enabled' = enabled \cup {pos} /\ UNCHANGED queue
                    ELSE queue' = Append(queue, pos) /\ UNCHANGED enabled
    /\ pc' = "free"
    /\ UNCHANGED <<deviceVars, event, pos, cnt, popped, takeVars, held>>

FreePopped_Both == enabled' = enabled \cup {popped, pos}
FreePopped == enabled' = enabled \cup {popped}

Free ==
    /\ pc = "free"
    /\ FreePopped
    /\ popped' = NoFrame
    /\ pc' = "restart"
    /\ UNCHANGED <<deviceVars, event, pos, cnt, takeVars, queue, held>>

RestartIdle_Not == UNCHANGED state
RestartIdle == state' = "idle"

\* cam_start_frame again: the next picture, or the idle state.
Restart ==
    /\ pc = "restart"
    /\ IF NextFrames = {}
         THEN RestartIdle /\ UNCHANGED <<running, pos>>
         ELSE pos' \in NextFrames /\ running' = TRUE /\ UNCHANGED state
    /\ cnt' = 0
    /\ pc' = "wait"
    /\ UNCHANGED <<events, halves, faults, event, popped, takeVars, enabled, queue, held>>

-----------------------------------------------------------------------------
(* The calls of the application.                                            *)

TakeCall ==
    /\ takePc = "idle"
    /\ takePc' = "receive" /\ patience' = "finite"
    /\ UNCHANGED <<deviceVars, taskVars, taken, enabled, queue, held>>

TakeReceive ==
    /\ takePc = "receive" /\ queue # <<>>
    /\ taken' = Head(queue) /\ queue' = Tail(queue)
    /\ takePc' = "verify"
    /\ UNCHANGED <<deviceVars, taskVars, patience, enabled, held>>

TakeTimeout ==
    /\ takePc = "receive" /\ queue = <<>> /\ patience = "finite"
    /\ takePc' = "return"
    /\ UNCHANGED <<deviceVars, taskVars, taken, patience, enabled, queue, held>>

\* cam_take(timeout - elapsed): the ticks that have passed since the call are
\* subtracted without a sign, and one too many makes the new timeout endless.
TimeLeft == IF patience = "endless" THEN {"endless"} ELSE {"finite", "endless"}

GiveBack_Forgets == UNCHANGED enabled
GiveBack == enabled' = enabled \cup {taken}

\* A JPEG frame is searched for its end marker; without one it is given back
\* and the call starts over.
TakeVerify ==
    /\ takePc = "verify"
    /\ \/ /\ takePc' = "return"
          /\ UNCHANGED <<faults, enabled, taken, patience>>
       \/ /\ Jpeg /\ Expected(FALSE)
          /\ GiveBack
          /\ taken' = NoFrame /\ patience' \in TimeLeft
          /\ takePc' = "receive"
    /\ UNCHANGED <<events, state, running, halves, taskVars, queue, held>>

TakeReturn ==
    /\ takePc = "return"
    /\ held' = held \cup ({taken} \ {NoFrame})
    /\ taken' = NoFrame /\ takePc' = "idle" /\ patience' = "finite"
    /\ UNCHANGED <<deviceVars, taskVars, enabled, queue>>

\* cam_give.
Give(f) ==
    /\ f \in held
    /\ held' = held \ {f}
    /\ enabled' = enabled \cup {f}
    /\ UNCHANGED <<deviceVars, taskVars, takeVars, queue>>

-----------------------------------------------------------------------------
Device == VsyncIsr \/ DmaIsr
Task ==
    \/ Receive \/ DispatchIdle \/ DispatchEof \/ DispatchVsync \/ Start \/ Begin
    \/ CopyHalf \/ Finish \/ SendFrame \/ Pop \/ Push \/ Free \/ Restart
TakeRun == TakeReceive \/ TakeTimeout \/ TakeVerify \/ TakeReturn
Application == TakeCall \/ TakeRun \/ (\E f \in held : Give(f))

Next == Device \/ Task \/ Application

(***************************************************************************)
(* The camera goes on sending pictures, the task runs, and an application  *)
(* that waits for a frame goes on and gives back what it took.             *)
(***************************************************************************)
DriverFairness == WF_vars(VsyncIsr) /\ WF_vars(DmaIsr) /\ WF_vars(Task) /\ WF_vars(TakeRun)

Spec == Init /\ [][Next]_vars
FairSpec == Spec /\ DriverFairness /\ \A f \in Frames : WF_vars(Give(f))

-----------------------------------------------------------------------------
Queued == {queue[k] : k \in DOMAIN queue}

\* Every variable keeps its type.
TypeOK ==
    /\ events \in Seq({"vsync", "eof"}) /\ Len(events) <= EventLength
    /\ state \in {"idle", "read"} /\ running \in BOOLEAN
    /\ halves \in 0 .. FrameHalves /\ faults \in 0 .. MaxFaults
    /\ pc \in {"wait", "dispatch", "start", "begin", "copy", "finish", "send", "pop",
               "push", "free", "restart"}
    /\ event \in {"vsync", "eof"}
    /\ pos \in Frames /\ popped \in Frames \cup {NoFrame}
    /\ cnt \in 0 .. FrameHalves
    /\ enabled \subseteq Frames
    /\ queue \in Seq(Frames)
    /\ takePc \in {"idle", "receive", "verify", "return"}
    /\ taken \in Frames \cup {NoFrame}
    /\ patience \in {"finite", "endless"}
    /\ held \subseteq Frames

\* The frames that only cam_task knows of: a complete one that is not yet in the
\* queue, and the one that made room for it.
InTask ==
    (IF pc \in {"send", "pop", "push"} THEN {pos} ELSE {})
        \cup (IF pc \in {"push", "free"} THEN {popped} ELSE {})
InTake == {taken} \ {NoFrame}

Places == <<enabled, InTask, Queued, InTake, held>>

\* Three parties hand frames to each other without a lock, by a flag, a queue
\* and a pointer: each frame is in exactly one place.
FrameInOnePlace ==
    /\ \A f \in Frames : \E k \in DOMAIN Places : f \in Places[k]
    /\ \A j, k \in DOMAIN Places : j # k => Places[j] \cap Places[k] = {}
    /\ \A j, k \in DOMAIN queue : queue[j] = queue[k] => j = k
    /\ pc = "push" => popped # pos

\* The task writes a picture only into a frame that is its own, whatever the
\* interrupts did to its state since it chose the frame.
WritesOwnFrame ==
    state = "read" \/ pc \in {"begin", "copy", "finish"} =>
        pos \in enabled \/ pc \in {"send", "pop", "push", "free", "restart"}

\* A caller of cam_take gets a frame, or is told there is none, though it may
\* find picture after picture broken and its timeout may have wrapped around.
TakeReturns == takePc = "receive" ~> takePc = "return"

\* An application that takes frames and gives them back is served for ever,
\* whatever events were lost and pictures broken before.
FramesFlow == []<>(takePc # "idle") => []<>(takePc = "return" /\ taken # NoFrame)

\* What the driver promises: FrameOwner, with the frame of the picture as the
\* task's frame from the moment it starts until it is in the queue.
Writing ==
    \/ pc \in {"begin", "copy", "finish", "send", "pop", "push"}
    \/ state = "read" /\ pc \in {"wait", "dispatch"}

Owner == INSTANCE FrameOwner WITH
    captured <- queue,
    lent <- held \cup InTake,
    target <- IF Writing THEN pos ELSE NoFrame

OwnerSpec == Owner!Spec
=============================================================================
