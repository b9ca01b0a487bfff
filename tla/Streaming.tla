----------------------------- MODULE Streaming -----------------------------
(***************************************************************************)
(* The server and the image tasks together (main/network/tasks.c): the     *)
(* event bits that the request task sets and clears start and stop the     *)
(* capture task, and each frame it hands on is sent in Server's critical   *)
(* section.  The camera driver is FrameOwner, which CamHal implements, in  *)
(* the board's mode of a queue as long as it has frames.                   *)
(***************************************************************************)
EXTENDS Server

CONSTANTS Frames, NoFrame

ASSUME StreamingAssumption == NoFrame \notin Frames

VARIABLES
    captured, lent, target, \* the driver
    image,                  \* capture task: fb
    capturing,              \* capture task: past the event bits
    produced,               \* image_produce_queue
    sending, sendPc,        \* send task: fb, and where it is
    recycled,               \* image_recycle_queue
    returning               \* recycle task: fb

driverVars == <<captured, lent, target>>
captureVars == <<image, capturing>>
taskVars == <<captureVars, produced, sending, sendPc, recycled, returning>>
streamVars == <<vars, driverVars, taskVars>>

Driver == INSTANCE FrameOwner WITH QueueLength <- Cardinality(Frames), GrabLatest <- FALSE

StreamInit ==
    /\ Init /\ Driver!Init
    /\ capturing = FALSE /\ image = NoFrame /\ sending = NoFrame /\ returning = NoFrame
    /\ produced = <<>> /\ recycled = <<>> /\ sendPc = "receive"

-----------------------------------------------------------------------------
(* The driver, and the server but for its send task.                        *)

Shoot == (Driver!Aim \/ Driver!Publish) /\ UNCHANGED <<vars, taskVars>>

Serve == (Network \/ Accept \/ Handle) /\ UNCHANGED <<driverVars, taskVars>>

-----------------------------------------------------------------------------
(* The image tasks.                                                         *)

\* xEventGroupWaitBits waits for both bits.
CaptureWait ==
    /\ ~capturing /\ {"available", "interested"} \subseteq bits
    /\ capturing' = TRUE
    /\ UNCHANGED <<vars, driverVars, image, produced, sending, sendPc, recycled, returning>>

\* A frame still waits to be sent, or the driver has none in time.
CaptureNothing ==
    /\ capturing /\ image = NoFrame /\ (produced # <<>> \/ captured = <<>>)
    /\ capturing' = FALSE
    /\ UNCHANGED <<vars, driverVars, image, produced, sending, sendPc, recycled, returning>>

CaptureTake ==
    /\ capturing /\ image = NoFrame /\ produced = <<>>
    /\ Driver!Take
    /\ image' = Head(captured)
    /\ UNCHANGED <<vars, capturing, produced, sending, sendPc, recycled, returning>>

CapturePush ==
    /\ image # NoFrame /\ produced = <<>>
    /\ produced' = <<image>> /\ image' = NoFrame /\ capturing' = FALSE
    /\ UNCHANGED <<vars, driverVars, sending, sendPc, recycled, returning>>

SendReceive ==
    /\ sendPc = "receive" /\ produced # <<>>
    /\ sending' = Head(produced) /\ produced' = <<>>
    /\ sendPc' = "send"
    /\ UNCHANGED <<vars, driverVars, captureVars, recycled, returning>>

\* The frame is sent under the mutex: Server's SendBegin, SendSlot and SendEnd.
SendLock ==
    /\ sendPc = "send" /\ SendBegin
    /\ UNCHANGED <<driverVars, taskVars>>

SendFrame ==
    \/ SendSlot /\ UNCHANGED <<driverVars, taskVars>>
    \/ /\ SendEnd /\ sendPc' = "recycle"
       /\ UNCHANGED <<driverVars, captureVars, produced, sending, recycled, returning>>

SendRecycle ==
    /\ sendPc = "recycle" /\ recycled = <<>>
    /\ recycled' = <<sending>> /\ sending' = NoFrame
    /\ sendPc' = "receive"
    /\ UNCHANGED <<vars, driverVars, captureVars, produced, returning>>

RecycleReceive ==
    /\ returning = NoFrame /\ recycled # <<>>
    /\ returning' = Head(recycled) /\ recycled' = <<>>
    /\ UNCHANGED <<vars, driverVars, captureVars, produced, sending, sendPc>>

RecycleReturn ==
    /\ returning # NoFrame
    /\ Driver!Return(returning)
    /\ returning' = NoFrame
    /\ UNCHANGED <<vars, captureVars, produced, sending, sendPc, recycled>>

Capture == CaptureWait \/ CaptureNothing \/ CaptureTake \/ CapturePush
Recycle == RecycleReceive \/ RecycleReturn

StreamNext ==
    \/ Shoot \/ Serve \/ Capture \/ Recycle
    \/ SendReceive \/ SendLock \/ SendFrame \/ SendRecycle

(***************************************************************************)
(* The server's fairness and the pipeline's.  Of the driver: while it has  *)
(* a frame of its own it comes to write to one, and does not give up every *)
(* picture (CamHal's FramesFlow).                                          *)
(***************************************************************************)
StreamSpec == StreamInit /\ [][StreamNext]_streamVars
StreamFairSpec ==
    /\ StreamSpec /\ Fairness
    /\ WF_streamVars(Shoot /\ target = NoFrame /\ target' # NoFrame)
    /\ SF_streamVars(Shoot /\ Driver!Publish)
    /\ WF_streamVars(Capture) /\ WF_streamVars(Recycle)
    /\ WF_streamVars(SendReceive \/ SendRecycle) /\ SF_streamVars(SendLock)

-----------------------------------------------------------------------------
Interested(p) == \E i \in mask : connections[i] = p

\* README: after the interest message the server starts to send images, and goes on:
\* as long as a client stays interested it is always sent another frame.
ImagesReachInterested == \A p \in Peers : Interested(p) ~> p \in sentTo \/ ~Interested(p)
=============================================================================
