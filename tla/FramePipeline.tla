--------------------------- MODULE FramePipeline ---------------------------
(***************************************************************************)
(* The way of a frame through the application (main/network/tasks.c): the  *)
(* capture task takes it from the camera driver, the send task sends it,   *)
(* the recycle task gives it back.  The tasks hand the pointer on through  *)
(* two FreeRTOS queues of length 1, image_produce_queue and                *)
(* image_recycle_queue; the driver is CamHal.                              *)
(*                                                                         *)
(* The server appears as what it tells the capture task, and the critical  *)
(* section in which a frame is sent (module Server) as one step.           *)
(***************************************************************************)
EXTENDS CamHal

VARIABLES
    wanted,      \* both event bits are set: clients available, and interested
    capturePc,   \* capture task: where it is
    image,       \* capture task: fb
    produced,    \* image_produce_queue
    sending,     \* send task: fb
    sendPc,      \* send task: where it is
    recycled,    \* image_recycle_queue
    returning    \* recycle task: fb

captureVars == <<wanted, capturePc, image>>
senderVars == <<sending, sendPc>>
pipelineVars == <<vars, captureVars, produced, senderVars, recycled, returning>>

PipelineInit ==
    /\ Init
    /\ wanted = FALSE
    /\ capturePc = "wait" /\ image = NoFrame
    /\ produced = <<>>
    /\ sending = NoFrame /\ sendPc = "idle"
    /\ recycled = <<>>
    /\ returning = NoFrame

\* xQueueCreate(1, ...)
HasRoom(q) == Len(q) < 1

\* The clients come, go and change their minds.
Interest ==
    /\ wanted' = ~wanted
    /\ UNCHANGED <<vars, capturePc, image, produced, senderVars, recycled, returning>>

CaptureWait ==
    /\ capturePc = "wait" /\ wanted
    /\ capturePc' = "check"
    /\ UNCHANGED <<vars, wanted, image, produced, senderVars, recycled, returning>>

MayCapture == produced = <<>>

\* A frame is skipped while the last one waits to be sent; otherwise
\* esp_camera_fb_get is called.
CaptureCheck ==
    /\ capturePc = "check"
    /\ IF MayCapture THEN TakeCall /\ capturePc' = "get"
                     ELSE UNCHANGED vars /\ capturePc' = "wait"
    /\ UNCHANGED <<wanted, image, produced, senderVars, recycled, returning>>

CaptureGet ==
    /\ TakeReceive \/ TakeTimeout \/ TakeVerify
    /\ UNCHANGED <<captureVars, produced, senderVars, recycled, returning>>

CaptureGot ==
    /\ TakeReturn
    /\ image' = taken
    /\ capturePc' = IF taken = NoFrame THEN "wait" ELSE "push"
    /\ UNCHANGED <<wanted, produced, senderVars, recycled, returning>>

CapturePush ==
    /\ capturePc = "push" /\ HasRoom(produced)
    /\ produced' = Append(produced, image)
    /\ image' = NoFrame
    /\ capturePc' = "wait"
    /\ UNCHANGED <<vars, wanted, senderVars, recycled, returning>>

SendReceive ==
    /\ sendPc = "idle" /\ produced # <<>>
    /\ sending' = Head(produced) /\ produced' = Tail(produced)
    /\ sendPc' = "send"
    /\ UNCHANGED <<vars, captureVars, recycled, returning>>

SendImage_DropsOnError ==
    /\ sendPc = "send"
    /\ \/ sendPc' = "recycle" /\ UNCHANGED sending
       \/ sendPc' = "idle" /\ sending' = NoFrame
    /\ UNCHANGED <<vars, captureVars, produced, recycled, returning>>
\* server_send_image_data, whatever it returns.
SendImage ==
    /\ sendPc = "send"
    /\ sendPc' = "recycle"
    /\ UNCHANGED <<vars, captureVars, produced, sending, recycled, returning>>

RecycleBy_Peek == UNCHANGED recycled
RecycleBy == recycled' = Tail(recycled)

SendRecycle ==
    /\ sendPc = "recycle" /\ HasRoom(recycled)
    /\ recycled' = Append(recycled, sending)
    /\ sending' = NoFrame /\ sendPc' = "idle"
    /\ UNCHANGED <<vars, captureVars, produced, returning>>

RecycleReceive ==
    /\ returning = NoFrame /\ recycled # <<>>
    /\ returning' = Head(recycled)
    /\ RecycleBy
    /\ UNCHANGED <<vars, captureVars, produced, senderVars>>

\* esp_camera_fb_return
RecycleReturn ==
    /\ returning # NoFrame
    /\ Give(returning)
    /\ returning' = NoFrame
    /\ UNCHANGED <<captureVars, produced, senderVars, recycled>>

Driver ==
    /\ Device \/ Task
    /\ UNCHANGED <<captureVars, produced, senderVars, recycled, returning>>

Capture == CaptureWait \/ CaptureCheck \/ CaptureGet \/ CaptureGot \/ CapturePush
Sender == SendReceive \/ SendImage \/ SendRecycle
Recycle == RecycleReceive \/ RecycleReturn

PipelineNext == Driver \/ Interest \/ Capture \/ Sender \/ Recycle

(***************************************************************************)
(* Each task runs; of the driver, what CamHal assumes.  Clients owe        *)
(* nothing.                                                                *)
(***************************************************************************)
PipelineSpec == PipelineInit /\ [][PipelineNext]_pipelineVars
PipelineFairSpec ==
    /\ PipelineSpec
    /\ WF_vars(VsyncIsr) /\ WF_vars(DmaIsr) /\ WF_vars(Task)
    /\ WF_pipelineVars(Capture) /\ WF_pipelineVars(Sender) /\ WF_pipelineVars(Recycle)

-----------------------------------------------------------------------------
Elements(q) == {q[k] : k \in DOMAIN q}
Pointer(f) == {f} \ {NoFrame}

\* Every variable keeps its type.
PipelineTypeOK ==
    /\ TypeOK
    /\ wanted \in BOOLEAN
    /\ capturePc \in {"wait", "check", "get", "push"}
    /\ sendPc \in {"idle", "send", "recycle"}
    /\ {image, sending, returning} \subseteq Frames \cup {NoFrame}
    /\ produced \in Seq(Frames) /\ recycled \in Seq(Frames)
    /\ Len(produced) <= 1 /\ Len(recycled) <= 1

Stations ==
    <<Pointer(image), Elements(produced), Pointer(sending), Elements(recycled),
      Pointer(returning)>>

\* No frame is lost between the tasks, and none is given back twice: what the
\* driver has lent is at exactly one station.
LentAtOneStation ==
    /\ held = UNION {Stations[k] : k \in DOMAIN Stations}
    /\ \A j, k \in DOMAIN Stations : j # k => Stations[j] \cap Stations[k] = {}

\* The picture does not change while it is sent.
SentFrameStable ==
    sendPc = "send" => sending \notin enabled /\ ~(Writing /\ pos = sending)

\* Every frame that is lent comes back: two queues of length 1 and two frames
\* never leave the three tasks waiting for each other.
LentComesBack == \A f \in Frames : f \in held ~> f \notin held

\* As long as clients want images, images are sent.
ImagesFlow == []<>(~wanted) \/ []<>(sendPc = "send")
=============================================================================
