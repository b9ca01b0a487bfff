-------------------------- MODULE StreamingProofs --------------------------
(***************************************************************************)
(* Proofs about Streaming.  The composition adds no step to either part:   *)
(* seen from the table of connections it is Server, so all that is proved  *)
(* of Server holds here, and seen from the driver it is FrameOwner.  What  *)
(* only the composition can say is proved last: a frame the server is      *)
(* sending is the application's, and no picture is written to it.          *)
(***************************************************************************)
EXTENDS Streaming, ServerProofs

-----------------------------------------------------------------------------
(* Each step is a step of the server, or leaves it alone.                  *)

LEMMA ServeStep == [StreamNext]_streamVars => [Next]_vars
<1>1. Capture \/ Recycle \/ Shoot \/ SendReceive \/ SendRecycle => UNCHANGED vars
  BY DEF Capture, CaptureWait, CaptureNothing, CaptureTake, CapturePush, Recycle,
         RecycleReceive, RecycleReturn, Shoot, SendReceive, SendRecycle
<1>2. Serve \/ SendLock \/ SendFrame => Next
  BY DEF Serve, SendLock, SendFrame, Next, Send
<1>3. UNCHANGED streamVars => UNCHANGED vars
  BY DEF streamVars
<1>4. QED BY <1>1, <1>2, <1>3 DEF StreamNext

\* The tasks of tasks.c use the server in no way that Server does not allow.
THEOREM StreamServerTheorem == StreamSpec => Spec
<1>1. StreamInit => Init
  BY DEF StreamInit
<1>2. QED BY <1>1, ServeStep, PTL DEF StreamSpec, Spec

\* So what is proved of the server holds while images flow: the inductive invariant, ...
THEOREM StreamServerInvTheorem == StreamSpec => []ServerInv
BY StreamServerTheorem, ServerInvariant, PTL

\* ... and that each frame goes to the clients that are interested (server_send_image_data).
THEOREM StreamReachTheorem == StreamSpec => []FrameReachesInterested
BY StreamServerTheorem, FrameAlwaysReachesInterested, PTL

-----------------------------------------------------------------------------
(* Each step is a step of the driver, or leaves it alone.                  *)

LEMMA DriveStep == [StreamNext]_streamVars => [Driver!Next]_(Driver!ownerVars)
<1>1. Shoot \/ CaptureTake \/ RecycleReturn => Driver!Next
  BY DEF Shoot, CaptureTake, RecycleReturn, Driver!Next, Driver!Return
<1>2. \/ CaptureWait \/ CaptureNothing \/ CapturePush \/ RecycleReceive \/ Serve
      \/ SendReceive \/ SendLock \/ SendFrame \/ SendRecycle \/ UNCHANGED streamVars
      => UNCHANGED Driver!ownerVars
  BY DEF CaptureWait, CaptureNothing, CapturePush, RecycleReceive, Serve, SendReceive,
         SendLock, SendFrame, SendRecycle, streamVars, driverVars, Driver!ownerVars
<1>3. QED BY <1>1, <1>2 DEF StreamNext, Capture, Recycle

\* The image tasks use the driver as FrameOwner lets an application use it.
THEOREM StreamOwnerTheorem == StreamSpec => Driver!Spec
<1>1. StreamInit => Driver!Init
  BY DEF StreamInit
<1>2. QED BY <1>1, DriveStep, PTL DEF StreamSpec, Driver!Spec

-----------------------------------------------------------------------------
(* The invariant of the driver: its frames are its own.                    *)

NoneTwice == \A j, k \in DOMAIN captured : captured[j] = captured[k] => j = k

OwnerInv ==
    /\ captured \in Seq(Frames) /\ lent \subseteq Frames
    /\ target \in Frames \cup {NoFrame}
    /\ NoneTwice
    /\ Driver!Queued \cap lent = {}
    /\ target \notin Driver!Queued \cup lent

LEMMA OwnerInvInit == StreamInit => OwnerInv
<1> SUFFICES ASSUME StreamInit PROVE OwnerInv
  OBVIOUS
<1>1. captured = <<>> /\ lent = {} /\ target = NoFrame /\ DOMAIN captured = {}
  BY DEF StreamInit, Driver!Init
<1>2. captured \in Seq(Frames)
  BY <1>1
<1>3. Driver!Queued = {} /\ NoneTwice
  BY <1>1 DEF Driver!Queued, NoneTwice
<1>4. QED BY <1>1, <1>2, <1>3 DEF OwnerInv

LEMMA TakeOldest ==
    ASSUME OwnerInv, captured # <<>>, captured' = Tail(captured)
    PROVE  /\ Head(captured) \in Driver!Queued /\ captured' \in Seq(Frames)
           /\ Driver!Queued' = Driver!Queued \ {Head(captured)}
           /\ NoneTwice'
<1>1. /\ captured \in Seq(Frames) /\ Len(captured) \in Nat /\ Len(captured) >= 1
      /\ DOMAIN captured = 1 .. Len(captured)
      /\ Head(captured) = captured[1]
  BY DEF OwnerInv
<1>2. /\ captured' \in Seq(Frames) /\ Len(captured') = Len(captured) - 1
      /\ DOMAIN captured' = 1 .. Len(captured) - 1
      /\ \A k \in 1 .. Len(captured) - 1 : captured'[k] = captured[k + 1]
  BY <1>1
<1>3. Head(captured) \in Driver!Queued
  BY <1>1 DEF Driver!Queued
<1>4. NoneTwice'
  BY <1>1, <1>2 DEF NoneTwice, OwnerInv
<1>5. ASSUME NEW k \in DOMAIN captured'
      PROVE  captured'[k] \in Driver!Queued \ {Head(captured)}
  <2>1. k + 1 \in DOMAIN captured /\ k + 1 # 1 /\ 1 \in DOMAIN captured
    BY <1>1, <1>2
  <2>2. captured'[k] = captured[k + 1]
    BY <1>2
  <2>3. captured[k + 1] # captured[1]
    BY <2>1 DEF OwnerInv, NoneTwice
  <2>4. QED BY <1>1, <2>1, <2>2, <2>3 DEF Driver!Queued
<1>6. ASSUME NEW f \in Driver!Queued \ {Head(captured)} PROVE f \in Driver!Queued'
  <2>1. PICK k \in DOMAIN captured : f = captured[k]
    BY DEF Driver!Queued
  <2>2. k - 1 \in DOMAIN captured' /\ captured'[k - 1] = captured[k]
    BY <1>1, <1>2, <2>1
  <2>3. QED BY <2>1, <2>2 DEF Driver!Queued
<1>7. Driver!Queued' = Driver!Queued \ {Head(captured)}
  BY <1>5, <1>6 DEF Driver!Queued
<1>8. QED BY <1>2, <1>3, <1>4, <1>7

LEMMA PublishNew ==
    ASSUME OwnerInv, target \in Frames, captured' = Append(captured, target)
    PROVE  /\ captured' \in Seq(Frames)
           /\ Driver!Queued' = Driver!Queued \cup {target}
           /\ NoneTwice'
<1>1. /\ captured \in Seq(Frames) /\ Len(captured) \in Nat
      /\ DOMAIN captured = 1 .. Len(captured) /\ target \notin Driver!Queued
  BY DEF OwnerInv
<1>2. /\ captured' \in Seq(Frames) /\ DOMAIN captured' = 1 .. Len(captured) + 1
      /\ captured'[Len(captured) + 1] = target
      /\ \A k \in 1 .. Len(captured) : captured'[k] = captured[k]
  BY <1>1
<1>3. Driver!Queued' = Driver!Queued \cup {target}
  <2>1. ASSUME NEW k \in DOMAIN captured'
        PROVE  captured'[k] \in Driver!Queued \cup {target}
    BY <1>1, <1>2 DEF Driver!Queued
  <2>2. Driver!Queued \cup {target} \subseteq Driver!Queued'
    BY <1>1, <1>2 DEF Driver!Queued
  <2>3. QED BY <2>1, <2>2 DEF Driver!Queued
<1>4. NoneTwice'
  <2>1. \A k \in DOMAIN captured : captured[k] # target
    BY <1>1 DEF Driver!Queued
  <2>2. QED BY <1>1, <1>2, <2>1 DEF OwnerInv, NoneTwice
<1>5. QED BY <1>2, <1>3, <1>4

LEMMA OwnerInvStep ==
    ASSUME OwnerInv, [Driver!Next]_(Driver!ownerVars)
    PROVE  OwnerInv'
<1>0. NoFrame \notin Frames
  BY StreamingAssumption
<1>1. CASE Driver!Aim
  BY <1>1, <1>0 DEF OwnerInv, NoneTwice, Driver!Aim, Driver!WithDriver, Driver!Queued
<1>2. CASE Driver!Publish
  <2>1. target \in Frames /\ captured' = Append(captured, target) /\ target' = NoFrame
        /\ lent' = lent
    BY <1>2 DEF Driver!Publish, Driver!WithDriver
  <2>2. Driver!Queued' \subseteq Frames
    BY <2>1, PublishNew DEF Driver!Queued
  <2>3. QED BY <1>0, <2>1, <2>2, PublishNew DEF OwnerInv
<1>3. CASE Driver!Take
  <2>1. captured # <<>> /\ captured' = Tail(captured) /\ target' = target
        /\ lent' = lent \cup {Head(captured)}
    BY <1>3 DEF Driver!Take
  <2>2. Head(captured) \in Frames
    BY <2>1 DEF OwnerInv
  <2>3. QED BY <2>1, <2>2, TakeOldest DEF OwnerInv
<1>4. CASE \E f \in lent : Driver!Return(f)
  BY <1>4 DEF OwnerInv, NoneTwice, Driver!Return, Driver!Queued
<1>5. CASE UNCHANGED Driver!ownerVars
  BY <1>5 DEF OwnerInv, NoneTwice, Driver!ownerVars, Driver!Queued
<1>6. ~Driver!DropOldest
  BY DEF Driver!DropOldest
<1>7. QED BY <1>1, <1>2, <1>3, <1>4, <1>5, <1>6 DEF Driver!Next

-----------------------------------------------------------------------------
(* Where the lent frames are.                                              *)

One(f) == IF f = NoFrame THEN {} ELSE {f}
InQueue(q) == {q[k] : k \in DOMAIN q}

QueueOfOne(q) == q = <<>> \/ \E f \in Frames : q = <<f>>

StreamTyped ==
    /\ image \in Frames \cup {NoFrame} /\ sending \in Frames \cup {NoFrame}
    /\ returning \in Frames \cup {NoFrame}
    /\ QueueOfOne(produced) /\ QueueOfOne(recycled)

\* The send task is in the critical section of Server only to send a frame.
SenderMatches ==
    /\ sendPc \in {"receive", "send", "recycle"}
    /\ sending = NoFrame <=> sendPc = "receive"
    /\ spc = "sending" => sendPc = "send"

LentSomewhere ==
    lent = One(image) \cup InQueue(produced) \cup One(sending)
             \cup InQueue(recycled) \cup One(returning)

StationsApart ==
    /\ One(image) \cap InQueue(produced) = {} /\ One(image) \cap One(sending) = {}
    /\ One(image) \cap InQueue(recycled) = {} /\ One(image) \cap One(returning) = {}
    /\ InQueue(produced) \cap One(sending) = {} /\ InQueue(produced) \cap InQueue(recycled) = {}
    /\ InQueue(produced) \cap One(returning) = {} /\ One(sending) \cap InQueue(recycled) = {}
    /\ One(sending) \cap One(returning) = {} /\ InQueue(recycled) \cap One(returning) = {}

\* The inductive invariant of the composition.
StreamInv ==
    ServerInv /\ OwnerInv /\ StreamTyped /\ SenderMatches /\ LentSomewhere /\ StationsApart

LEMMA OneInQueue ==
    /\ InQueue(<<>>) = {}
    /\ \A f : InQueue(<<f>>) = {f} /\ Head(<<f>>) = f /\ <<f>> # <<>>
BY DEF InQueue

LEMMA StreamInvInit == StreamInit => StreamInv
<1> SUFFICES ASSUME StreamInit PROVE StreamInv
  OBVIOUS
<1>1. ServerInv /\ OwnerInv
  BY ServerInit, OwnerInvInit DEF StreamInit
<1>2. StreamTyped /\ SenderMatches
  BY DEF StreamInit, Init, StreamTyped, SenderMatches, QueueOfOne
<1>3. LentSomewhere /\ StationsApart
  BY OneInQueue DEF StreamInit, Driver!Init, LentSomewhere, StationsApart, One
<1>4. QED BY <1>1, <1>2, <1>3 DEF StreamInv

\* A step of the server or of the driver that moves no frame between the tasks.
LEMMA StationsKept ==
    ASSUME StreamInv, UNCHANGED <<image, produced, sending, recycled, returning, lent>>
    PROVE  StreamTyped' /\ LentSomewhere' /\ StationsApart'
BY DEF StreamInv, StreamTyped, QueueOfOne, LentSomewhere, StationsApart, One, InQueue

LEMMA SenderKept ==
    ASSUME StreamInv, UNCHANGED <<sending, sendPc, spc>>
    PROVE  SenderMatches'
BY DEF StreamInv, SenderMatches

LEMMA CaptureKeeps ==
    ASSUME StreamInv, Capture
    PROVE  StreamTyped' /\ SenderMatches' /\ LentSomewhere' /\ StationsApart'
<1>1. UNCHANGED <<sending, sendPc, spc, recycled, returning>>
  BY DEF Capture, CaptureWait, CaptureNothing, CaptureTake, CapturePush, vars, sendVars
<1>2. SenderMatches'
  BY <1>1, SenderKept
<1>3. CASE CaptureWait \/ CaptureNothing
  <2>1. UNCHANGED <<image, produced, lent>>
    BY <1>3 DEF CaptureWait, CaptureNothing, driverVars
  <2>2. QED BY <1>1, <1>2, <2>1, StationsKept
<1>4. CASE CaptureTake
  <2>1. /\ image = NoFrame /\ image' = Head(captured) /\ produced' = produced
        /\ captured # <<>> /\ captured' = Tail(captured)
        /\ lent' = lent \cup {Head(captured)}
    BY <1>4 DEF CaptureTake, Driver!Take
  <2>2. Head(captured) \in Frames /\ Head(captured) \notin lent /\ Head(captured) # NoFrame
    BY <2>1, TakeOldest, StreamingAssumption DEF StreamInv, OwnerInv
  <2>3. One(image) = {} /\ One(image') = {Head(captured)}
    BY <2>1, <2>2 DEF One
  <2>4. StreamTyped'
    BY <1>1, <2>1, <2>2 DEF StreamInv, StreamTyped, QueueOfOne
  <2>5. LentSomewhere'
    BY <1>1, <2>1, <2>3 DEF StreamInv, LentSomewhere
  <2>6. StationsApart'
    BY <1>1, <2>1, <2>2, <2>3 DEF StreamInv, LentSomewhere, StationsApart
  <2>7. QED BY <1>2, <2>4, <2>5, <2>6
<1>5. CASE CapturePush
  <2>1. /\ image # NoFrame /\ image' = NoFrame /\ lent' = lent
        /\ produced = <<>> /\ produced' = <<image>>
    BY <1>5 DEF CapturePush, driverVars
  <2>2. /\ One(image) = {image} /\ One(image') = {}
        /\ InQueue(produced) = {} /\ InQueue(produced') = {image}
    BY <2>1, OneInQueue DEF One
  <2>3. image \in Frames
    BY <2>1 DEF StreamInv, StreamTyped
  <2>4. StreamTyped'
    BY <1>1, <2>1, <2>3 DEF StreamInv, StreamTyped, QueueOfOne
  <2>5. LentSomewhere' /\ StationsApart'
    BY <1>1, <2>1, <2>2 DEF StreamInv, LentSomewhere, StationsApart
  <2>6. QED BY <1>2, <2>4, <2>5
<1>6. QED BY <1>3, <1>4, <1>5 DEF Capture

LEMMA RecycleKeeps ==
    ASSUME StreamInv, Recycle
    PROVE  StreamTyped' /\ SenderMatches' /\ LentSomewhere' /\ StationsApart'
<1>1. UNCHANGED <<sending, sendPc, spc, image, produced>>
  BY DEF Recycle, RecycleReceive, RecycleReturn, vars, sendVars, captureVars
<1>2. SenderMatches'
  BY <1>1, SenderKept
<1>3. CASE RecycleReceive
  <2>1. /\ returning = NoFrame /\ recycled # <<>> /\ recycled' = <<>>
        /\ returning' = Head(recycled) /\ lent' = lent
    BY <1>3 DEF RecycleReceive, driverVars
  <2>2. PICK f \in Frames : recycled = <<f>>
    BY <2>1 DEF StreamInv, StreamTyped, QueueOfOne
  <2>3. /\ InQueue(recycled) = {f} /\ InQueue(recycled') = {} /\ returning' = f
        /\ One(returning) = {} /\ One(returning') = {f}
    BY <2>1, <2>2, OneInQueue, StreamingAssumption DEF One
  <2>4. StreamTyped'
    BY <1>1, <2>1, <2>3 DEF StreamInv, StreamTyped, QueueOfOne
  <2>5. LentSomewhere' /\ StationsApart'
    BY <1>1, <2>1, <2>3 DEF StreamInv, LentSomewhere, StationsApart
  <2>6. QED BY <1>2, <2>4, <2>5
<1>4. CASE RecycleReturn
  <2>1. /\ returning # NoFrame /\ returning' = NoFrame /\ recycled' = recycled
        /\ lent' = lent \ {returning}
    BY <1>4 DEF RecycleReturn, Driver!Return
  <2>2. One(returning) = {returning} /\ One(returning') = {}
    BY <2>1 DEF One
  <2>3. StreamTyped'
    BY <1>1, <2>1 DEF StreamInv, StreamTyped, QueueOfOne
  <2>4. LentSomewhere' /\ StationsApart'
    BY <1>1, <2>1, <2>2 DEF StreamInv, LentSomewhere, StationsApart
  <2>5. QED BY <1>2, <2>3, <2>4
<1>5. QED BY <1>3, <1>4 DEF Recycle

LEMMA SendKeeps ==
    ASSUME StreamInv, SendReceive \/ SendLock \/ SendFrame \/ SendRecycle
    PROVE  StreamTyped' /\ SenderMatches' /\ LentSomewhere' /\ StationsApart'
<1>1. UNCHANGED <<image, returning, lent>>
  BY DEF SendReceive, SendLock, SendFrame, SendRecycle, driverVars, taskVars, captureVars
<1>2. CASE SendReceive
  <2>1. /\ sendPc = "receive" /\ sendPc' = "send" /\ produced # <<>> /\ produced' = <<>>
        /\ sending' = Head(produced) /\ recycled' = recycled /\ spc' = spc
    BY <1>2 DEF SendReceive, vars, sendVars
  <2>2. sending = NoFrame /\ SenderMatches
    BY <2>1 DEF StreamInv, SenderMatches
  <2>3. PICK f \in Frames : produced = <<f>>
    BY <2>1 DEF StreamInv, StreamTyped, QueueOfOne
  <2>4. /\ InQueue(produced) = {f} /\ InQueue(produced') = {} /\ sending' = f
        /\ One(sending) = {} /\ One(sending') = {f} /\ f # NoFrame
    BY <2>1, <2>2, <2>3, OneInQueue, StreamingAssumption DEF One
  <2>5. StreamTyped'
    BY <1>1, <2>1, <2>4 DEF StreamInv, StreamTyped, QueueOfOne
  <2>6. SenderMatches'
    BY <2>1, <2>2, <2>4 DEF SenderMatches
  <2>7. LentSomewhere' /\ StationsApart'
    BY <1>1, <2>1, <2>4 DEF StreamInv, LentSomewhere, StationsApart
  <2>8. QED BY <2>5, <2>6, <2>7
<1>3. CASE SendLock \/ SendFrame
  <2>1. UNCHANGED <<produced, sending, recycled>>
    BY <1>3 DEF SendLock, SendFrame, taskVars
  <2>2. SenderMatches'
    BY <1>3, <2>1
       DEF StreamInv, SenderMatches, SendLock, SendFrame, SendBegin, SendSlot, SendEnd, taskVars
  <2>3. QED BY <1>1, <2>1, <2>2, StationsKept
<1>4. CASE SendRecycle
  <2>1. /\ sendPc = "recycle" /\ sendPc' = "receive" /\ produced' = produced
        /\ recycled = <<>> /\ recycled' = <<sending>> /\ sending' = NoFrame /\ spc' = spc
    BY <1>4 DEF SendRecycle, vars, sendVars
  <2>2. sending # NoFrame /\ sending \in Frames
    BY <2>1 DEF StreamInv, SenderMatches, StreamTyped
  <2>3. /\ InQueue(recycled) = {} /\ InQueue(recycled') = {sending}
        /\ One(sending) = {sending} /\ One(sending') = {}
    BY <2>1, <2>2, OneInQueue DEF One
  <2>4. StreamTyped'
    BY <1>1, <2>1, <2>2 DEF StreamInv, StreamTyped, QueueOfOne
  <2>5. SenderMatches'
    BY <2>1 DEF StreamInv, SenderMatches
  <2>6. LentSomewhere' /\ StationsApart'
    BY <1>1, <2>1, <2>3 DEF StreamInv, LentSomewhere, StationsApart
  <2>7. QED BY <2>4, <2>5, <2>6
<1>5. QED BY <1>2, <1>3, <1>4

LEMMA StreamInvStep == StreamInv /\ [StreamNext]_streamVars => StreamInv'
<1> SUFFICES ASSUME StreamInv, [StreamNext]_streamVars PROVE StreamInv'
  OBVIOUS
<1>1. ServerInv' /\ OwnerInv'
  BY ServeStep, ServerStep, DriveStep, OwnerInvStep DEF StreamInv
<1>2. CASE Shoot \/ Serve \/ UNCHANGED streamVars
  <2>1. UNCHANGED <<image, produced, sending, sendPc, recycled, returning, lent>>
    BY <1>2 DEF Shoot, Serve, streamVars, taskVars, captureVars, driverVars,
                Driver!Aim, Driver!Publish
  <2>2. spc' = spc
    BY <1>2, NetworkFrame, AcceptFrame, HandleFrame
       DEF Shoot, Serve, streamVars, vars, sendVars, handleVars
  <2>3. QED BY <1>1, <2>1, <2>2, StationsKept, SenderKept DEF StreamInv
<1>3. QED BY <1>1, <1>2, CaptureKeeps, RecycleKeeps, SendKeeps DEF StreamInv, StreamNext

-----------------------------------------------------------------------------
(* What follows.                                                           *)

\* What the tasks hold between them is what the driver has lent: none of its frames is
\* lost on the way from capture to recycling (tasks.c), and the send task is in the
\* critical section of server_send_image_data only with a frame.
THEOREM StreamInvTheorem == StreamSpec => []StreamInv
BY StreamInvInit, StreamInvStep, PTL DEF StreamSpec

\* The frame that goes out slot by slot, with the other tasks running between the
\* slots, is the application's all the time: the driver writes no picture to it and
\* hands it to nobody else (server_send_image_data, esp_camera_fb_get).
SentIsOurs ==
    spc = "sending" =>
        /\ sending \in lent /\ sending # target
        /\ sending \notin Driver!Queued
        /\ sending \notin {image, returning}

THEOREM SentIsOursTheorem == StreamSpec => []SentIsOurs
<1>1. StreamInv => SentIsOurs
  <2> SUFFICES ASSUME StreamInv, spc = "sending"
               PROVE  /\ sending \in lent /\ sending # target
                      /\ sending \notin Driver!Queued
                      /\ sending \notin {image, returning}
    BY DEF SentIsOurs
  <2>1. sending # NoFrame /\ One(sending) = {sending}
    BY DEF StreamInv, SenderMatches, One
  <2>2. sending \in lent
    BY <2>1 DEF StreamInv, LentSomewhere
  <2>3. sending # target /\ sending \notin Driver!Queued
    BY <2>2 DEF StreamInv, OwnerInv
  <2>4. sending \notin {image, returning}
    BY <2>1 DEF StreamInv, StationsApart, One
  <2>5. QED BY <2>2, <2>3, <2>4
<1>2. QED BY <1>1, StreamInvTheorem, PTL
=============================================================================
