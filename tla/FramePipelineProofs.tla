------------------------ MODULE FramePipelineProofs ------------------------
(***************************************************************************)
(* Proofs about CamHal and FramePipeline, for every number of frames and   *)
(* of events, both grab modes and both kinds of picture.  CamInv is        *)
(* inductive: it says where each frame is, and which of them the task's    *)
(* own variables name at each of its steps.  From it follow the hand-over  *)
(* of frames without a lock, the frame the picture goes to, and that the   *)
(* driver keeps the promise that FrameOwner states.  The three tasks of    *)
(* the application use the driver as CamHal lets an application use it, so *)
(* all that is proved of CamHal holds of FramePipeline, and each frame     *)
(* that the driver has lent is with one of them or in one of their queues. *)
(***************************************************************************)
EXTENDS FramePipeline, TLAPS, FiniteSetTheorems, SequenceTheorems

-----------------------------------------------------------------------------
(* The queue of captured frames.                                           *)

NoneTwice == \A j, k \in DOMAIN queue : queue[j] = queue[k] => j = k

LEMMA QueueAppend ==
    ASSUME queue \in Seq(Frames), NEW f \in Frames, queue' = Append(queue, f)
    PROVE  /\ queue' \in Seq(Frames)
           /\ Queued' = Queued \cup {f}
           /\ NoneTwice /\ f \notin Queued => NoneTwice'
<1>1. /\ Len(queue) \in Nat /\ DOMAIN queue = 1 .. Len(queue)
      /\ DOMAIN queue' = 1 .. Len(queue) + 1
      /\ queue'[Len(queue) + 1] = f
      /\ \A k \in 1 .. Len(queue) : queue'[k] = queue[k]
      /\ queue' \in Seq(Frames)
  BY AppendProperties, LenProperties
<1>2. Queued' = Queued \cup {f}
  <2>1. Queued \cup {f} \subseteq Queued'
    BY <1>1 DEF Queued
  <2>2. ASSUME NEW k \in DOMAIN queue' PROVE queue'[k] \in Queued \cup {f}
    BY <1>1 DEF Queued
  <2>3. QED BY <2>1, <2>2 DEF Queued
<1>3. ASSUME NoneTwice, f \notin Queued PROVE NoneTwice'
  <2>1. \A k \in 1 .. Len(queue) : queue[k] # f
    BY <1>1, <1>3 DEF Queued
  <2>2. SUFFICES ASSUME NEW j \in 1 .. Len(queue) + 1, NEW k \in 1 .. Len(queue) + 1,
                        queue'[j] = queue'[k]
                 PROVE  j = k
    BY <1>1 DEF NoneTwice
  <2>3. QED BY <1>1, <1>3, <2>1, <2>2 DEF NoneTwice
<1>4. QED BY <1>1, <1>2, <1>3

LEMMA QueueTail ==
    ASSUME queue \in Seq(Frames), queue # <<>>, queue' = Tail(queue)
    PROVE  /\ queue' \in Seq(Frames)
           /\ Head(queue) \in Queued /\ Head(queue) \in Frames
           /\ NoneTwice => NoneTwice' /\ Queued' = Queued \ {Head(queue)}
<1>1. /\ Len(queue) \in Nat \ {0} /\ DOMAIN queue = 1 .. Len(queue)
      /\ DOMAIN queue' = 1 .. Len(queue) - 1
      /\ \A k \in 1 .. Len(queue) - 1 : queue'[k] = queue[k + 1]
      /\ queue' \in Seq(Frames)
      /\ Head(queue) = queue[1]
  BY HeadTailProperties, LenProperties, EmptySeq
<1>2. Head(queue) \in Queued /\ Head(queue) \in Frames
  BY <1>1 DEF Queued
<1>3. ASSUME NoneTwice PROVE NoneTwice'
  <2>1. SUFFICES ASSUME NEW j \in 1 .. Len(queue) - 1, NEW k \in 1 .. Len(queue) - 1,
                        queue'[j] = queue'[k]
                 PROVE  j = k
    BY <1>1 DEF NoneTwice
  <2>2. queue[j + 1] = queue[k + 1] /\ j + 1 \in DOMAIN queue /\ k + 1 \in DOMAIN queue
    BY <1>1, <2>1
  <2>3. j + 1 = k + 1
    BY <1>3, <2>2 DEF NoneTwice
  <2>4. QED BY <2>3
<1>4. ASSUME NoneTwice PROVE Queued' = Queued \ {Head(queue)}
  <2>1. ASSUME NEW k \in 1 .. Len(queue) - 1
        PROVE  queue'[k] \in Queued \ {Head(queue)}
    <3>1. k + 1 \in DOMAIN queue /\ 1 \in DOMAIN queue /\ k + 1 # 1
      BY <1>1
    <3>2. queue[k + 1] # queue[1]
      BY <1>4, <3>1 DEF NoneTwice
    <3>3. QED BY <1>1, <3>1, <3>2 DEF Queued
  <2>2. ASSUME NEW k \in 1 .. Len(queue), queue[k] # queue[1]
        PROVE  queue[k] \in Queued'
    <3>1. k - 1 \in 1 .. Len(queue) - 1 /\ queue'[k - 1] = queue[k]
      BY <1>1, <2>2
    <3>2. QED BY <1>1, <3>1 DEF Queued
  <2>3. QED BY <1>1, <2>1, <2>2 DEF Queued
<1>5. QED BY <1>1, <1>2, <1>3, <1>4

\* A queue with no frame twice, and not with all of them, is shorter than they are.
LEMMA QueueShorter ==
    ASSUME queue \in Seq(Frames), NoneTwice, NEW f \in Frames, f \notin Queued
    PROVE  Len(queue) < FrameCount
<1> DEFINE Others == Frames \ {f}
           n == Len(queue)
<1>1. /\ n \in Nat /\ DOMAIN queue = 1 .. n
  BY LenProperties
<1>2. /\ IsFiniteSet(Others)
      /\ Cardinality(Frames) \in Nat /\ Cardinality(Others) = Cardinality(Frames) - 1
  BY FS_RemoveElement, FS_CardinalityType, CamHalAssumption
<1>3. queue \in [1 .. n -> Others]
  BY <1>1 DEF Queued
<1>4. queue \in Injection(1 .. n, Others)
  BY <1>1, <1>3 DEF Injection, IsInjective, NoneTwice
<1>5. Cardinality(1 .. n) <= Cardinality(Others)
  BY <1>2, <1>4, FS_Injection
<1>6. Cardinality(1 .. n) = n
  BY <1>1, FS_Interval
<1>7. QED BY <1>1, <1>2, <1>5, <1>6 DEF FrameCount

-----------------------------------------------------------------------------
(* The inductive invariant.                                                *)

\* What the task and the caller of cam_take hold at each of their steps.
LocalsMatch ==
    /\ popped # NoFrame <=> pc \in {"push", "free"}
    /\ pc = "start" => state = "idle"
    /\ takePc = "verify" => taken # NoFrame
    /\ takePc \in {"idle", "receive"} => taken = NoFrame

\* While a picture is on its way to a frame, the frame is the task's own.
PictureInOwnFrame ==
    pc \in {"begin", "copy", "finish"} \/ (state = "read" /\ pc \in {"wait", "dispatch"})
      => pos \in enabled

\* Each frame is in one place, and in one only.
Covered == Frames = enabled \cup InTask \cup Queued \cup InTake \cup held
Apart ==
    /\ enabled \cap InTask = {} /\ enabled \cap Queued = {}
    /\ enabled \cap InTake = {} /\ enabled \cap held = {}
    /\ InTask \cap Queued = {} /\ InTask \cap InTake = {} /\ InTask \cap held = {}
    /\ Queued \cap InTake = {} /\ Queued \cap held = {}
    /\ InTake \cap held = {}
    /\ NoneTwice
    /\ pc = "push" => popped # pos

\* Only a driver that grabs the latest frame ever finds the queue full.
OnlyLatestPops == pc \in {"pop", "push", "free"} => GrabLatest

CamInv ==
    TypeOK /\ LocalsMatch /\ PictureInOwnFrame /\ Covered /\ Apart /\ OnlyLatestPops

LEMMA CamInvInit == Init => CamInv
<1> SUFFICES ASSUME Init PROVE CamInv
  OBVIOUS
<1> USE CamHalAssumption
<1>1. TypeOK
  <2>1. running \in BOOLEAN
    BY DEF Init
  <2>2. events \in Seq({"vsync", "eof"}) /\ Len(events) = 0 /\ queue \in Seq(Frames)
    BY EmptySeq DEF Init
  <2>3. QED BY <2>1, <2>2 DEF Init, TypeOK
<1>2. Queued = {} /\ InTask = {} /\ InTake = {} /\ held = {} /\ NoneTwice
  BY DEF Init, Queued, InTask, InTake, NoneTwice
<1>3. LocalsMatch /\ PictureInOwnFrame /\ OnlyLatestPops
  BY DEF Init, LocalsMatch, PictureInOwnFrame, OnlyLatestPops
<1>4. Covered /\ Apart
  BY <1>2 DEF Init, Covered, Apart
<1>5. QED BY <1>1, <1>3, <1>4 DEF CamInv

-----------------------------------------------------------------------------
(* Types.                                                                  *)

LEMMA EventsAppend ==
    ASSUME TypeOK, NEW e \in {"vsync", "eof"}, SendEvent(e)
    PROVE  /\ events' \in Seq({"vsync", "eof"}) /\ Len(events') <= EventLength
           /\ state' \in {"idle", "read"} /\ running' \in BOOLEAN
<1>1. /\ events \in Seq({"vsync", "eof"}) /\ Len(events) <= EventLength
      /\ state \in {"idle", "read"} /\ running \in BOOLEAN /\ EventLength \in Nat
  BY CamHalAssumption DEF TypeOK
<1>2. CASE Len(events) < EventLength
  <2>1. events' = Append(events, e) /\ UNCHANGED <<state, running>>
    BY <1>2 DEF SendEvent
  <2>2. Len(events') = Len(events) + 1 /\ events' \in Seq({"vsync", "eof"})
    BY <1>1, <2>1, AppendProperties
  <2>3. QED BY <1>1, <1>2, <2>1, <2>2, LenProperties
<1>3. CASE ~(Len(events) < EventLength)
  BY <1>1, <1>3 DEF SendEvent, Overflow
<1>4. QED BY <1>2, <1>3

LEMMA DeviceTypes == TypeOK /\ Device => TypeOK'
<1> SUFFICES ASSUME TypeOK, Device PROVE TypeOK'
  OBVIOUS
<1>1. ASSUME NEW ok \in BOOLEAN, Expected(ok) PROVE faults' \in 0 .. MaxFaults
  BY <1>1, CamHalAssumption DEF Expected, TypeOK
<1>2. /\ events' \in Seq({"vsync", "eof"}) /\ Len(events') <= EventLength
      /\ state' \in {"idle", "read"} /\ running' \in BOOLEAN
  BY EventsAppend DEF Device, VsyncIsr, DmaIsr
<1>3. faults' \in 0 .. MaxFaults
  BY <1>1 DEF Device, VsyncIsr, DmaIsr, InTime, VsyncServed
<1>4. halves' \in 0 .. FrameHalves
  BY CamHalAssumption DEF Device, VsyncIsr, DmaIsr, TypeOK
<1>5. UNCHANGED <<taskVars, takeVars, enabled, queue, held>>
  BY DEF Device, VsyncIsr, DmaIsr
<1>6. QED BY <1>2, <1>3, <1>4, <1>5 DEF TypeOK, taskVars, takeVars

LEMMA NextFramesTyped == TypeOK => NextFrames \subseteq enabled
BY DEF NextFrames, TypeOK

LEMMA TaskTypes == TypeOK /\ LocalsMatch /\ Task => TypeOK'
<1> SUFFICES ASSUME TypeOK, LocalsMatch, Task PROVE TypeOK'
  OBVIOUS
<1> USE CamHalAssumption
<1>1. CASE Receive
  <2>1. /\ Head(events) \in {"vsync", "eof"} /\ events' \in Seq({"vsync", "eof"})
        /\ Len(events') = Len(events) - 1
    BY <1>1, HeadTailProperties DEF Receive, TypeOK
  <2>2. Len(events') <= EventLength /\ event' \in {"vsync", "eof"}
    BY <1>1, <2>1, LenProperties DEF Receive, TypeOK
  <2>3. QED BY <1>1, <2>1, <2>2 DEF Receive, TypeOK, takeVars
<1>2. CASE DispatchIdle
  BY <1>2 DEF DispatchIdle, TypeOK, takeVars, deviceVars
<1>3. CASE DispatchEof
  BY <1>3 DEF DispatchEof, TypeOK, takeVars, deviceVars
<1>4. CASE DispatchVsync
  <2>1. running' \in BOOLEAN
    BY <1>4 DEF DispatchVsync
  <2>2. QED BY <1>4, <2>1 DEF DispatchVsync, TypeOK, takeVars
<1>5. CASE Start
  <2>1. running' \in BOOLEAN
    BY <1>5 DEF Start, TypeOK
  <2>2. pos' \in Frames
    BY <1>5, NextFramesTyped DEF Start, TypeOK
  <2>3. QED BY <1>5, <2>1, <2>2 DEF Start, TypeOK, takeVars
<1>6. CASE Begin
  BY <1>6 DEF Begin, TypeOK, takeVars
<1>7. CASE CopyHalf
  <2>1. running' \in BOOLEAN
    BY <1>7 DEF CopyHalf, TypeOK
  <2>2. cnt' \in 0 .. FrameHalves
    <3>1. cnt' = cnt \/ cnt' = 1 \/ (cnt < FrameHalves /\ cnt' = cnt + 1)
      BY <1>7 DEF CopyHalf, Room
    <3>2. cnt \in 0 .. FrameHalves /\ FrameHalves \in Nat /\ FrameHalves >= 1
      BY DEF TypeOK
    <3>3. QED BY <3>1, <3>2
  <2>3. faults' \in 0 .. MaxFaults
    BY <1>7 DEF CopyHalf, Expected, TypeOK
  <2>4. QED BY <1>7, <2>1, <2>2, <2>3 DEF CopyHalf, TypeOK, takeVars
<1>8. CASE Finish
  <2>1. cnt' \in 0 .. FrameHalves
    BY <1>8 DEF Finish, Room, TypeOK
  <2>2. enabled' \subseteq Frames
    BY <1>8 DEF Finish, ShortFrame, TypeOK
  <2>3. QED BY <1>8, <2>1, <2>2 DEF Finish, TypeOK, takeVars, deviceVars
<1>9. CASE SendFrame
  <2>1. queue' \in Seq(Frames)
    BY <1>9, AppendProperties DEF SendFrame, TypeOK
  <2>2. QED BY <1>9, <2>1 DEF SendFrame, TypeOK, takeVars, deviceVars
<1>10. CASE Pop
  <2>1. queue # <<>> => Head(queue) \in Frames /\ Tail(queue) \in Seq(Frames)
    BY HeadTailProperties DEF TypeOK
  <2>2. QED BY <1>10, <2>1 DEF Pop, TypeOK, takeVars, deviceVars
<1>11. CASE Push
  <2>1. Append(queue, pos) \in Seq(Frames)
    BY AppendProperties DEF TypeOK
  <2>2. QED BY <1>11, <2>1 DEF Push, TypeOK, takeVars, deviceVars
<1>12. CASE Free
  <2>1. popped \in Frames
    BY <1>12 DEF Free, LocalsMatch, TypeOK
  <2>2. QED BY <1>12, <2>1 DEF Free, FreePopped, TypeOK, takeVars, deviceVars
<1>13. CASE Restart
  <2>1. running' \in BOOLEAN
    BY <1>13 DEF Restart, TypeOK
  <2>2. pos' \in Frames
    BY <1>13, NextFramesTyped DEF Restart, TypeOK
  <2>3. QED BY <1>13, <2>1, <2>2 DEF Restart, RestartIdle, TypeOK, takeVars
<1>14. QED BY <1>1, <1>2, <1>3, <1>4, <1>5, <1>6, <1>7, <1>8, <1>9, <1>10, <1>11, <1>12,
              <1>13 DEF Task

LEMMA ApplicationTypes == TypeOK /\ LocalsMatch /\ Application => TypeOK'
<1> SUFFICES ASSUME TypeOK, LocalsMatch, Application PROVE TypeOK'
  OBVIOUS
<1> USE CamHalAssumption DEF deviceVars, taskVars, takeVars
<1>1. CASE TakeCall
  BY <1>1 DEF TakeCall, TypeOK
<1>2. CASE TakeReceive
  <2>1. Head(queue) \in Frames /\ Tail(queue) \in Seq(Frames)
    BY <1>2, HeadTailProperties DEF TakeReceive, TypeOK
  <2>2. QED BY <1>2, <2>1 DEF TakeReceive, TypeOK
<1>3. CASE TakeTimeout
  BY <1>3 DEF TakeTimeout, TypeOK
<1>4. CASE TakeVerify
  <2>1. taken \in Frames
    BY <1>4 DEF TakeVerify, LocalsMatch, TypeOK
  <2>2. faults' \in 0 .. MaxFaults
    BY <1>4 DEF TakeVerify, Expected, TypeOK
  <2>3. patience' \in {"finite", "endless"}
    BY <1>4 DEF TakeVerify, TimeLeft, TypeOK
  <2>4. QED BY <1>4, <2>1, <2>2, <2>3 DEF TakeVerify, GiveBack, TypeOK
<1>5. CASE TakeReturn
  BY <1>5 DEF TakeReturn, TypeOK
<1>6. ASSUME NEW f \in held, Give(f) PROVE TypeOK'
  BY <1>6 DEF Give, TypeOK
<1>7. QED BY <1>1, <1>2, <1>3, <1>4, <1>5, <1>6 DEF Application, TakeRun

LEMMA TypeStep == TypeOK /\ LocalsMatch /\ [Next]_vars => TypeOK'
<1>1. TypeOK /\ UNCHANGED vars => TypeOK'
  BY DEF TypeOK, vars, deviceVars, taskVars, takeVars
<1>2. QED BY <1>1, DeviceTypes, TaskTypes, ApplicationTypes DEF Next

-----------------------------------------------------------------------------
(* What the steps of one part leave alone.                                 *)

\* No step but of the task changes its variables, and none but of the application
\* those of cam_take; a frame leaves the driver's hands by the task alone.
LEMMA DeviceFrame ==
    Device => /\ UNCHANGED <<taskVars, takeVars, enabled, queue, held>>
              /\ state' = state \/ state' = "idle"
BY DEF Device, VsyncIsr, DmaIsr, SendEvent, Overflow

LEMMA TaskFrame == Task => UNCHANGED <<takeVars, held>>
BY DEF Task, Receive, DispatchIdle, DispatchEof, DispatchVsync, Start, Begin, CopyHalf,
       Finish, SendFrame, Pop, Push, Free, Restart

LEMMA ApplicationFrame ==
    Application => UNCHANGED <<taskVars, state>> /\ enabled \subseteq enabled'
BY DEF Application, TakeRun, TakeCall, TakeReceive, TakeTimeout, TakeVerify, GiveBack,
       TakeReturn, Give, deviceVars

-----------------------------------------------------------------------------
(* The locals and the frame of the picture.                                *)

LEMMA LocalsStep ==
    ASSUME CamInv, [Next]_vars
    PROVE  LocalsMatch'
<1>1. TypeOK /\ LocalsMatch /\ NoFrame \notin Frames
  BY CamHalAssumption DEF CamInv
<1>2. CASE Device
  BY <1>1, <1>2, DeviceFrame DEF LocalsMatch, taskVars, takeVars
<1>3. CASE Task
  <2>1. /\ takePc' = takePc /\ taken' = taken
    BY <1>3, TaskFrame DEF takeVars
  <2>2. CASE Pop
    <3>1. queue # <<>> => Head(queue) \in Frames
      BY <1>1, HeadTailProperties DEF TypeOK
    <3>2. QED BY <1>1, <2>1, <2>2, <3>1 DEF Pop, LocalsMatch, deviceVars
  <2>3. CASE DispatchIdle \/ DispatchEof \/ DispatchVsync \/ Receive
    BY <1>1, <2>1, <2>3 DEF DispatchIdle, DispatchEof, DispatchVsync, Receive, LocalsMatch,
                           deviceVars
  <2>4. CASE Start \/ Begin \/ CopyHalf
    BY <1>1, <2>1, <2>4 DEF Start, Begin, CopyHalf, LocalsMatch
  <2>5. CASE Finish \/ SendFrame \/ Push
    BY <1>1, <2>1, <2>5 DEF Finish, SendFrame, Push, LocalsMatch, deviceVars
  <2>6. CASE Free \/ Restart
    BY <1>1, <2>1, <2>6 DEF Free, Restart, LocalsMatch, deviceVars
  <2>7. QED BY <1>3, <2>2, <2>3, <2>4, <2>5, <2>6 DEF Task
<1>4. CASE Application
  <2>1. UNCHANGED <<pc, popped, state>>
    BY <1>4, ApplicationFrame DEF taskVars
  <2>2. queue # <<>> => Head(queue) \in Frames
    BY <1>1, HeadTailProperties DEF TypeOK
  <2>3. /\ takePc' = "verify" => taken' # NoFrame
        /\ takePc' \in {"idle", "receive"} => taken' = NoFrame
    BY <1>1, <1>4, <2>2
       DEF Application, TakeRun, TakeCall, TakeReceive, TakeTimeout, TakeVerify, TakeReturn,
           Give, LocalsMatch, takeVars
  <2>4. QED BY <1>1, <2>1, <2>3 DEF LocalsMatch
<1>5. CASE UNCHANGED vars
  BY <1>1, <1>5 DEF LocalsMatch, vars, deviceVars, taskVars, takeVars
<1>6. QED BY <1>2, <1>3, <1>4, <1>5 DEF Next

\* The interrupts may end the picture, and the application only ever adds to the
\* frames that are the task's own.
LEMMA PictureStep ==
    ASSUME CamInv, [Next]_vars
    PROVE  PictureInOwnFrame'
<1>1. TypeOK /\ LocalsMatch /\ PictureInOwnFrame
  BY DEF CamInv
<1>2. CASE Device
  BY <1>1, <1>2, DeviceFrame DEF PictureInOwnFrame, taskVars
<1>3. CASE Task
  <2>1. CASE Receive \/ DispatchIdle \/ DispatchEof \/ DispatchVsync
    BY <1>1, <2>1 DEF Receive, DispatchIdle, DispatchEof, DispatchVsync, deviceVars,
                      PictureInOwnFrame
  <2>2. CASE Start \/ Restart
    BY <1>1, <2>2, NextFramesTyped DEF Start, Restart, RestartIdle, PictureInOwnFrame,
                                       LocalsMatch
  <2>3. CASE Begin \/ CopyHalf
    <3>1. pc \in {"begin", "copy"} /\ UNCHANGED <<pos, enabled>>
      BY <2>3 DEF Begin, CopyHalf
    <3>2. QED BY <1>1, <3>1 DEF PictureInOwnFrame
  <2>4. CASE Finish \/ SendFrame \/ Pop \/ Push \/ Free
    BY <2>4 DEF Finish, SendFrame, Pop, Push, Free, PictureInOwnFrame
  <2>5. QED BY <1>3, <2>1, <2>2, <2>3, <2>4 DEF Task
<1>4. CASE Application
  BY <1>1, <1>4, ApplicationFrame DEF PictureInOwnFrame, taskVars
<1>5. CASE UNCHANGED vars
  BY <1>1, <1>5 DEF PictureInOwnFrame, vars, deviceVars, taskVars
<1>6. QED BY <1>2, <1>3, <1>4, <1>5 DEF Next

-----------------------------------------------------------------------------
(* Where the frames are.                                                   *)

\* The steps that leave every frame where it is.
LEMMA PlacesKept ==
    ASSUME CamInv, UNCHANGED <<enabled, queue, taken, held>>,
           InTask' = InTask, pc' # "push"
    PROVE  Covered' /\ Apart'
<1>1. Queued' = Queued /\ InTake' = InTake /\ (NoneTwice => NoneTwice')
  BY DEF Queued, InTake, NoneTwice
<1>2. Covered /\ Apart
  BY DEF CamInv
<1>3. Covered'
  BY <1>1, <1>2 DEF Covered
<1>4. QED BY <1>1, <1>2, <1>3 DEF Apart

\* The task takes its frame out of the enabled ones, puts it in the queue, or takes
\* the oldest out of the queue to make room, and gives back what it could not place.
LEMMA FinishPlaces ==
    ASSUME CamInv, Finish
    PROVE  Covered' /\ Apart'
<1>1. Covered /\ Apart /\ pos \in enabled
  BY DEF CamInv, Finish, PictureInOwnFrame
<1>2. /\ UNCHANGED <<queue, taken, held, pos, popped>>
      /\ pc = "finish" /\ InTask = {}
      /\ \/ enabled' = enabled \ {pos} /\ pc' = "send"
         \/ enabled' = enabled /\ pc' = "restart"
  BY DEF Finish, ShortFrame, InTask, takeVars
<1>3. CASE enabled' = enabled /\ pc' = "restart"
  <2>1. InTask' = {}
    BY <1>3 DEF InTask
  <2>2. QED BY <1>2, <1>3, <2>1, PlacesKept
<1>4. CASE enabled' = enabled \ {pos} /\ pc' = "send"
  <2>1. InTask' = {pos} /\ Queued' = Queued /\ InTake' = InTake /\ held' = held
    BY <1>2, <1>4 DEF InTask, Queued, InTake
  <2>2. NoneTwice'
    BY <1>1, <1>2 DEF Apart, NoneTwice
  <2>3. Covered'
    BY <1>1, <1>2, <1>4, <2>1 DEF Covered
  <2>4. QED BY <1>1, <1>2, <1>4, <2>1, <2>2, <2>3 DEF Apart
<1>5. QED BY <1>2, <1>3, <1>4

LEMMA SendPlaces ==
    ASSUME CamInv, SendFrame
    PROVE  Covered' /\ Apart'
<1>1. Covered /\ Apart /\ TypeOK
  BY DEF CamInv
<1>2. /\ UNCHANGED <<enabled, taken, held, pos, popped>>
      /\ InTask = {pos} /\ pos \in Frames
      /\ \/ pc' = "pop" /\ queue' = queue
         \/ pc' = "restart" /\ queue' = Append(queue, pos)
  BY DEF SendFrame, InTask, takeVars, CamInv, TypeOK
<1>3. CASE pc' = "pop" /\ queue' = queue
  <2>1. InTask' = InTask
    BY <1>2, <1>3 DEF InTask
  <2>2. QED BY <1>2, <1>3, <2>1, PlacesKept
<1>4. CASE pc' = "restart" /\ queue' = Append(queue, pos)
  <2>1. Queued' = Queued \cup {pos} /\ NoneTwice'
    BY <1>1, <1>2, <1>4, QueueAppend DEF TypeOK, Apart
  <2>2. InTask' = {} /\ InTake' = InTake
    BY <1>2, <1>4 DEF InTask, InTake
  <2>3. Covered'
    BY <1>1, <1>2, <2>1, <2>2 DEF Covered
  <2>4. QED BY <1>1, <1>2, <1>4, <2>1, <2>2, <2>3 DEF Apart
<1>5. QED BY <1>2, <1>3, <1>4

LEMMA PopPlaces ==
    ASSUME CamInv, Pop
    PROVE  Covered' /\ Apart'
<1>1. Covered /\ Apart /\ TypeOK
  BY DEF CamInv
<1>2. /\ UNCHANGED <<taken, held, pos>>
      /\ InTask = {pos} /\ InTake' = InTake
      /\ \/ /\ queue' = queue /\ enabled' = enabled \cup {pos} /\ pc' = "restart"
         \/ /\ queue # <<>> /\ queue' = Tail(queue) /\ popped' = Head(queue)
            /\ pc' = "push" /\ enabled' = enabled
  BY DEF Pop, InTask, InTake, takeVars
<1>3. CASE queue' = queue /\ enabled' = enabled \cup {pos} /\ pc' = "restart"
  <2>1. InTask' = {} /\ Queued' = Queued /\ NoneTwice'
    BY <1>1, <1>3 DEF InTask, Queued, Apart, NoneTwice
  <2>2. Covered'
    BY <1>1, <1>2, <1>3, <2>1 DEF Covered
  <2>3. QED BY <1>1, <1>2, <1>3, <2>1, <2>2 DEF Apart
<1>4. CASE /\ queue # <<>> /\ queue' = Tail(queue) /\ popped' = Head(queue)
           /\ pc' = "push" /\ enabled' = enabled
  <2>1. /\ Queued' = Queued \ {popped'} /\ popped' \in Queued /\ NoneTwice'
    BY <1>1, <1>4, QueueTail DEF TypeOK, Apart
  <2>2. InTask' = {pos, popped'}
    BY <1>2, <1>4 DEF InTask
  <2>3. Covered'
    BY <1>1, <1>2, <1>4, <2>1, <2>2 DEF Covered
  <2>4. popped' # pos
    BY <1>1, <1>2, <2>1 DEF Apart
  <2>5. QED BY <1>1, <1>2, <1>4, <2>1, <2>2, <2>3, <2>4 DEF Apart
<1>5. QED BY <1>2, <1>3, <1>4

LEMMA PushPlaces ==
    ASSUME CamInv, Push
    PROVE  Covered' /\ Apart'
<1>1. Covered /\ Apart /\ TypeOK
  BY DEF CamInv
<1>2. /\ UNCHANGED <<taken, held, pos, popped>>
      /\ InTask = {pos, popped} /\ InTask' = {popped} /\ InTake' = InTake
      /\ pc' = "free" /\ popped # pos /\ pos \in Frames
      /\ \/ queue' = queue /\ enabled' = enabled \cup {pos}
         \/ queue' = Append(queue, pos) /\ enabled' = enabled
  BY <1>1 DEF Push, InTask, InTake, takeVars, Apart, TypeOK
<1>3. CASE queue' = queue /\ enabled' = enabled \cup {pos}
  <2>1. Queued' = Queued /\ NoneTwice'
    BY <1>1, <1>3 DEF Queued, Apart, NoneTwice
  <2>2. Covered'
    BY <1>1, <1>2, <1>3, <2>1 DEF Covered
  <2>3. QED BY <1>1, <1>2, <1>3, <2>1, <2>2 DEF Apart
<1>4. CASE queue' = Append(queue, pos) /\ enabled' = enabled
  <2>1. Queued' = Queued \cup {pos} /\ NoneTwice'
    BY <1>1, <1>2, <1>4, QueueAppend DEF TypeOK, Apart
  <2>2. Covered'
    BY <1>1, <1>2, <1>4, <2>1 DEF Covered
  <2>3. QED BY <1>1, <1>2, <1>4, <2>1, <2>2 DEF Apart
<1>5. QED BY <1>2, <1>3, <1>4

LEMMA FreePlaces ==
    ASSUME CamInv, Free
    PROVE  Covered' /\ Apart'
<1>1. Covered /\ Apart
  BY DEF CamInv
<1>2. /\ UNCHANGED <<taken, held, queue>>
      /\ InTask = {popped} /\ InTask' = {} /\ InTake' = InTake
      /\ pc' = "restart" /\ enabled' = enabled \cup {popped}
  BY DEF Free, FreePopped, InTask, InTake, takeVars
<1>3. Queued' = Queued /\ NoneTwice'
  BY <1>1, <1>2 DEF Queued, Apart, NoneTwice
<1>4. Covered'
  BY <1>1, <1>2, <1>3 DEF Covered
<1>5. QED BY <1>1, <1>2, <1>3, <1>4 DEF Apart

\* The caller of cam_take takes the oldest frame out of the queue, keeps it or gives
\* it back at once, and gives back later what it kept.
LEMMA ApplicationPlaces ==
    ASSUME CamInv, Application
    PROVE  Covered' /\ Apart'
<1>1. Covered /\ Apart /\ TypeOK /\ LocalsMatch /\ NoFrame \notin Frames
  BY CamHalAssumption DEF CamInv
<1>2. InTask' = InTask /\ UNCHANGED <<pc, pos, popped>>
  BY ApplicationFrame DEF taskVars, InTask
<1>3. CASE TakeCall \/ TakeTimeout
  BY <1>1, <1>2, <1>3 DEF TakeCall, TakeTimeout, Covered, Apart, Queued, InTake, NoneTwice
<1>4. CASE TakeReceive
  <2>1. /\ queue # <<>> /\ queue' = Tail(queue) /\ taken' = Head(queue)
        /\ UNCHANGED <<enabled, held>> /\ taken = NoFrame
    BY <1>1, <1>4 DEF TakeReceive, LocalsMatch
  <2>2. /\ Queued' = Queued \ {taken'} /\ taken' \in Queued /\ taken' \in Frames /\ NoneTwice'
    BY <1>1, <2>1, QueueTail DEF TypeOK, Apart
  <2>3. InTake = {} /\ InTake' = {taken'}
    BY <1>1, <2>1, <2>2 DEF InTake
  <2>4. Covered'
    BY <1>1, <1>2, <2>1, <2>2, <2>3 DEF Covered
  <2>5. QED BY <1>1, <1>2, <2>1, <2>2, <2>3, <2>4 DEF Apart
<1>5. CASE TakeVerify
  <2>1. /\ UNCHANGED <<queue, held>> /\ InTake = {taken}
        /\ \/ UNCHANGED <<enabled, taken>>
           \/ enabled' = enabled \cup {taken} /\ taken' = NoFrame
    BY <1>1, <1>5 DEF TakeVerify, GiveBack, InTake, LocalsMatch
  <2>2. Queued' = Queued /\ NoneTwice'
    BY <1>1, <2>1 DEF Queued, Apart, NoneTwice
  <2>3. CASE UNCHANGED <<enabled, taken>>
    BY <1>1, <1>2, <2>1, <2>2, <2>3 DEF Covered, Apart, InTake
  <2>4. CASE enabled' = enabled \cup {taken} /\ taken' = NoFrame
    <3>1. InTake' = {}
      BY <2>4 DEF InTake
    <3>2. Covered'
      BY <1>1, <1>2, <2>1, <2>2, <2>4, <3>1 DEF Covered
    <3>3. QED BY <1>1, <1>2, <2>1, <2>2, <2>4, <3>1, <3>2 DEF Apart
  <2>5. QED BY <2>1, <2>3, <2>4
<1>6. CASE TakeReturn
  <2>1. /\ UNCHANGED <<queue, enabled>> /\ held' = held \cup InTake /\ InTake' = {}
    BY <1>6 DEF TakeReturn, InTake
  <2>2. Queued' = Queued /\ NoneTwice'
    BY <1>1, <2>1 DEF Queued, Apart, NoneTwice
  <2>3. Covered'
    BY <1>1, <1>2, <2>1, <2>2 DEF Covered
  <2>4. QED BY <1>1, <1>2, <2>1, <2>2, <2>3 DEF Apart
<1>7. ASSUME NEW f \in held, Give(f) PROVE Covered' /\ Apart'
  <2>1. /\ UNCHANGED <<queue, taken>> /\ held' = held \ {f} /\ enabled' = enabled \cup {f}
    BY <1>7 DEF Give, takeVars
  <2>2. Queued' = Queued /\ NoneTwice' /\ InTake' = InTake
    BY <1>1, <2>1 DEF Queued, Apart, NoneTwice, InTake
  <2>3. Covered'
    BY <1>1, <1>2, <2>1, <2>2 DEF Covered
  <2>4. QED BY <1>1, <1>2, <2>1, <2>2, <2>3 DEF Apart
<1>8. QED BY <1>3, <1>4, <1>5, <1>6, <1>7 DEF Application, TakeRun

LEMMA PlacesStep ==
    ASSUME CamInv, [Next]_vars
    PROVE  Covered' /\ Apart'
<1>1. CASE Device \/ UNCHANGED vars
  <2>1. UNCHANGED <<pc, pos, popped, enabled, queue, taken, held>>
    BY <1>1, DeviceFrame DEF vars, taskVars, takeVars
  <2>2. Covered /\ Apart
    BY DEF CamInv
  <2>3. QED BY <2>1, <2>2 DEF Covered, Apart, Queued, InTask, InTake, NoneTwice
<1>2. CASE Task
  <2>1. CASE Finish \/ SendFrame \/ Pop \/ Push \/ Free
    BY <2>1, FinishPlaces, SendPlaces, PopPlaces, PushPlaces, FreePlaces
  <2>2. CASE \/ Receive \/ DispatchIdle \/ DispatchEof \/ DispatchVsync
             \/ Start \/ Begin \/ CopyHalf \/ Restart
    <3>1. /\ UNCHANGED <<enabled, queue, taken, held, popped>>
          /\ pc \notin {"send", "pop", "push", "free"}
          /\ pc' \notin {"send", "pop", "push", "free"}
      BY <2>2 DEF Receive, DispatchIdle, DispatchEof, DispatchVsync, Start, Begin,
                  CopyHalf, Restart, takeVars
    <3>2. InTask = {} /\ InTask' = {}
      BY <3>1 DEF InTask
    <3>3. QED BY <3>1, <3>2, PlacesKept
  <2>3. QED BY <1>2, <2>1, <2>2 DEF Task
<1>3. CASE Application
  BY <1>3, ApplicationPlaces
<1>4. QED BY <1>1, <1>2, <1>3 DEF Next

-----------------------------------------------------------------------------
\* Only a full queue sends the task to make room, and while it holds a frame itself
\* a queue as long as there are frames is never full.
LEMMA PopsStep ==
    ASSUME CamInv, [Next]_vars
    PROVE  OnlyLatestPops'
<1>1. OnlyLatestPops
  BY DEF CamInv
<1>2. CASE Device \/ Application \/ UNCHANGED vars
  <2>1. pc' = pc
    BY <1>2, DeviceFrame, ApplicationFrame DEF vars, taskVars
  <2>2. QED BY <1>1, <2>1 DEF OnlyLatestPops
<1>3. CASE Task
  <2>1. CASE SendFrame
    <3>1. SUFFICES ASSUME QueueFull PROVE GrabLatest
      BY <2>1, <3>1 DEF SendFrame, OnlyLatestPops
    <3>2. /\ queue \in Seq(Frames) /\ NoneTwice /\ pos \in Frames /\ pos \notin Queued
      BY <2>1 DEF CamInv, TypeOK, Apart, InTask, SendFrame
    <3>3. Len(queue) < FrameCount /\ Len(queue) \in Nat
      BY <3>2, QueueShorter, LenProperties
    <3>4. FrameCount \in Nat
      BY CamHalAssumption, FS_CardinalityType DEF FrameCount
    <3>5. QED BY <3>1, <3>3, <3>4 DEF QueueFull, QueueLength
  <2>2. CASE Pop \/ Push
    BY <1>1, <2>2 DEF Pop, Push, OnlyLatestPops
  <2>3. CASE \/ Receive \/ DispatchIdle \/ DispatchEof \/ DispatchVsync
             \/ Start \/ Begin \/ CopyHalf \/ Finish \/ Free \/ Restart
    BY <2>3 DEF Receive, DispatchIdle, DispatchEof, DispatchVsync, Start, Begin, CopyHalf,
                Finish, Free, Restart, OnlyLatestPops
  <2>4. QED BY <1>3, <2>1, <2>2, <2>3 DEF Task
<1>4. QED BY <1>2, <1>3 DEF Next

LEMMA CamInvStep == CamInv /\ [Next]_vars => CamInv'
<1> SUFFICES ASSUME CamInv, [Next]_vars PROVE CamInv'
  OBVIOUS
<1>1. TypeOK'
  BY TypeStep DEF CamInv
<1>2. QED BY <1>1, LocalsStep, PictureStep, PlacesStep, PopsStep DEF CamInv

\* Where every frame is, and what the variables of the task and of cam_take name,
\* whatever the interrupts do in between (cam_hal.c).
THEOREM CamInvTheorem == Spec => []CamInv
BY CamInvInit, CamInvStep, PTL DEF Spec

\* The variables of the driver keep their types: no count passes the length of the
\* event queue or the size of a frame (cam_hal.c).
THEOREM TypeTheorem == Spec => []TypeOK
<1>1. CamInv => TypeOK
  BY DEF CamInv
<1>2. QED BY <1>1, CamInvTheorem, PTL

\* Each frame buffer is in exactly one place: enabled, with the task, in the queue,
\* with cam_take, or with the application (cam_task, cam_take and cam_give).
THEOREM OnePlaceTheorem == Spec => []FrameInOnePlace
<1>1. CamInv => FrameInOnePlace
  <2> SUFFICES ASSUME CamInv PROVE FrameInOnePlace
    OBVIOUS
  <2>1. DOMAIN Places = 1 .. 5
    BY DEF Places
  <2>2. /\ Places[1] = enabled /\ Places[2] = InTask /\ Places[3] = Queued
        /\ Places[4] = InTake /\ Places[5] = held
    BY DEF Places
  <2>3. ASSUME NEW f \in Frames PROVE \E k \in DOMAIN Places : f \in Places[k]
    BY <2>1, <2>2 DEF CamInv, Covered
  <2>4. ASSUME NEW j \in DOMAIN Places, NEW k \in DOMAIN Places, j # k
        PROVE  Places[j] \cap Places[k] = {}
    <3>1. j \in {1, 2, 3, 4, 5} /\ k \in {1, 2, 3, 4, 5}
      BY <2>1
    <3>2. QED BY <2>2, <2>4, <3>1 DEF CamInv, Apart
  <2>5. QED BY <2>3, <2>4 DEF FrameInOnePlace, CamInv, Apart, NoneTwice
<1>2. QED BY <1>1, CamInvTheorem, PTL

\* The task writes a picture only into a frame of its own, whatever the interrupts
\* did to its state since it chose the frame (cam_task).
THEOREM OwnFrameTheorem == Spec => []WritesOwnFrame
<1>1. CamInv => WritesOwnFrame
  BY DEF CamInv, TypeOK, LocalsMatch, PictureInOwnFrame, WritesOwnFrame
<1>2. QED BY <1>1, CamInvTheorem, PTL

-----------------------------------------------------------------------------
(* The driver implements FrameOwner.                                       *)

Lent == held \cup InTake
Target == IF Writing THEN pos ELSE NoFrame

\* Seen from the application, a frame is with the driver when it is enabled or with
\* the task.
LEMMA OwnFrames ==
    ASSUME CamInv
    PROVE  /\ Owner!Queued = Queued
           /\ Owner!WithDriver = enabled \cup InTask
           /\ Writing => pos \in Owner!WithDriver
<1>1. Owner!Queued = Queued
  BY DEF Owner!Queued, Queued
<1>2. Owner!WithDriver = enabled \cup InTask
  BY <1>1 DEF Owner!WithDriver, CamInv, Covered, Apart
<1>3. Writing => pos \in enabled \cup InTask
  BY DEF CamInv, PictureInOwnFrame, Writing, InTask
<1>4. QED BY <1>1, <1>2, <1>3

\* A step that leaves the queue and the frames of the application alone starts a
\* picture, goes on with it or gives it up.
LEMMA AimStep ==
    ASSUME CamInv, UNCHANGED <<queue, Lent>>,
           Target' \in enabled \cup InTask \cup {NoFrame, Target}
    PROVE  [Owner!Next]_(Owner!ownerVars)
<1>1. Target' \in Owner!WithDriver \cup {NoFrame, Target}
  BY OwnFrames
<1>2. CASE Target' = Target
  BY <1>2 DEF Owner!ownerVars, Lent, Target
<1>3. CASE Target' \in Owner!WithDriver \cup {NoFrame}
  BY <1>3 DEF Owner!Next, Owner!Aim, Lent, Target
<1>4. QED BY <1>1, <1>2, <1>3

LEMMA OwnerInit == Init => Owner!Init
BY DEF Init, Owner!Init, InTake, Writing

LEMMA OwnerDeviceStep ==
    ASSUME CamInv, Device
    PROVE  [Owner!Next]_(Owner!ownerVars)
<1>1. /\ UNCHANGED <<pc, pos, queue, taken, held>>
      /\ state' = state \/ state' = "idle"
  BY DeviceFrame DEF taskVars, takeVars
<1>2. Target' \in {NoFrame, Target} /\ UNCHANGED <<queue, Lent>>
  BY <1>1 DEF Target, Writing, Lent, InTake
<1>3. QED BY <1>2, AimStep

LEMMA OwnerTaskStep ==
    ASSUME CamInv, Task
    PROVE  [Owner!Next]_(Owner!ownerVars)
<1>1. UNCHANGED Lent /\ NoFrame \notin Frames /\ TypeOK
  BY TaskFrame, CamHalAssumption DEF Lent, InTake, takeVars, CamInv
<1>2. CASE Start \/ Restart
  <2>1. Target' \in {pos'} \cup {NoFrame} /\ queue' = queue
    BY <1>2 DEF Start, Restart, Target
  <2>2. pos' \in enabled \/ Target' = NoFrame
    BY <1>1, <1>2, NextFramesTyped
       DEF Start, Restart, RestartIdle, Target, Writing, CamInv, LocalsMatch
  <2>3. QED BY <1>1, <2>1, <2>2, AimStep
<1>3. CASE \/ Receive \/ DispatchIdle \/ DispatchEof \/ DispatchVsync \/ Begin \/ CopyHalf
           \/ Finish \/ Free
  <2>1. pos' = pos /\ queue' = queue
    BY <1>3 DEF Receive, DispatchIdle, DispatchEof, DispatchVsync, Begin, CopyHalf, Finish,
                Free
  <2>2. Writing' => Writing
    BY <1>3 DEF Receive, DispatchIdle, DispatchEof, DispatchVsync, Begin, CopyHalf, Finish,
                Free, Writing, deviceVars
  <2>3. Target' \in {NoFrame, Target}
    BY <2>1, <2>2 DEF Target
  <2>4. QED BY <1>1, <2>1, <2>3, AimStep
<1>4. CASE SendFrame \/ Push
  <2>1. /\ Target = pos /\ pos \in Frames /\ pos \in Owner!WithDriver
        /\ pos' = pos
    BY <1>1, <1>4, OwnFrames DEF SendFrame, Push, Target, Writing, TypeOK
  <2>2. CASE queue' = queue
    <3>1. Target' \in {NoFrame, Target}
      BY <2>1 DEF Target
    <3>2. QED BY <1>1, <2>2, <3>1, AimStep
  <2>3. CASE ~QueueFull /\ queue' = Append(queue, pos)
    <3>1. Target' = NoFrame
      BY <1>4, <2>3 DEF SendFrame, Push, Target, Writing
    <3>2. Len(queue) < QueueLength
      BY <1>1, <2>3, LenProperties, FS_CardinalityType, CamHalAssumption
         DEF QueueFull, QueueLength, FrameCount, TypeOK
    <3>3. Owner!Publish
      BY <1>1, <2>1, <2>3, <3>1, <3>2 DEF Owner!Publish, Lent, Target
    <3>4. QED BY <3>3 DEF Owner!Next
  <2>4. QED BY <1>4, <2>2, <2>3 DEF SendFrame, Push
<1>5. CASE Pop
  <2>1. CASE queue' = queue
    <3>1. Target' \in {NoFrame, Target}
      BY <1>5 DEF Pop, Target, Writing
    <3>2. QED BY <1>1, <2>1, <3>1, AimStep
  <2>2. CASE queue # <<>> /\ queue' = Tail(queue) /\ pc' = "push"
    <3>1. GrabLatest
      BY <1>5 DEF Pop, CamInv, OnlyLatestPops
    <3>2. Target' = Target
      BY <1>5, <2>2 DEF Pop, Target, Writing
    <3>3. Owner!DropOldest
      BY <1>1, <2>2, <3>1, <3>2 DEF Owner!DropOldest, Lent, Target
    <3>4. QED BY <3>3 DEF Owner!Next
  <2>3. QED BY <1>5, <2>1, <2>2 DEF Pop
<1>6. QED BY <1>2, <1>3, <1>4, <1>5 DEF Task

LEMMA OwnerApplicationStep ==
    ASSUME CamInv, Application
    PROVE  [Owner!Next]_(Owner!ownerVars)
<1>1. Target' = Target
  BY ApplicationFrame DEF Target, Writing, taskVars
<1>2. NoFrame \notin Frames /\ TypeOK /\ LocalsMatch /\ Apart
  BY CamHalAssumption DEF CamInv
<1>3. CASE queue' = queue /\ Lent' = Lent
  BY <1>1, <1>3, AimStep
<1>4. CASE TakeCall \/ TakeTimeout \/ TakeReturn
  <2>1. queue' = queue /\ Lent' = Lent
    BY <1>4 DEF TakeCall, TakeTimeout, TakeReturn, Lent, InTake
  <2>2. QED BY <1>3, <2>1
<1>5. CASE TakeReceive
  <2>1. /\ queue # <<>> /\ queue' = Tail(queue) /\ taken' = Head(queue) /\ held' = held
        /\ taken = NoFrame
    BY <1>2, <1>5 DEF TakeReceive, LocalsMatch
  <2>2. taken' # NoFrame
    BY <1>2, <2>1, QueueTail DEF TypeOK
  <2>3. Lent' = Lent \cup {Head(queue)}
    BY <2>1, <2>2 DEF Lent, InTake
  <2>4. Owner!Take
    BY <1>1, <2>1, <2>3 DEF Owner!Take, Lent, Target
  <2>5. QED BY <2>4 DEF Owner!Next
<1>6. CASE TakeVerify
  <2>1. CASE UNCHANGED taken
    <3>1. queue' = queue /\ Lent' = Lent
      BY <1>6, <2>1 DEF TakeVerify, Lent, InTake
    <3>2. QED BY <1>3, <3>1
  <2>2. CASE taken' = NoFrame /\ takePc' = "receive"
    <3>1. queue' = queue /\ taken \in Lent /\ Lent' = Lent \ {taken}
      BY <1>2, <1>6, <2>2 DEF TakeVerify, LocalsMatch, Apart, Lent, InTake
    <3>2. Owner!Return(taken)
      BY <1>1, <3>1 DEF Owner!Return, Lent, Target
    <3>3. QED BY <3>1, <3>2 DEF Owner!Next, Lent
  <2>3. QED BY <1>6, <2>1, <2>2 DEF TakeVerify
<1>7. ASSUME NEW f \in held, Give(f) PROVE Owner!Next
  <2>1. queue' = queue /\ f \in Lent /\ Lent' = Lent \ {f}
    BY <1>2, <1>7 DEF Give, Apart, Lent, InTake, takeVars
  <2>2. Owner!Return(f)
    BY <1>1, <2>1 DEF Owner!Return, Lent, Target
  <2>3. QED BY <2>1, <2>2 DEF Owner!Next, Lent
<1>8. QED BY <1>4, <1>5, <1>6, <1>7 DEF Application, TakeRun

LEMMA OwnerStep == CamInv /\ [Next]_vars => [Owner!Next]_(Owner!ownerVars)
<1>1. ASSUME CamInv, UNCHANGED vars PROVE UNCHANGED Owner!ownerVars
  BY <1>1 DEF vars, deviceVars, taskVars, takeVars, Owner!ownerVars, Writing, InTake
<1>2. QED BY <1>1, OwnerDeviceStep, OwnerTaskStep, OwnerApplicationStep DEF Next

\* The interrupts, the task and the calls together keep the promise of FrameOwner:
\* pictures go only to a frame that is with the driver, frames are handed over oldest
\* first, and only a driver that grabs the latest frame drops one (cam_hal.c).
THEOREM OwnerTheorem == Spec => OwnerSpec
BY OwnerInit, OwnerStep, CamInvTheorem, PTL DEF Spec, OwnerSpec, Owner!Spec

-----------------------------------------------------------------------------
(* The application, on top of the driver.                                  *)

-----------------------------------------------------------------------------
(* A queue of length 1.                                                    *)

LEMMA ElementsOfEmpty == Elements(<<>>) = {}
BY DEF Elements

LEMMA ShortQueue ==
    ASSUME NEW q \in Seq(Frames), Len(q) <= 1
    PROVE  \/ q = <<>> /\ Elements(q) = {}
           \/ /\ q # <<>> /\ Elements(q) = {Head(q)} /\ Head(q) \in Frames
              /\ Tail(q) = <<>> /\ ~HasRoom(q)
<1>1. Len(q) \in Nat /\ DOMAIN q = 1 .. Len(q)
  BY LenProperties
<1>2. CASE q = <<>>
  BY <1>2, ElementsOfEmpty
<1>3. CASE q # <<>>
  <2>1. Len(q) = 1
    BY <1>1, <1>3, EmptySeq
  <2>2. Head(q) = q[1] /\ Head(q) \in Frames
    BY <1>3, HeadTailProperties
  <2>3. Elements(q) = {q[1]}
    BY <1>1, <2>1 DEF Elements
  <2>4. Tail(q) \in Seq(Frames) /\ Len(Tail(q)) = 0
    BY <1>3, <2>1, HeadTailProperties
  <2>5. Tail(q) = <<>>
    BY <2>4, EmptySeq
  <2>6. QED BY <1>3, <2>1, <2>2, <2>3, <2>5 DEF HasRoom
<1>4. QED BY <1>2, <1>3

LEMMA QueueWithRoom ==
    ASSUME NEW q \in Seq(Frames), HasRoom(q), NEW f \in Frames
    PROVE  /\ q = <<>> /\ Elements(q) = {}
           /\ Append(q, f) \in Seq(Frames) /\ Len(Append(q, f)) <= 1
           /\ Elements(Append(q, f)) = {f}
<1>1. q = <<>>
  BY LenProperties, EmptySeq DEF HasRoom
<1>2. Append(q, f) = <<f>>
  BY <1>1
<1>3. Elements(<<f>>) = {f}
  BY DEF Elements
<1>4. QED BY <1>1, <1>2, <1>3, ElementsOfEmpty

-----------------------------------------------------------------------------
(* The inductive invariant.                                                *)

\* What each task holds at each of its steps.
TasksMatch ==
    /\ image # NoFrame <=> capturePc = "push"
    /\ takePc # "idle" <=> capturePc = "get"
    /\ sending # NoFrame <=> sendPc \in {"send", "recycle"}

LentSomewhere ==
    held = Pointer(image) \cup Elements(produced) \cup Pointer(sending)
             \cup Elements(recycled) \cup Pointer(returning)

StationsApart ==
    /\ Pointer(image) \cap Elements(produced) = {}
    /\ Pointer(image) \cap Pointer(sending) = {}
    /\ Pointer(image) \cap Elements(recycled) = {}
    /\ Pointer(image) \cap Pointer(returning) = {}
    /\ Elements(produced) \cap Pointer(sending) = {}
    /\ Elements(produced) \cap Elements(recycled) = {}
    /\ Elements(produced) \cap Pointer(returning) = {}
    /\ Pointer(sending) \cap Elements(recycled) = {}
    /\ Pointer(sending) \cap Pointer(returning) = {}
    /\ Elements(recycled) \cap Pointer(returning) = {}

PipelineInv ==
    CamInv /\ PipelineTypeOK /\ TasksMatch /\ LentSomewhere /\ StationsApart

LEMMA PipelineInvInit == PipelineInit => PipelineInv
<1> SUFFICES ASSUME PipelineInit PROVE PipelineInv
  OBVIOUS
<1>1. CamInv
  BY CamInvInit DEF PipelineInit
<1>2. produced \in Seq(Frames) /\ Len(produced) <= 1
  BY EmptySeq DEF PipelineInit
<1>3. recycled \in Seq(Frames) /\ Len(recycled) <= 1
  BY EmptySeq DEF PipelineInit
<1>4. wanted \in BOOLEAN
  BY DEF PipelineInit
<1>5. PipelineTypeOK
  BY <1>1, <1>2, <1>3, <1>4 DEF PipelineInit, PipelineTypeOK, CamInv
<1>6. /\ Pointer(image) = {} /\ Pointer(sending) = {} /\ Pointer(returning) = {}
      /\ Elements(produced) = {} /\ Elements(recycled) = {}
  BY ElementsOfEmpty DEF PipelineInit, Pointer
<1>7. TasksMatch /\ LentSomewhere /\ StationsApart
  BY <1>6 DEF PipelineInit, Init, TasksMatch, LentSomewhere, StationsApart
<1>8. QED BY <1>1, <1>5, <1>7 DEF PipelineInv

-----------------------------------------------------------------------------
\* Whatever the tasks do, they do nothing to the driver that CamHal does not let an
\* application do.
LEMMA DriverStep == [PipelineNext]_pipelineVars => [Next]_vars
BY DEF PipelineNext, pipelineVars, Driver, Interest, Capture, CaptureWait, CaptureCheck,
       CaptureGet, CaptureGot, CapturePush, Sender, SendReceive, SendImage, SendRecycle,
       Recycle, RecycleReceive, RecycleReturn, Give, Next, Application, TakeRun

\* The interrupts and the driver's own task take no frame from the application.
LEMMA DriverKeeps ==
    ASSUME PipelineInv, Driver
    PROVE  PipelineInv'
<1>1. CamInv' /\ PipelineInv
  BY DriverStep, CamInvStep DEF PipelineInv, PipelineNext
<1>2. /\ UNCHANGED <<wanted, capturePc, image, produced, sending, sendPc, recycled>>
      /\ UNCHANGED <<returning, takePc, held>>
  BY DeviceFrame, TaskFrame DEF Driver, captureVars, senderVars, takeVars
<1>3. PipelineTypeOK'
  BY <1>1, <1>2 DEF PipelineInv, PipelineTypeOK, CamInv
<1>4. QED BY <1>1, <1>2, <1>3 DEF PipelineInv, TasksMatch, LentSomewhere, StationsApart

LEMMA CaptureKeeps ==
    ASSUME PipelineInv, Capture
    PROVE  PipelineInv'
<1>1. CamInv' /\ TypeOK'
  BY DriverStep, CamInvStep DEF PipelineInv, PipelineNext, CamInv
<1>2. PipelineTypeOK /\ TasksMatch /\ LentSomewhere /\ StationsApart
  BY DEF PipelineInv
<1>3. /\ TypeOK /\ LocalsMatch /\ InTake \cap held = {}
      /\ NoFrame \notin Frames
  BY CamHalAssumption DEF PipelineInv, CamInv, Apart
<1>4. CASE CaptureWait \/ CaptureCheck
  <2>1. UNCHANGED <<image, produced, sending, sendPc, recycled, returning, held, wanted>>
    BY <1>4 DEF CaptureWait, CaptureCheck, TakeCall, vars, senderVars
  <2>2. capturePc' \in {"wait", "check", "get", "push"}
    BY <1>4 DEF CaptureWait, CaptureCheck
  <2>3. PipelineTypeOK'
    BY <1>1, <1>2, <2>1, <2>2 DEF PipelineTypeOK
  <2>4. TasksMatch'
    BY <1>2, <1>4, <2>1 DEF TasksMatch, CaptureWait, CaptureCheck, TakeCall, vars, takeVars
  <2>5. QED BY <1>1, <1>2, <2>1, <2>3, <2>4
            DEF PipelineInv, LentSomewhere, StationsApart
<1>5. CASE CaptureGet
  <2>1. /\ UNCHANGED <<image, produced, sending, sendPc, recycled, returning, held, wanted>>
        /\ UNCHANGED capturePc
    BY <1>5 DEF CaptureGet, TakeReceive, TakeTimeout, TakeVerify, captureVars, senderVars
  <2>2. PipelineTypeOK'
    BY <1>1, <1>2, <2>1 DEF PipelineTypeOK
  <2>3. takePc # "idle" /\ takePc' # "idle"
    BY <1>5 DEF CaptureGet, TakeReceive, TakeTimeout, TakeVerify
  <2>4. QED BY <1>1, <1>2, <2>1, <2>2, <2>3
            DEF PipelineInv, TasksMatch, LentSomewhere, StationsApart
<1>6. CASE CaptureGot
  <2>1. /\ UNCHANGED <<produced, sending, sendPc, recycled, returning, wanted>>
        /\ takePc # "idle" /\ takePc' = "idle"
        /\ image' = taken /\ held' = held \cup Pointer(taken)
        /\ capturePc' = IF taken = NoFrame THEN "wait" ELSE "push"
    BY <1>6 DEF CaptureGot, TakeReturn, Pointer, senderVars
  <2>2. taken \in Frames \cup {NoFrame} /\ image = NoFrame
    BY <1>2, <1>3, <2>1 DEF TypeOK, TasksMatch
  <2>3. PipelineTypeOK'
    BY <1>1, <1>2, <2>1, <2>2 DEF PipelineTypeOK
  <2>4. TasksMatch'
    BY <1>2, <2>1 DEF TasksMatch
  <2>5. Pointer(taken) \cap held = {} /\ Pointer(image) = {}
    BY <1>3, <2>2 DEF Pointer, InTake
  <2>6. QED BY <1>1, <1>2, <2>1, <2>3, <2>4, <2>5
            DEF PipelineInv, LentSomewhere, StationsApart
<1>7. CASE CapturePush
  <2>1. /\ UNCHANGED <<sending, sendPc, recycled, returning, wanted, takePc, held>>
        /\ capturePc = "push" /\ capturePc' = "wait" /\ HasRoom(produced)
        /\ produced' = Append(produced, image) /\ image' = NoFrame
    BY <1>7 DEF CapturePush, senderVars, vars, takeVars
  <2>2. image \in Frames /\ Pointer(image) = {image} /\ Pointer(image') = {}
    BY <1>2, <2>1 DEF PipelineTypeOK, TasksMatch, Pointer
  <2>3. /\ produced' \in Seq(Frames) /\ Len(produced') <= 1
        /\ Elements(produced) = {} /\ Elements(produced') = {image}
    BY <1>2, <2>1, <2>2, QueueWithRoom DEF PipelineTypeOK
  <2>4. PipelineTypeOK'
    BY <1>1, <1>2, <2>1, <2>3 DEF PipelineTypeOK
  <2>5. TasksMatch'
    BY <1>2, <2>1 DEF TasksMatch
  <2>6. LentSomewhere' /\ StationsApart'
    BY <1>2, <2>1, <2>2, <2>3 DEF LentSomewhere, StationsApart
  <2>7. QED BY <1>1, <2>4, <2>5, <2>6 DEF PipelineInv
<1>8. QED BY <1>4, <1>5, <1>6, <1>7 DEF Capture

LEMMA SenderKeeps ==
    ASSUME PipelineInv, Sender
    PROVE  PipelineInv'
<1>1. CamInv' /\ TypeOK'
  BY DriverStep, CamInvStep DEF PipelineInv, PipelineNext, CamInv
<1>2. /\ PipelineTypeOK /\ TasksMatch /\ LentSomewhere /\ StationsApart
      /\ NoFrame \notin Frames
  BY CamHalAssumption DEF PipelineInv
<1>3. UNCHANGED <<wanted, capturePc, image, takePc, returning, held>>
  BY DEF Sender, SendReceive, SendImage, SendRecycle, captureVars, vars, takeVars
<1>4. CASE SendReceive
  <2>1. /\ sendPc = "idle" /\ sendPc' = "send" /\ produced # <<>> /\ recycled' = recycled
        /\ sending' = Head(produced) /\ produced' = Tail(produced)
    BY <1>4 DEF SendReceive
  <2>2. /\ Elements(produced) = {sending'} /\ sending' \in Frames /\ produced' = <<>>
    BY <1>2, <2>1, ShortQueue DEF PipelineTypeOK
  <2>3. /\ Elements(produced') = {} /\ Pointer(sending') = {sending'} /\ Pointer(sending) = {}
    BY <1>2, <2>1, <2>2, ElementsOfEmpty DEF Pointer, TasksMatch
  <2>4. produced' \in Seq(Frames) /\ Len(produced') <= 1
    BY <2>2, EmptySeq
  <2>5. PipelineTypeOK'
    BY <1>1, <1>2, <1>3, <2>1, <2>2, <2>4 DEF PipelineTypeOK
  <2>6. TasksMatch'
    BY <1>2, <1>3, <2>1, <2>2 DEF TasksMatch
  <2>7. LentSomewhere' /\ StationsApart'
    BY <1>2, <1>3, <2>1, <2>2, <2>3 DEF LentSomewhere, StationsApart
  <2>8. QED BY <1>1, <2>5, <2>6, <2>7 DEF PipelineInv
<1>5. CASE SendImage
  <2>1. /\ sendPc = "send" /\ sendPc' = "recycle"
        /\ UNCHANGED <<produced, sending, recycled>>
    BY <1>5 DEF SendImage
  <2>2. PipelineTypeOK'
    BY <1>1, <1>2, <1>3, <2>1 DEF PipelineTypeOK
  <2>3. QED BY <1>1, <1>2, <1>3, <2>1, <2>2
            DEF PipelineInv, TasksMatch, LentSomewhere, StationsApart
<1>6. CASE SendRecycle
  <2>1. /\ sendPc = "recycle" /\ sendPc' = "idle" /\ HasRoom(recycled)
        /\ recycled' = Append(recycled, sending) /\ sending' = NoFrame
        /\ produced' = produced
    BY <1>6 DEF SendRecycle
  <2>2. sending \in Frames /\ Pointer(sending) = {sending} /\ Pointer(sending') = {}
    BY <1>2, <2>1 DEF PipelineTypeOK, TasksMatch, Pointer
  <2>3. /\ recycled' \in Seq(Frames) /\ Len(recycled') <= 1
        /\ Elements(recycled) = {} /\ Elements(recycled') = {sending}
    BY <1>2, <2>1, <2>2, QueueWithRoom DEF PipelineTypeOK
  <2>4. PipelineTypeOK'
    BY <1>1, <1>2, <1>3, <2>1, <2>3 DEF PipelineTypeOK
  <2>5. TasksMatch'
    BY <1>2, <1>3, <2>1 DEF TasksMatch
  <2>6. LentSomewhere' /\ StationsApart'
    BY <1>2, <1>3, <2>1, <2>2, <2>3 DEF LentSomewhere, StationsApart
  <2>7. QED BY <1>1, <2>4, <2>5, <2>6 DEF PipelineInv
<1>7. QED BY <1>4, <1>5, <1>6 DEF Sender

LEMMA RecycleKeeps ==
    ASSUME PipelineInv, Recycle
    PROVE  PipelineInv'
<1>1. CamInv' /\ TypeOK'
  BY DriverStep, CamInvStep DEF PipelineInv, PipelineNext, CamInv
<1>2. /\ PipelineTypeOK /\ TasksMatch /\ LentSomewhere /\ StationsApart
      /\ NoFrame \notin Frames
  BY CamHalAssumption DEF PipelineInv
<1>3. UNCHANGED <<wanted, capturePc, image, takePc, produced, sending, sendPc>>
  BY DEF Recycle, RecycleReceive, RecycleReturn, Give, captureVars, senderVars, vars, takeVars
<1>4. CASE RecycleReceive
  <2>1. /\ returning = NoFrame /\ recycled # <<>> /\ held' = held
        /\ returning' = Head(recycled) /\ recycled' = Tail(recycled)
    BY <1>4 DEF RecycleReceive, RecycleBy, vars
  <2>2. /\ Elements(recycled) = {returning'} /\ returning' \in Frames /\ recycled' = <<>>
    BY <1>2, <2>1, ShortQueue DEF PipelineTypeOK
  <2>3. /\ Elements(recycled') = {} /\ Pointer(returning') = {returning'}
        /\ Pointer(returning) = {}
    BY <1>2, <2>1, <2>2, ElementsOfEmpty DEF Pointer
  <2>4. recycled' \in Seq(Frames) /\ Len(recycled') <= 1
    BY <2>2, EmptySeq
  <2>5. PipelineTypeOK'
    BY <1>1, <1>2, <1>3, <2>2, <2>4 DEF PipelineTypeOK
  <2>6. LentSomewhere' /\ StationsApart'
    BY <1>2, <1>3, <2>1, <2>2, <2>3 DEF LentSomewhere, StationsApart
  <2>7. QED BY <1>1, <1>2, <1>3, <2>5, <2>6 DEF PipelineInv, TasksMatch
<1>5. CASE RecycleReturn
  <2>1. /\ returning # NoFrame /\ returning' = NoFrame /\ held' = held \ {returning}
        /\ recycled' = recycled
    BY <1>5 DEF RecycleReturn, Give
  <2>2. Pointer(returning) = {returning} /\ Pointer(returning') = {}
    BY <2>1 DEF Pointer
  <2>3. PipelineTypeOK'
    BY <1>1, <1>2, <1>3, <2>1 DEF PipelineTypeOK
  <2>4. LentSomewhere' /\ StationsApart'
    BY <1>2, <1>3, <2>1, <2>2 DEF LentSomewhere, StationsApart
  <2>5. QED BY <1>1, <1>2, <1>3, <2>3, <2>4 DEF PipelineInv, TasksMatch
<1>6. QED BY <1>4, <1>5 DEF Recycle

LEMMA PipelineInvStep == PipelineInv /\ [PipelineNext]_pipelineVars => PipelineInv'
<1> SUFFICES ASSUME PipelineInv, [PipelineNext]_pipelineVars PROVE PipelineInv'
  OBVIOUS
<1>1. CASE Interest \/ UNCHANGED pipelineVars
  <2>1. CamInv' /\ TypeOK'
    BY DriverStep, CamInvStep DEF PipelineInv, CamInv
  <2>2. /\ UNCHANGED <<capturePc, image, produced, sending, sendPc, recycled, returning>>
        /\ UNCHANGED <<takePc, held>>
    BY <1>1 DEF Interest, pipelineVars, captureVars, senderVars, vars, takeVars
  <2>3. wanted' \in BOOLEAN
    BY <1>1 DEF PipelineInv, PipelineTypeOK, Interest, pipelineVars, captureVars
  <2>4. PipelineTypeOK'
    BY <2>1, <2>2, <2>3 DEF PipelineInv, PipelineTypeOK
  <2>5. QED BY <2>1, <2>2, <2>4 DEF PipelineInv, TasksMatch, LentSomewhere, StationsApart
<1>2. QED BY <1>1, DriverKeeps, CaptureKeeps, SenderKeeps, RecycleKeeps DEF PipelineNext

-----------------------------------------------------------------------------
(* What follows.                                                           *)

\* The application uses the driver in no way that CamHal does not allow: its tasks,
\* seen from the driver, are one caller of cam_take and of cam_give (tasks.c).
THEOREM DriverTheorem == PipelineSpec => Spec
<1>1. PipelineInit => Init
  BY DEF PipelineInit
<1>2. QED BY <1>1, DriverStep, PTL DEF PipelineSpec, Spec

\* So the driver keeps the promise of FrameOwner to the tasks of the application.
THEOREM PipelineOwnerTheorem == PipelineSpec => OwnerSpec
BY DriverTheorem, OwnerTheorem, PTL

\* What each task holds, and that what they hold is what the driver has lent.
THEOREM PipelineInvTheorem == PipelineSpec => []PipelineInv
BY PipelineInvInit, PipelineInvStep, PTL DEF PipelineSpec

\* The variables of the three tasks keep their types, and neither queue ever holds
\* more than the one pointer it has room for (tasks.c).
THEOREM PipelineTypeTheorem == PipelineSpec => []PipelineTypeOK
<1>1. PipelineInv => PipelineTypeOK
  BY DEF PipelineInv
<1>2. QED BY <1>1, PipelineInvTheorem, PTL

\* No frame is lost between the tasks, and none is given back twice (task_capture_camera_image,
\* task_send_camera_image and task_recycle_camera_image of tasks.c).
THEOREM LentTheorem == PipelineSpec => []LentAtOneStation
<1>1. PipelineInv => LentAtOneStation
  <2> SUFFICES ASSUME PipelineInv PROVE LentAtOneStation
    OBVIOUS
  <2>1. DOMAIN Stations = 1 .. 5
    BY DEF Stations
  <2>2. /\ Stations[1] = Pointer(image) /\ Stations[2] = Elements(produced)
        /\ Stations[3] = Pointer(sending) /\ Stations[4] = Elements(recycled)
        /\ Stations[5] = Pointer(returning)
    BY DEF Stations
  <2>3. \A k \in DOMAIN Stations : k \in {1, 2, 3, 4, 5}
    BY <2>1
  <2>4. held = UNION {Stations[k] : k \in DOMAIN Stations}
    <3>1. \A k \in {1, 2, 3, 4, 5} : k \in DOMAIN Stations
      BY <2>1
    <3>2. \A f \in held : \E k \in DOMAIN Stations : f \in Stations[k]
      BY <2>2, <3>1 DEF PipelineInv, LentSomewhere
    <3>3. \A k \in DOMAIN Stations : Stations[k] \subseteq held
      BY <2>2, <2>3 DEF PipelineInv, LentSomewhere
    <3>4. QED BY <3>2, <3>3
  <2>5. ASSUME NEW j \in DOMAIN Stations, NEW k \in DOMAIN Stations, j # k
        PROVE  Stations[j] \cap Stations[k] = {}
    BY <2>2, <2>3, <2>5 DEF PipelineInv, StationsApart
  <2>6. QED BY <2>4, <2>5 DEF LentAtOneStation
<1>2. QED BY <1>1, PipelineInvTheorem, PTL

\* The picture in a frame does not change while the frame is sent: the frame is not
\* enabled, and no picture is on its way to it (server_send_image_data).
THEOREM StableTheorem == PipelineSpec => []SentFrameStable
<1>1. PipelineInv => SentFrameStable
  <2> SUFFICES ASSUME PipelineInv, sendPc = "send"
               PROVE  sending \notin enabled /\ ~(Writing /\ pos = sending)
    BY DEF SentFrameStable
  <2>1. sending \in held
    BY DEF PipelineInv, TasksMatch, LentSomewhere, Pointer
  <2>2. sending \notin enabled /\ sending \notin InTask
    BY <2>1 DEF PipelineInv, CamInv, Apart
  <2>3. Writing => pos \in enabled \cup InTask
    BY OwnFrames DEF PipelineInv
  <2>4. QED BY <2>2, <2>3
<1>2. QED BY <1>1, PipelineInvTheorem, PTL
=============================================================================
