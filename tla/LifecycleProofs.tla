---------------------------- MODULE LifecycleProofs ----------------------------
(***************************************************************************)
(* Proofs about CameraLifecycle: whatever esp_camera_init fails at, nothing*)
(* is left behind (AllOrNothing), and with cam_task on the caller's core   *)
(* nothing is freed under the interrupts or cam_task (FreedIsUnused).      *)
(*                                                                         *)
(* OrderInv says how far the caller is: in esp_camera_init what it holds is*)
(* what stands before its step in Takes, in the teardown nothing it holds  *)
(* stands before its step in Gives.  SameCoreInv adds that on one core     *)
(* cam_task has taken the last VSYNC before the DMA is stopped, and so     *)
(* cannot start it again.                                                  *)
(***************************************************************************)
EXTENDS CameraLifecycle, TLAPS

Things == {Takes[k] : k \in 1..13} \ Checks
Phases == {"idle", "init", "deinit"}

LifecycleTypeOK ==
    /\ held \subseteq Things
    /\ phase \in Phases
    /\ at \in 1..14
    /\ outcome \in {"none", "ok", "failed", "gone"}
    /\ vsyncOn \in BOOLEAN /\ dmaOn \in BOOLEAN /\ capturing \in BOOLEAN
    /\ camEvents \subseteq {"vsync", "eof"}

-----------------------------------------------------------------------------
(* What the caller holds.                                                  *)

\* In esp_camera_init: what stands before its step.
TakenInOrder ==
    phase = "init" =>
        /\ outcome = "none"
        /\ \A k \in 1..13 : Takes[k] \in held => k < at
        /\ \A k \in 1..13 : k < at /\ Takes[k] \notin Checks \cup Unchecked
                                => Takes[k] \in held

\* In the teardown: nothing of what stands before its step.
GivenInOrder ==
    phase = "deinit" =>
        /\ outcome \in {"failed", "gone"}
        /\ \A k \in 1..13 : k < at => Gives[k] \notin held
        /\ "task" \in held => {"object", "events", "pictures", "frames"} \subseteq held

\* Between calls: all or nothing.
OrderInv == LifecycleTypeOK /\ TakenInOrder /\ GivenInOrder /\ AllOrNothing

-----------------------------------------------------------------------------
(* What the interrupts and cam_task do meanwhile, on one core.             *)

Quiet == ~vsyncOn /\ ~dmaOn /\ camEvents = {}

QuietOutside ==
    /\ phase = "init" => Quiet
    /\ phase = "idle" /\ outcome # "ok" => Quiet
    /\ phase = "deinit" /\ at > 4 => camEvents = {}

\* In the teardown the interrupts are on only before they are stopped, and then
\* all of the camera is there.
StoppedInOrder ==
    phase = "deinit" =>
        /\ vsyncOn => at = 1
        /\ dmaOn => at <= 2
        /\ vsyncOn \/ dmaOn => Needed \subseteq held
        /\ at <= 2 /\ camEvents # {} => Needed \subseteq held

\* What cam_task has handled before the caller's next step.
TaskIsAhead ==
    phase = "deinit" /\ "task" \in held =>
        /\ at >= 2 => "vsync" \notin camEvents
        /\ at >= 3 => camEvents = {}

SameCoreInv == OrderInv /\ QuietOutside /\ StoppedInOrder /\ TaskIsAhead
-----------------------------------------------------------------------------
(* The two chains.                                                         *)

\* Takes, step by step.
LEMMA TakesSteps ==
    /\ Len(Takes) = 13
    /\ Takes[1] = "object" /\ Takes[2] = "state" /\ Takes[3] = "clock"
    /\ Takes[4] = "sccb" /\ Takes[5] = "sensor" /\ Takes[6] = "frames"
    /\ Takes[7] = "buffer" /\ Takes[8] = "descriptors" /\ Takes[9] = "events"
    /\ Takes[10] = "pictures" /\ Takes[11] = "isr" /\ Takes[12] = "task"
    /\ Takes[13] = "framesize"
  BY DEF Takes

\* Gives, step by step.
LEMMA GivesSteps ==
    /\ Len(Gives) = 13
    /\ Gives[1] = "vsync" /\ Gives[2] = "dma" /\ Gives[3] = "task"
    /\ Gives[4] = "events" /\ Gives[5] = "pictures" /\ Gives[6] = "descriptors"
    /\ Gives[7] = "buffer" /\ Gives[8] = "frames" /\ Gives[9] = "isr"
    /\ Gives[10] = "object" /\ Gives[11] = "clock" /\ Gives[12] = "sccb"
    /\ Gives[13] = "state"
  BY DEF Gives, CamStop

\* What can be held, and what is needed of it.
LEMMA ThingsAre ==
    /\ Things = {"object", "state", "clock", "sccb", "frames", "buffer", "descriptors",
                 "events", "pictures", "isr", "task"}
    /\ Needed = Things \ Unchecked
<1>1. \A x \in {Takes[k] : k \in 1..13} : x \in
          {"object", "state", "clock", "sccb", "sensor", "frames", "buffer",
           "descriptors", "events", "pictures", "isr", "task", "framesize"}
  <2>. SUFFICES ASSUME NEW k \in 1..13
                PROVE  Takes[k] \in {"object", "state", "clock", "sccb", "sensor", "frames",
                   "buffer", "descriptors", "events", "pictures", "isr", "task", "framesize"}
    OBVIOUS
  <2>. k = 1 \/ k = 2 \/ k = 3 \/ k = 4 \/ k = 5 \/ k = 6 \/ k = 7 \/ k = 8 \/ k = 9
       \/ k = 10 \/ k = 11 \/ k = 12 \/ k = 13
    OBVIOUS
  <2>. QED  BY TakesSteps
<1>2. /\ "object" \in {Takes[k] : k \in 1..13} /\ "state" \in {Takes[k] : k \in 1..13}
      /\ "clock" \in {Takes[k] : k \in 1..13} /\ "sccb" \in {Takes[k] : k \in 1..13}
      /\ "frames" \in {Takes[k] : k \in 1..13} /\ "buffer" \in {Takes[k] : k \in 1..13}
      /\ "descriptors" \in {Takes[k] : k \in 1..13}
      /\ "events" \in {Takes[k] : k \in 1..13}
      /\ "pictures" \in {Takes[k] : k \in 1..13}
      /\ "isr" \in {Takes[k] : k \in 1..13} /\ "task" \in {Takes[k] : k \in 1..13}
  BY TakesSteps
<1>3. DOMAIN Takes = 1..13
  BY DEF Takes
<1>4. Things = {"object", "state", "clock", "sccb", "frames", "buffer", "descriptors",
                "events", "pictures", "isr", "task"}
  BY <1>1, <1>2 DEF Things, Checks
<1>5. Needed = Things \ Unchecked
  BY <1>3 DEF Needed, Things
<1>. QED  BY <1>4, <1>5

\* Nothing is taken twice.
LEMMA TakenOnce ==
    ASSUME NEW j \in 1..13, NEW k \in 1..13, Takes[j] = Takes[k]
    PROVE  j = k
<1>1. \A i \in 1..13 : i = 1 \/ i = 2 \/ i = 3 \/ i = 4 \/ i = 5 \/ i = 6 \/ i = 7 \/ i = 8
                       \/ i = 9 \/ i = 10 \/ i = 11 \/ i = 12 \/ i = 13
  OBVIOUS
<1>. QED  BY <1>1, TakesSteps

\* Whatever can be held is given back.
LEMMA GivenBack ==
    ASSUME NEW x \in Things
    PROVE  \E k \in 3..13 : Gives[k] = x
  BY ThingsAre, GivesSteps
-----------------------------------------------------------------------------
(* What the caller holds, on any core.                                     *)

\* The types, for every step.
LEMMA LifecycleTypeStep ==
    ASSUME OrderInv, [LifecycleNext]_lifecycleVars
    PROVE  LifecycleTypeOK'
<1>. USE TakesSteps, GivesSteps DEF OrderInv, LifecycleTypeOK, Phases
<1>1. CASE InitCalled
  BY <1>1 DEF InitCalled, captureVars
<1>2. CASE Take
  <2>1. at \in 1..13 /\ {Takes[at]} \ Checks \subseteq Things
    BY <1>2 DEF Take, Things
  <2>. QED  BY <1>2, <2>1 DEF Take, captureVars
<1>3. CASE TakeUnchecked
  BY <1>3 DEF TakeUnchecked, captureVars
<1>4. CASE Fail
  <2>1. phase' \in Phases
    BY <1>4 DEF Fail, GiveUp
  <2>2. held' \subseteq Things
    BY <1>4 DEF Fail
  <2>. QED  BY <1>4, <2>1, <2>2 DEF Fail, captureVars
<1>5. CASE InitReturns
  BY <1>5 DEF InitReturns
<1>6. CASE DeinitCalled
  BY <1>6 DEF DeinitCalled, captureVars
<1>7. CASE Give
  <2>0. at' = at + 1 /\ at <= 13 /\ held' = held \ {Gives[at]}
        /\ camEvents' \in {{}, camEvents}
    BY <1>7 DEF Give
  <2>1. at' \in 1..14
    BY <2>0
  <2>5. held' \subseteq Things
    BY <2>0
  <2>6. camEvents' \subseteq {"vsync", "eof"}
    BY <2>0
  <2>2. vsyncOn' \in BOOLEAN
    BY <1>7, Zenon DEF Give
  <2>3. dmaOn' \in BOOLEAN
    BY <1>7, Zenon DEF Give
  <2>4. capturing' \in BOOLEAN
    BY <1>7, Zenon DEF Give
  <2>. QED  BY <1>7, <2>1, <2>2, <2>3, <2>4, <2>5, <2>6 DEF Give
<1>8. CASE DeinitReturns
  BY <1>8 DEF DeinitReturns, captureVars
<1>9. CASE VsyncIsr \/ DmaIsr
  BY <1>9 DEF VsyncIsr, DmaIsr, callerVars
<1>10. CASE TaskVsync
  BY <1>10 DEF TaskVsync, callerVars
<1>11. CASE TaskEof
  <2>1. dmaOn' \in BOOLEAN /\ capturing' \in BOOLEAN
    BY <1>11 DEF TaskEof
  <2>. QED  BY <1>11, <2>1 DEF TaskEof, callerVars
<1>12. CASE UNCHANGED lifecycleVars
  BY <1>12 DEF lifecycleVars, callerVars, captureVars
<1>. QED
  BY <1>1, <1>2, <1>3, <1>4, <1>5, <1>6, <1>7, <1>8, <1>9, <1>10, <1>11, <1>12
     DEF LifecycleNext

\* Every step keeps the order: a failure is followed by the teardown, which misses
\* nothing that was taken, and the failure of the first step has nothing to free.
LEMMA OrderStep ==
    ASSUME OrderInv, [LifecycleNext]_lifecycleVars
    PROVE  OrderInv'
<1>. USE DEF OrderInv
<1>0. LifecycleTypeOK'
  BY LifecycleTypeStep
<1>. SUFFICES TakenInOrder' /\ GivenInOrder' /\ AllOrNothing'
  BY <1>0
<1>1. CASE InitCalled
  BY <1>1, ThingsAre DEF InitCalled, TakenInOrder, GivenInOrder, AllOrNothing
<1>2. CASE Take
  <2>1. at \in 1..13 /\ phase = "init" /\ phase' = "init" /\ at' = at + 1
    BY <1>2, TakesSteps DEF Take, LifecycleTypeOK
  <2>2. ASSUME NEW k \in 1..13, Takes[k] \in held'
        PROVE  k < at'
    <3>1. Takes[k] \in held \/ Takes[k] = Takes[at]
      BY <1>2, <2>2 DEF Take
    <3>. QED  BY <3>1, <2>1, TakenOnce DEF TakenInOrder
  <2>3. ASSUME NEW k \in 1..13, k < at', Takes[k] \notin Checks \cup Unchecked
        PROVE  Takes[k] \in held'
    <3>1. k < at \/ k = at
      BY <2>1, <2>3
    <3>. QED  BY <1>2, <2>1, <2>3, <3>1 DEF Take, TakenInOrder
  <2>. QED  BY <1>2, <2>1, <2>2, <2>3 DEF Take, TakenInOrder, GivenInOrder, AllOrNothing
<1>3. CASE TakeUnchecked
  <2>1. at \in 1..13 /\ phase = "init" /\ phase' = "init" /\ at' = at + 1 /\ held' = held
    BY <1>3, TakesSteps DEF TakeUnchecked, LifecycleTypeOK
  <2>2. ASSUME NEW k \in 1..13, k < at', Takes[k] \notin Checks \cup Unchecked
        PROVE  Takes[k] \in held'
    <3>1. k < at
      BY <1>3, <2>1, <2>2 DEF TakeUnchecked
    <3>. QED  BY <2>1, <2>2, <3>1 DEF TakenInOrder
  <2>. QED  BY <1>3, <2>1, <2>2
            DEF TakeUnchecked, TakenInOrder, GivenInOrder, AllOrNothing
<1>4. CASE Fail
  <2>1. at \in 1..13 /\ phase = "init" /\ at' = 1 /\ outcome' = "failed"
    BY <1>4, TakesSteps DEF Fail, LifecycleTypeOK
  <2>2. held' \subseteq held
    BY <1>4 DEF Fail
  <2>3. CASE Takes[at] = "object"
    <3>1. at = 1 /\ phase' = "idle"
      BY <1>4, <2>1, <2>3, TakesSteps, TakenOnce DEF Fail, GiveUp
    <3>2. held' = {}
      <4>. SUFFICES ASSUME NEW x \in held PROVE FALSE
        BY <2>2
      <4>1. PICK k \in 1..13 : Takes[k] = x
        BY DEF LifecycleTypeOK, Things
      <4>. QED  BY <2>1, <3>1, <4>1 DEF TakenInOrder
    <3>. QED  BY <2>1, <3>1, <3>2 DEF TakenInOrder, GivenInOrder, AllOrNothing
  <2>4. CASE Takes[at] # "object"
    <3>1. phase' = "deinit"
      BY <1>4, <2>4 DEF Fail, GiveUp
    <3>2. ASSUME "task" \in held'
          PROVE  {"object", "events", "pictures", "frames"} \subseteq held'
      <4>1. "task" \in held /\ at = 13
        BY <2>1, <2>2, <3>2, TakesSteps DEF TakenInOrder
      <4>2. held' = held
        BY <1>4, <4>1, TakesSteps DEF Fail
      <4>3. /\ Takes[1] \in held /\ Takes[9] \in held
            /\ Takes[10] \in held /\ Takes[6] \in held
        BY <2>1, <4>1, TakesSteps DEF TakenInOrder, Checks, Unchecked
      <4>. QED  BY <4>2, <4>3, TakesSteps
    <3>. QED  BY <2>1, <3>1, <3>2 DEF TakenInOrder, GivenInOrder, AllOrNothing
  <2>. QED  BY <2>3, <2>4
<1>5. CASE InitReturns
  <2>1. at = 14 /\ phase = "init" /\ phase' = "idle" /\ outcome' = "ok" /\ held' = held
    BY <1>5, TakesSteps DEF InitReturns, LifecycleTypeOK
  <2>2. ASSUME NEW x \in Needed PROVE x \in held'
    <3>1. PICK k \in 1..13 : Takes[k] = x /\ x \notin Checks \cup Unchecked
      BY ThingsAre DEF Things
    <3>. QED  BY <2>1, <3>1 DEF TakenInOrder
  <2>. QED  BY <2>1, <2>2 DEF TakenInOrder, GivenInOrder, AllOrNothing
<1>6. CASE DeinitCalled
  <2>1. phase = "idle" /\ outcome = "ok" /\ phase' = "deinit" /\ at' = 1
        /\ outcome' = "gone" /\ held' = held
    BY <1>6 DEF DeinitCalled
  <2>2. {"object", "events", "pictures", "frames"} \subseteq held
    BY <2>1, ThingsAre DEF AllOrNothing, Unchecked
  <2>. QED  BY <2>1, <2>2 DEF TakenInOrder, GivenInOrder, AllOrNothing
<1>7. CASE Give
  <2>1. /\ at \in 1..13 /\ phase = "deinit" /\ phase' = "deinit" /\ at' = at + 1
        /\ held' = held \ {Gives[at]} /\ outcome' = outcome
    BY <1>7, GivesSteps DEF Give, LifecycleTypeOK
  <2>2. ASSUME NEW k \in 1..13, k < at' PROVE Gives[k] \notin held'
    <3>1. k < at \/ k = at
      BY <2>1, <2>2
    <3>. QED  BY <2>1, <3>1 DEF GivenInOrder
  <2>3. ASSUME "task" \in held'
        PROVE  {"object", "events", "pictures", "frames"} \subseteq held'
    <3>1. at < 3
      BY <2>1, <2>2, <2>3, GivesSteps
    <3>2. Gives[at] \in {"vsync", "dma"}
      BY <2>1, <3>1, GivesSteps
    <3>. QED  BY <2>1, <2>3, <3>2 DEF GivenInOrder
  <2>. QED  BY <2>1, <2>2, <2>3 DEF TakenInOrder, GivenInOrder, AllOrNothing
<1>8. CASE DeinitReturns
  <2>1. at = 14 /\ phase = "deinit" /\ phase' = "idle" /\ outcome' = outcome /\ held' = held
    BY <1>8, GivesSteps DEF DeinitReturns, LifecycleTypeOK
  <2>2. held = {}
    <3>. SUFFICES ASSUME NEW x \in held PROVE FALSE
      OBVIOUS
    <3>1. PICK k \in 3..13 : Gives[k] = x
      BY GivenBack DEF LifecycleTypeOK
    <3>. QED  BY <2>1, <3>1 DEF GivenInOrder
  <2>. QED  BY <2>1, <2>2 DEF TakenInOrder, GivenInOrder, AllOrNothing
<1>9. CASE VsyncIsr \/ DmaIsr \/ TaskVsync \/ TaskEof \/ UNCHANGED lifecycleVars
  <2>1. UNCHANGED callerVars
    BY <1>9 DEF VsyncIsr, DmaIsr, TaskVsync, TaskEof, lifecycleVars
  <2>. QED  BY <2>1 DEF callerVars, TakenInOrder, GivenInOrder, AllOrNothing
<1>. QED
  BY <1>1, <1>2, <1>3, <1>4, <1>5, <1>6, <1>7, <1>8, <1>9 DEF LifecycleNext

\* OrderInv is invariant, whichever core cam_task runs on.
THEOREM OrderInvTheorem == LifecycleSpec => []OrderInv
<1>1. LifecycleInit => OrderInv
  <2>0. LifecycleInit => vsyncOn \in BOOLEAN /\ dmaOn \in BOOLEAN /\ capturing \in BOOLEAN
    BY Zenon DEF LifecycleInit
  <2>1. LifecycleInit => LifecycleTypeOK
    BY <2>0 DEF LifecycleInit, LifecycleTypeOK, Phases
  <2>2. LifecycleInit => TakenInOrder /\ GivenInOrder
    BY DEF LifecycleInit, TakenInOrder, GivenInOrder
  <2>3. LifecycleInit => AllOrNothing
    BY DEF LifecycleInit, AllOrNothing
  <2>. QED  BY <2>1, <2>2, <2>3 DEF OrderInv
<1>2. OrderInv /\ [LifecycleNext]_lifecycleVars => OrderInv'
  BY OrderStep
<1>. QED  BY <1>1, <1>2, PTL DEF LifecycleSpec

\* Wherever esp_camera_init fails, esp_camera_deinit leaves nothing of it behind,
\* and what returned ESP_OK lacks nothing it needs.
THEOREM AllOrNothingTheorem == LifecycleSpec => []AllOrNothing
<1>1. OrderInv => AllOrNothing
  BY DEF OrderInv
<1>. QED  BY <1>1, OrderInvTheorem, PTL
-----------------------------------------------------------------------------
(* The interrupts and cam_task, on the caller's core.                      *)

\* A camera that is complete has what the interrupts and cam_task use.
LEMMA NeededHasAll ==
    {"object", "events", "pictures", "frames", "buffer", "descriptors"} \subseteq Needed
  BY ThingsAre DEF Unchecked

\* Every step of the caller: cam_task has handled what was sent before it.
LEMMA CallerStep ==
    ASSUME SameCore = TRUE, SameCoreInv, OrderInv',
           InitCalled \/ Take \/ TakeUnchecked \/ Fail \/ InitReturns
           \/ DeinitCalled \/ Give \/ DeinitReturns
    PROVE  QuietOutside' /\ StoppedInOrder' /\ TaskIsAhead'
<1>. USE DEF SameCoreInv, OrderInv
<1>1. CASE InitCalled
  <2>1. /\ phase = "idle" /\ outcome # "ok" /\ phase' = "init"
        /\ vsyncOn' = vsyncOn /\ dmaOn' = dmaOn /\ camEvents' = camEvents
    BY <1>1 DEF InitCalled, captureVars
  <2>. QED  BY <2>1 DEF QuietOutside, Quiet, StoppedInOrder, TaskIsAhead
<1>2. CASE Take \/ TakeUnchecked
  <2>1. /\ phase = "init" /\ phase' = "init"
        /\ vsyncOn' = vsyncOn /\ dmaOn' = dmaOn /\ camEvents' = camEvents
    BY <1>2 DEF Take, TakeUnchecked, captureVars
  <2>. QED  BY <2>1 DEF QuietOutside, Quiet, StoppedInOrder, TaskIsAhead
<1>3. CASE Fail
  <2>1. /\ phase = "init" /\ phase' \in {"idle", "deinit"} /\ at' = 1 /\ outcome' = "failed"
        /\ vsyncOn' = vsyncOn /\ dmaOn' = dmaOn /\ camEvents' = camEvents
    BY <1>3 DEF Fail, GiveUp, captureVars
  <2>2. ~vsyncOn /\ ~dmaOn /\ camEvents = {}
    BY <2>1 DEF QuietOutside, Quiet
  <2>. QED  BY <2>1, <2>2 DEF QuietOutside, Quiet, StoppedInOrder, TaskIsAhead
<1>4. CASE InitReturns
  <2>1. phase' = "idle" /\ outcome' = "ok"
    BY <1>4 DEF InitReturns
  <2>. QED  BY <2>1 DEF QuietOutside, StoppedInOrder, TaskIsAhead
<1>5. CASE DeinitCalled
  <2>1. /\ phase = "idle" /\ outcome = "ok" /\ phase' = "deinit" /\ at' = 1 /\ held' = held
    BY <1>5 DEF DeinitCalled
  <2>2. Needed \subseteq held
    BY <2>1 DEF AllOrNothing
  <2>. QED  BY <2>1, <2>2 DEF QuietOutside, StoppedInOrder, TaskIsAhead
<1>6. CASE Give
  <2>1. /\ at \in 1..13 /\ phase = "deinit" /\ phase' = "deinit" /\ at' = at + 1
        /\ held' = held \ {Gives[at]}
        /\ camEvents' = IF Gives[at] = "events" THEN {} ELSE camEvents
    BY <1>6, GivesSteps DEF Give, LifecycleTypeOK
  <2>2. (vsyncOn' => vsyncOn /\ Gives[at] # "vsync") /\ (dmaOn' => dmaOn /\ Gives[at] # "dma")
    BY <1>6, Zenon DEF Give
  <2>3. ~vsyncOn'
    BY <2>1, <2>2, GivesSteps DEF StoppedInOrder
  <2>4. dmaOn' => at = 1 /\ Needed \subseteq held
    BY <2>1, <2>2, GivesSteps DEF StoppedInOrder
  <2>5. "task" \in held => camEvents = {}
    BY <1>6 DEF Give, TaskWaits
  <2>6. QuietOutside'
    <3>1. ASSUME at' > 4 PROVE camEvents' = {}
      <4>1. at = 4 \/ at > 4
        BY <2>1, <3>1
      <4>2. CASE at = 4
        BY <2>1, <4>2, GivesSteps
      <4>3. CASE at > 4
        BY <2>1, <4>3 DEF QuietOutside
      <4>. QED  BY <4>1, <4>2, <4>3
    <3>. QED  BY <2>1, <3>1 DEF QuietOutside
  <2>7. StoppedInOrder'
    <3>1. ASSUME at = 1 PROVE Needed \subseteq held => Needed \subseteq held'
      <4>1. "vsync" \notin Needed
        BY ThingsAre
      <4>. QED  BY <2>1, <3>1, <4>1, GivesSteps
    <3>2. dmaOn' => at' <= 2 /\ Needed \subseteq held'
      BY <2>1, <2>4, <3>1
    <3>3. at' <= 2 /\ camEvents' # {} => Needed \subseteq held'
      <4>1. SUFFICES ASSUME at' <= 2, camEvents' # {} PROVE Needed \subseteq held'
        OBVIOUS
      <4>2. at = 1 /\ camEvents # {}
        BY <2>1, <4>1
      <4>. QED  BY <2>1, <3>1, <4>2 DEF StoppedInOrder
    <3>. QED  BY <2>1, <2>3, <3>2, <3>3 DEF StoppedInOrder
  <2>8. TaskIsAhead'
    BY <2>1, <2>5 DEF TaskIsAhead
  <2>. QED  BY <2>6, <2>7, <2>8
<1>7. CASE DeinitReturns
  <2>1. /\ at = 14 /\ phase = "deinit" /\ phase' = "idle" /\ outcome' = outcome
        /\ vsyncOn' = vsyncOn /\ dmaOn' = dmaOn /\ camEvents' = camEvents
    BY <1>7, GivesSteps DEF DeinitReturns, LifecycleTypeOK, captureVars
  <2>2. ~vsyncOn /\ ~dmaOn /\ camEvents = {}
    BY <2>1 DEF QuietOutside, StoppedInOrder
  <2>. QED  BY <2>1, <2>2 DEF QuietOutside, Quiet, StoppedInOrder, TaskIsAhead
<1>. QED  BY <1>1, <1>2, <1>3, <1>4, <1>5, <1>6, <1>7

\* Every step of the interrupts and of cam_task: a VSYNC that starts the DMA was sent
\* while the camera was complete.
LEMMA MeanwhileStep ==
    ASSUME SameCoreInv, VsyncIsr \/ DmaIsr \/ TaskVsync \/ TaskEof
    PROVE  QuietOutside' /\ StoppedInOrder' /\ TaskIsAhead'
<1>. USE DEF SameCoreInv, OrderInv
<1>0. held' = held /\ phase' = phase /\ at' = at /\ outcome' = outcome /\ vsyncOn' = vsyncOn
  BY DEF VsyncIsr, DmaIsr, TaskVsync, TaskEof, callerVars
<1>1. CASE VsyncIsr
  <2>1. vsyncOn /\ camEvents' = camEvents \cup {"vsync"} /\ dmaOn' = dmaOn
    BY <1>1 DEF VsyncIsr
  <2>2. phase = "deinit" => at = 1 /\ Needed \subseteq held
    BY <2>1 DEF StoppedInOrder
  <2>3. (phase = "idle" => outcome = "ok") /\ phase # "init"
    BY <2>1 DEF QuietOutside, Quiet
  <2>. QED  BY <1>0, <2>1, <2>2, <2>3 DEF QuietOutside, StoppedInOrder, TaskIsAhead
<1>2. CASE DmaIsr
  <2>1. dmaOn /\ camEvents' = camEvents \cup {"eof"} /\ dmaOn' = dmaOn
    BY <1>2 DEF DmaIsr
  <2>2. phase = "deinit" => at <= 2 /\ Needed \subseteq held
    BY <2>1 DEF StoppedInOrder
  <2>3. (phase = "idle" => outcome = "ok") /\ phase # "init"
    BY <2>1 DEF QuietOutside, Quiet
  <2>4. phase = "deinit" => at \in 1..2
    BY <2>2 DEF LifecycleTypeOK
  <2>. QED  BY <1>0, <2>1, <2>2, <2>3, <2>4 DEF QuietOutside, StoppedInOrder, TaskIsAhead
<1>3. CASE TaskVsync
  <2>1. "task" \in held /\ "vsync" \in camEvents /\ camEvents' = camEvents \ {"vsync"}
    BY <1>3 DEF TaskVsync
  <2>2. phase = "deinit" => at = 1
    BY <2>1 DEF TaskIsAhead, LifecycleTypeOK
  <2>3. phase = "deinit" => Needed \subseteq held
    BY <2>1, <2>2 DEF StoppedInOrder
  <2>4. (phase = "idle" => outcome = "ok") /\ phase # "init"
    BY <2>1 DEF QuietOutside, Quiet
  <2>. QED  BY <1>0, <2>1, <2>2, <2>3, <2>4 DEF QuietOutside, StoppedInOrder, TaskIsAhead
<1>4. CASE TaskEof
  <2>1. /\ "eof" \in camEvents /\ camEvents' = camEvents \ {"eof"}
        /\ dmaOn' => dmaOn
    BY <1>4 DEF TaskEof
  <2>4. (phase = "idle" => outcome = "ok") /\ phase # "init"
    BY <2>1 DEF QuietOutside, Quiet
  <2>. QED  BY <1>0, <2>1, <2>4 DEF QuietOutside, StoppedInOrder, TaskIsAhead
<1>. QED  BY <1>1, <1>2, <1>3, <1>4

\* SameCoreInv is invariant when cam_task runs on the caller's core.
THEOREM SameCoreTheorem ==
    ASSUME SameCore = TRUE
    PROVE  LifecycleSpec => []SameCoreInv
<1>1. LifecycleInit => QuietOutside /\ StoppedInOrder /\ TaskIsAhead
  BY DEF LifecycleInit, QuietOutside, Quiet, StoppedInOrder, TaskIsAhead
<1>2. OrderInv /\ OrderInv' /\ QuietOutside /\ StoppedInOrder /\ TaskIsAhead
        /\ [LifecycleNext]_lifecycleVars
      => (QuietOutside /\ StoppedInOrder /\ TaskIsAhead)'
  <2>. SUFFICES ASSUME SameCoreInv, OrderInv', [LifecycleNext]_lifecycleVars
                PROVE  (QuietOutside /\ StoppedInOrder /\ TaskIsAhead)'
    BY DEF SameCoreInv
  <2>1. CASE UNCHANGED lifecycleVars
    BY <2>1 DEF SameCoreInv, lifecycleVars, callerVars, captureVars, QuietOutside, Quiet,
                StoppedInOrder, TaskIsAhead
  <2>2. CASE LifecycleNext
    BY <2>2, CallerStep, MeanwhileStep DEF LifecycleNext
  <2>. QED  BY <2>1, <2>2
<1>3. LifecycleSpec => [](QuietOutside /\ StoppedInOrder /\ TaskIsAhead)
  BY <1>1, <1>2, OrderInvTheorem, PTL DEF LifecycleSpec
<1>4. OrderInv /\ (QuietOutside /\ StoppedInOrder /\ TaskIsAhead) => SameCoreInv
  BY DEF SameCoreInv
<1>. QED  BY <1>3, <1>4, OrderInvTheorem, PTL

\* With cam_task on the caller's core nothing is freed under those who use it: the DMA
\* has its buffer, the interrupts their queue and cam_task its queues and frames.
THEOREM FreedIsUnusedTheorem ==
    ASSUME SameCore = TRUE
    PROVE  LifecycleSpec => []FreedIsUnused
<1>1. ASSUME SameCoreInv PROVE FreedIsUnused
  <2>. USE <1>1 DEF SameCoreInv, OrderInv
  <2>1. vsyncOn \/ dmaOn => Needed \subseteq held
    BY DEF LifecycleTypeOK, Phases, QuietOutside, Quiet, StoppedInOrder, AllOrNothing
  <2>2. "task" \in held => {"object", "events", "pictures", "frames"} \subseteq held
    <3>. SUFFICES ASSUME "task" \in held
                  PROVE  {"object", "events", "pictures", "frames"} \subseteq held
      OBVIOUS
    <3>1. CASE phase = "idle"
      BY <3>1, NeededHasAll DEF AllOrNothing
    <3>2. CASE phase = "deinit"
      BY <3>2 DEF GivenInOrder
    <3>3. CASE phase = "init"
      <4>1. at > 12
        BY <3>3, TakesSteps DEF TakenInOrder
      <4>. QED  BY <3>3, <4>1, TakesSteps DEF TakenInOrder, LifecycleTypeOK, Checks, Unchecked
    <3>. QED  BY <3>1, <3>2, <3>3 DEF LifecycleTypeOK, Phases
  <2>. QED  BY <2>1, <2>2, NeededHasAll DEF FreedIsUnused
<1>. QED  BY <1>1, SameCoreTheorem, PTL
=============================================================================
