------------------------------ MODULE AppProofs ------------------------------
(***************************************************************************)
(* Proofs about the start of the board: Wifi and App, and the calibration  *)
(* of the radio, Phy.  A failure that wifi_init reports is final           *)
(* (FailureIsFinal), no handler outlives the event group (HandlerHasGroup),*)
(* and the tasks run only where a camera was found and the network joined  *)
(* (TasksFollowBoot); all of them through any number of reboots, whatever  *)
(* MaxRetryCount is.                                                       *)
(*                                                                         *)
(* WifiInv tells three histories apart.  While no bit is set the retries   *)
(* that the handler counts follow the refusals that the driver counts, one *)
(* pending event at most between them.  Then one of two bits is first, and *)
(* decides: after "fail" the station is offline and nothing is pending, so *)
(* nothing can happen any more; after "connected" whatever app_main returns*)
(* from its wait with contains it, and the station stays online or was     *)
(* dropped.                                                                *)
(*                                                                         *)
(* Phy is at the end, for every number of boards, versions, users and      *)
(* restarts.  Three invariants are inductive: SessionInv says how far the  *)
(* caller of esp_phy_enable is; FlashInv that the three entries in flash   *)
(* are from boards and versions in the order in which they were written,   *)
(* which only a board or a version that comes back can break; and RadioInv *)
(* that the count of the radio's users is theirs.                          *)
(***************************************************************************)
EXTENDS App, Phy, TLAPS, FiniteSetTheorems, SequenceTheorems

\* What is registered, and whether the group lives, follows app_main.
MainInOrder ==
    /\ mainPc \in {"start", "wait", "blocked", "unregister ip", "unregister wifi",
                   "delete", "done"}
    /\ mainPc \in {"start", "delete", "done"} => registered = {}
    /\ mainPc \in {"wait", "blocked", "unregister ip"} => registered = {"wifi", "ip"}
    /\ mainPc = "unregister wifi" => registered = {"wifi"}
    /\ mainPc # "done" => group = "live"

\* app_main goes on when it has seen a bit, and is not left waiting for one that is set.
WaitedInOrder ==
    /\ seen = {} => mainPc \in {"start", "wait", "blocked"} /\ status = "none"
    /\ mainPc \in {"start", "wait"} => seen = {}
    /\ mainPc = "blocked" /\ seen = {} => bits = {}
    /\ status # "none" => status = Result

\* The attempts before the first bit, and the one event that may be pending; two when
\* the access point drops a station whose address is not yet handled.
Stopped == mainPc = "start" /\ station = "stopped" /\ posted = <<>>
              /\ refused = 0 /\ retryNum = 0
Started == station = "started" /\ posted = <<"sta start">> /\ refused = 0 /\ retryNum = 0
Connecting == station = "connecting" /\ posted = <<>> /\ refused = retryNum
Refused == station = "offline" /\ posted = <<"disconnected">> /\ refused = retryNum + 1
Arriving == \/ station = "online" /\ posted = <<"got ip">>
            \/ /\ station = "offline" /\ posted = <<"got ip", "disconnected">>
               /\ drops > 0

Trying ==
    /\ bits = {} /\ seen = {}
    /\ retryNum \in 0..MaxRetryCount
    /\ \/ Stopped /\ drops = 0
       \/ mainPc # "start" /\ drops = 0 /\ (Started \/ Connecting \/ Refused)
       \/ mainPc # "start" /\ Arriving

Failed ==
    /\ bits = {"fail"} /\ seen \in {{}, {"fail"}} /\ mainPc # "start"
    /\ refused = MaxRetryCount + 1 /\ drops = 0 /\ station = "offline" /\ posted = <<>>

\* A station that is not online was: no event waits that could take it off.
Stays == drops > 0 \/ (station = "online" /\ posted = <<>>)

Joined ==
    /\ "connected" \in bits /\ (seen = {} \/ "connected" \in seen) /\ mainPc # "start"
    /\ Stays

WifiInv ==
    /\ MainInOrder /\ WaitedInOrder /\ (Trying \/ Failed \/ Joined)
    /\ drops \in Nat

\* app_main has passed what its tasks need.
BootInOrder ==
    /\ appPc \in {"camera", "server", "sync", "tasks", "running"} => status = "success"
    /\ appPc \in {"server", "sync", "tasks", "running"} => camera
    /\ tasks # {} => appPc \in {"tasks", "running"}
-----------------------------------------------------------------------------
(* The queue of events, of which it holds two at most before the first bit.*)

LEMMA OneEvent ==
    ASSUME NEW e
    PROVE  Append(<<>>, e) = <<e>> /\ Head(<<e>>) = e /\ Tail(<<e>>) = <<>>
  OBVIOUS

LEMMA TwoEvents ==
    ASSUME NEW e, NEW f
    PROVE  Append(<<e>>, f) = <<e, f>> /\ Head(<<e, f>>) = e
<1>1. Append(<<e>>, f) \in Seq({e, f}) /\ <<e, f>> \in Seq({e, f})
  OBVIOUS
<1>2. Len(Append(<<e>>, f)) = 2 /\ Append(<<e>>, f)[1] = e /\ Append(<<e>>, f)[2] = f
  OBVIOUS
<1>3. Len(<<e, f>>) = 2 /\ <<e, f>>[1] = e /\ <<e, f>>[2] = f
  OBVIOUS
<1>4. \A i \in 1..2 : Append(<<e>>, f)[i] = <<e, f>>[i]
  <2>1. \A i \in 1..2 : i = 1 \/ i = 2
    OBVIOUS
  <2>. QED  BY <1>2, <1>3, <2>1
<1>5. Append(<<e>>, f) = <<e, f>>
  BY <1>1, <1>2, <1>3, <1>4, SeqEqual
<1>. QED  BY <1>5

LEMMA OtherEvents ==
    ASSUME NEW e, NEW f, NEW g
    PROVE  <<e>> # <<f, g>>
<1>1. <<e>> \in Seq({e, f, g}) /\ <<f, g>> \in Seq({e, f, g})
  OBVIOUS
<1>2. Len(<<e>>) = 1 /\ Len(<<f, g>>) = 2
  OBVIOUS
<1>. QED  BY <1>1, <1>2

-----------------------------------------------------------------------------
(* wifi_init and the handler.                                              *)

\* A step of app_main in wifi_init.
LEMMA MainStep ==
    ASSUME WifiInv, Main
    PROVE  WifiInv'
<1>. USE DEF WifiInv
<1>1. CASE StartWifi
  <2>1. /\ mainPc = "start" /\ mainPc' = "wait" /\ registered' = {"wifi", "ip"}
        /\ station' = "started" /\ posted' = Append(posted, "sta start")
        /\ seen' = seen /\ status' = status /\ group' = group /\ bits' = bits
        /\ retryNum' = retryNum /\ refused' = refused /\ drops' = drops
    BY <1>1 DEF StartWifi
  <2>2. bits = {} /\ seen = {} /\ Stopped /\ drops = 0 /\ retryNum \in 0..MaxRetryCount
    BY <2>1 DEF Trying, Failed, Joined
  <2>3. posted' = <<"sta start">>
    <3>1. posted = <<>>
      BY <2>2 DEF Stopped
    <3>. QED  BY <2>1, <3>1, OneEvent
  <2>4. Trying'
    BY <2>1, <2>2, <2>3 DEF Trying, Stopped, Started
  <2>5. MainInOrder' /\ WaitedInOrder'
    BY <2>1, <2>2 DEF MainInOrder, WaitedInOrder
  <2>. QED  BY <2>1, <2>4, <2>5
<1>2. CASE WaitBits
  <2>1. /\ mainPc = "wait" /\ mainPc' = "blocked" /\ seen' = bits /\ seen = {}
        /\ registered' = registered /\ status' = status /\ group' = group
    BY <1>2 DEF WaitBits, WaitedInOrder
  <2>2. /\ bits' = bits /\ retryNum' = retryNum /\ station' = station /\ posted' = posted
        /\ refused' = refused /\ drops' = drops
    BY <1>2 DEF WaitBits, stationVars
  <2>3. MainInOrder' /\ WaitedInOrder'
    BY <2>1, <2>2 DEF MainInOrder, WaitedInOrder
  <2>4. CASE Trying
    BY <2>1, <2>2, <2>3, <2>4 DEF Trying, Stopped, Started, Connecting, Refused, Arriving
  <2>5. CASE Failed
    BY <2>1, <2>2, <2>3, <2>5 DEF Failed
  <2>6. CASE Joined
    BY <2>1, <2>2, <2>3, <2>6 DEF Joined, Stays
  <2>. QED  BY <2>4, <2>5, <2>6
<1>3. CASE Conclude \/ UnregisterIp \/ UnregisterWifi \/ DeleteGroup
  <2>1. /\ seen # {} /\ mainPc # "start" /\ mainPc' # "start"
        /\ seen' = seen /\ bits' = bits /\ retryNum' = retryNum /\ station' = station
        /\ posted' = posted /\ refused' = refused /\ drops' = drops
    BY <1>3 DEF Conclude, UnregisterIp, UnregisterWifi, DeleteGroup, stationVars,
                WaitedInOrder
  <2>2. MainInOrder'
    <3>1. CASE Conclude
      BY <3>1 DEF Conclude, MainInOrder
    <3>2. CASE UnregisterIp
      BY <3>2 DEF UnregisterIp, MainInOrder
    <3>3. CASE UnregisterWifi
      BY <3>3 DEF UnregisterWifi, LastRegistration, MainInOrder
    <3>4. CASE DeleteGroup
      BY <3>4 DEF DeleteGroup, MainInOrder
    <3>. QED  BY <1>3, <3>1, <3>2, <3>3, <3>4
  <2>3. WaitedInOrder'
    <3>1. CASE Conclude
      BY <2>1, <3>1 DEF Conclude, WaitedInOrder, Result
    <3>2. CASE UnregisterIp \/ UnregisterWifi \/ DeleteGroup
      <4>1. status' = status /\ mainPc' \notin {"start", "wait", "blocked"}
        BY <3>2 DEF UnregisterIp, UnregisterWifi, DeleteGroup
      <4>. QED  BY <2>1, <4>1 DEF WaitedInOrder, Result
    <3>. QED  BY <1>3, <3>1, <3>2
  <2>4. Failed' \/ Joined'
    BY <2>1 DEF Trying, Failed, Joined, Stays
  <2>. QED  BY <2>1, <2>2, <2>3, <2>4
<1>. QED  BY <1>1, <1>2, <1>3 DEF Main

\* A handler that sets a bit wakes app_main if it waits for one.
LEMMA SetBitStep ==
    ASSUME WifiInv, NEW b, SetBit(b), mainPc' = mainPc, status' = status
    PROVE  WaitedInOrder'
<1>1. /\ bits' = bits \cup {b}
      /\ seen' = IF mainPc = "blocked" /\ seen = {} THEN bits' ELSE seen
  BY DEF SetBit
<1>2. CASE mainPc = "blocked" /\ seen = {}
  BY <1>1, <1>2 DEF WifiInv, WaitedInOrder
<1>3. CASE ~(mainPc = "blocked" /\ seen = {})
  BY <1>1, <1>3 DEF WifiInv, WaitedInOrder, Result
<1>. QED  BY <1>2, <1>3

\* A step of the event loop.  Only before the first bit does it need a closer look:
\* after "fail" nothing is pending, and after "connected" the bit stays.
LEMMA DispatchStep ==
    ASSUME WifiInv, Dispatch
    PROVE  WifiInv'
<1>. USE DEF WifiInv
<1>1. /\ mainPc' = mainPc /\ status' = status /\ registered' = registered /\ group' = group
      /\ refused' = refused /\ drops' = drops /\ posted' = Tail(posted) /\ posted # <<>>
  BY DEF Dispatch, OnStart, OnDisconnected, OnGotIp, OnNothing
<1>2. MainInOrder'
  BY <1>1 DEF MainInOrder
<1>3. \/ bits' = bits /\ seen' = seen
      \/ \E b \in {"fail", "connected"} : SetBit(b)
  BY DEF Dispatch, OnStart, OnDisconnected, OnGotIp, OnNothing
<1>4. WaitedInOrder'
  <2>1. CASE bits' = bits /\ seen' = seen
    BY <1>1, <2>1 DEF WaitedInOrder, Result
  <2>2. CASE \E b \in {"fail", "connected"} : SetBit(b)
    BY <1>1, <2>2, SetBitStep
  <2>. QED  BY <1>3, <2>1, <2>2
<1>5. CASE Joined
  <2>0. drops > 0
    BY <1>1, <1>5 DEF Joined, Stays
  <2>1. CASE bits' = bits /\ seen' = seen
    <3>1. Joined'
      BY <1>1, <2>0, <2>1, <1>5 DEF Joined, Stays
    <3>. QED  BY <1>1, <1>2, <1>4, <3>1
  <2>2. ASSUME NEW b, SetBit(b) PROVE Joined'
    BY <1>1, <1>5, <2>0, <2>2 DEF SetBit, Joined, Stays
  <2>. QED  BY <1>1, <1>2, <1>3, <1>4, <2>1, <2>2
<1>6. CASE Failed
  BY <1>1, <1>6 DEF Failed
<1>7. CASE Trying
  <2>0. mainPc # "start" /\ registered = {"wifi", "ip"}
    BY <1>1, <1>7 DEF Trying, Stopped, WaitedInOrder, MainInOrder
  <2>1. ~OnNothing
    BY <2>0 DEF OnNothing
  <2>2. CASE Started
    <3>0. posted = <<"sta start">>
      BY <2>2 DEF Started
    <3>1. Head(posted) = "sta start" /\ posted' = <<>>
      BY <1>1, <3>0, OneEvent
    <3>2. OnStart
      BY <2>1, <3>1 DEF Dispatch, OnDisconnected, OnGotIp
    <3>3. Connecting' /\ bits' = bits /\ seen' = seen /\ retryNum' = retryNum
      BY <1>1, <2>2, <3>1, <3>2 DEF OnStart, Connect, Started, Connecting
    <3>4. drops = 0 \/ Arriving
      BY <1>7, <2>0 DEF Trying, Stopped
    <3>5. drops = 0
      BY <2>2, <3>4 DEF Started, Arriving
    <3>. QED  BY <1>1, <1>2, <1>4, <1>7, <2>0, <3>3, <3>5 DEF Trying
  <2>3. CASE Connecting
    BY <1>1, <2>3 DEF Connecting
  <2>4. CASE Refused
    <3>0. posted = <<"disconnected">>
      BY <2>4 DEF Refused
    <3>1. Head(posted) = "disconnected" /\ posted' = <<>>
      BY <1>1, <3>0, OneEvent
    <3>2. OnDisconnected
      BY <2>1, <3>1 DEF Dispatch, OnStart, OnGotIp
    <3>3. drops = 0 /\ bits = {} /\ seen = {} /\ retryNum \in 0..MaxRetryCount
      BY <1>7, <2>0, <2>4 DEF Trying, Stopped, Refused, Arriving
    <3>4. CASE Retrying
      <4>1. station' = "connecting" /\ retryNum' = retryNum + 1 /\ bits' = bits /\ seen' = seen
        BY <3>2, <3>4 DEF OnDisconnected, Connect
      <4>2. retryNum' \in 0..MaxRetryCount
        BY <3>3, <3>4, <4>1, WifiAssumption DEF Retrying
      <4>. QED  BY <1>1, <1>2, <1>4, <2>0, <2>4, <3>1, <3>3, <4>1, <4>2
                DEF Trying, Refused, Connecting
    <3>5. CASE ~Retrying
      <4>1. SetBit("fail") /\ station' = station /\ retryNum' = retryNum
        BY <3>2, <3>5 DEF OnDisconnected
      <4>2. bits' = {"fail"} /\ seen' \in {{}, {"fail"}}
        BY <3>3, <4>1 DEF SetBit
      <4>3. retryNum = MaxRetryCount
        BY <3>3, <3>5, WifiAssumption DEF Retrying
      <4>. QED  BY <1>1, <1>2, <1>4, <2>0, <2>4, <3>1, <3>3, <4>1, <4>2, <4>3
                DEF Failed, Refused
    <3>. QED  BY <3>4, <3>5
  <2>5. CASE Arriving
    <3>0. posted = <<"got ip">> \/ posted = <<"got ip", "disconnected">>
      BY <2>5 DEF Arriving
    <3>1. Head(posted) = "got ip"
      BY <3>0, OneEvent, TwoEvents
    <3>2. OnGotIp
      BY <2>1, <3>1 DEF Dispatch, OnStart, OnDisconnected
    <3>3. "connected" \in bits' /\ (seen' = {} \/ "connected" \in seen')
      BY <1>7, <3>2 DEF OnGotIp, SetBit, Trying
    <3>4. Stays'
      <4>1. CASE posted = <<"got ip">>
        <5>1. posted' = <<>> /\ station = "online" /\ station' = station
          BY <1>1, <2>5, <3>2, <4>1, OneEvent, OtherEvents DEF Arriving, OnGotIp
        <5>. QED  BY <5>1 DEF Stays
      <4>2. CASE posted = <<"got ip", "disconnected">>
        <5>1. drops > 0
          BY <2>5, <4>2, OtherEvents DEF Arriving
        <5>. QED  BY <1>1, <5>1 DEF Stays
      <4>. QED  BY <3>0, <4>1, <4>2
    <3>. QED  BY <1>1, <1>2, <1>4, <2>0, <3>3, <3>4 DEF Joined
  <2>. QED  BY <1>7, <2>0, <2>2, <2>3, <2>4, <2>5 DEF Trying, Stopped
<1>. QED  BY <1>5, <1>6, <1>7

LEMMA DropsGrow ==
    ASSUME WifiInv, Station
    PROVE  drops' \in Nat /\ (drops > 0 => drops' > 0) /\ (Drop => drops' > 0)
<1>1. drops \in Nat
  BY DEF WifiInv
<1>2. drops' = drops \/ drops' = drops + 1
  BY DEF Station, Online, Refuse, Drop
<1>3. Drop => drops' = drops + 1
  BY DEF Drop
<1>. QED  BY <1>1, <1>2, <1>3

\* A step of the driver or of the access point.
LEMMA StationStep ==
    ASSUME WifiInv, Station
    PROVE  WifiInv'
<1>. USE DEF WifiInv
<1>1. /\ mainPc' = mainPc /\ seen' = seen /\ status' = status /\ registered' = registered
      /\ group' = group /\ bits' = bits /\ retryNum' = retryNum
  BY DEF Station, Online, Refuse, Drop, mainVars
<1>2. MainInOrder' /\ WaitedInOrder'
  BY <1>1 DEF MainInOrder, WaitedInOrder, Result
<1>0. drops' \in Nat /\ (drops > 0 => drops' > 0)
  BY DropsGrow
<1>3. CASE Joined
  <2>1. Stays'
    <3>1. CASE drops > 0
      BY <1>0, <3>1 DEF Stays
    <3>2. CASE ~(drops > 0)
      <4>1. station = "online"
        BY <1>3, <3>2 DEF Joined, Stays
      <4>2. Drop
        BY <4>1 DEF Station, Online, Refuse
      <4>. QED  BY <4>2, DropsGrow DEF Stays
    <3>. QED  BY <3>1, <3>2
  <2>. QED  BY <1>0, <1>1, <1>2, <1>3, <2>1 DEF Joined
<1>4. CASE Failed
  BY <1>4 DEF Failed, Station, Online, Refuse, Drop
<1>5. CASE Trying
  <2>1. CASE Online
    <3>1. station = "connecting" /\ station' = "online" /\ posted' = Append(posted, "got ip")
      BY <2>1 DEF Online
    <3>2. posted = <<>> /\ mainPc # "start"
      BY <1>5, <3>1 DEF Trying, Stopped, Started, Connecting, Refused, Arriving
    <3>3. Arriving'
      <4>1. posted' = <<"got ip">>
        BY <3>1, <3>2, OneEvent
      <4>. QED  BY <3>1, <4>1 DEF Arriving
    <3>. QED  BY <1>0, <1>1, <1>2, <1>5, <3>2, <3>3 DEF Trying
  <2>2. CASE Refuse
    <3>1. /\ station = "connecting" /\ station' = "offline" /\ refused' = refused + 1
          /\ posted' = Append(posted, "disconnected") /\ drops' = drops
      BY <2>2 DEF Refuse
    <3>2. Connecting /\ mainPc # "start" /\ drops = 0
      BY <1>5, <3>1 DEF Trying, Stopped, Started, Refused, Arriving
    <3>3. Refused'
      <4>1. posted = <<>>
        BY <3>2 DEF Connecting
      <4>2. posted' = <<"disconnected">>
        BY <3>1, <4>1, OneEvent
      <4>. QED  BY <1>1, <3>1, <3>2, <4>2 DEF Connecting, Refused
    <3>. QED  BY <1>1, <1>2, <1>5, <3>1, <3>2, <3>3 DEF Trying
  <2>3. CASE Drop
    <3>1. /\ station = "online" /\ station' = "offline"
          /\ posted' = Append(posted, "disconnected")
      BY <2>3 DEF Drop
    <3>2. posted = <<"got ip">> /\ mainPc # "start"
      BY <1>5, <3>1 DEF Trying, Stopped, Started, Connecting, Refused, Arriving
    <3>3. posted' = <<"got ip", "disconnected">>
      <4>1. Append(<<"got ip">>, "disconnected") = <<"got ip", "disconnected">>
        BY TwoEvents
      <4>. QED  BY <3>1, <3>2, <4>1
    <3>4. Arriving'
      BY <2>3, <3>1, <3>3, DropsGrow DEF Arriving
    <3>. QED  BY <1>0, <1>1, <1>2, <1>5, <3>2, <3>4 DEF Trying
  <2>. QED  BY <2>1, <2>2, <2>3 DEF Station
<1>. QED  BY <1>3, <1>4, <1>5

LEMMA WifiInit_WifiInv ==
    ASSUME Init
    PROVE  WifiInv
<1>1. Trying
  BY WifiAssumption DEF Init, Trying, Stopped
<1>2. MainInOrder /\ WaitedInOrder /\ drops \in Nat
  BY DEF Init, MainInOrder, WaitedInOrder
<1>. QED  BY <1>1, <1>2 DEF WifiInv

LEMMA WifiStutter ==
    ASSUME WifiInv, UNCHANGED vars
    PROVE  WifiInv'
<1>1. /\ mainPc' = mainPc /\ seen' = seen /\ status' = status /\ registered' = registered
      /\ group' = group /\ bits' = bits /\ retryNum' = retryNum
      /\ station' = station /\ posted' = posted /\ refused' = refused /\ drops' = drops
  BY DEF vars, mainVars, stationVars
<1>2. MainInOrder' /\ WaitedInOrder'
  BY <1>1 DEF WifiInv, MainInOrder, WaitedInOrder, Result
<1>3. Trying => Trying'
  BY <1>1 DEF Trying, Stopped, Started, Connecting, Refused, Arriving
<1>4. (Failed => Failed') /\ (Joined => Joined')
  BY <1>1 DEF Failed, Joined, Stays
<1>. QED  BY <1>1, <1>2, <1>3, <1>4 DEF WifiInv

\* WifiInv is invariant of one attempt to join the network.
THEOREM WifiInvTheorem == Spec => []WifiInv
<1>1. Init => WifiInv
  BY WifiInit_WifiInv
<1>2. WifiInv /\ [Next]_vars => WifiInv'
  BY MainStep, DispatchStep, StationStep, WifiStutter DEF Next
<1>. QED  BY <1>1, <1>2, PTL DEF Spec
-----------------------------------------------------------------------------
(* app_main.                                                               *)

\* To the network a step of the board is a step of wifi_init, of the event loop or of
\* the station, or none, or a fresh start.
LEMMA BoardStep ==
    ASSUME [AppNext]_appVars
    PROVE  Next \/ UNCHANGED vars \/ Init'
<1>1. CASE Reboot
  BY <1>1 DEF Reboot, Init
<1>2. CASE WifiInit \/ Beside
  BY <1>2 DEF WifiInit, Beside, Next
<1>3. CASE PowerOn \/ NvsInit \/ WifiReturns \/ CameraInit \/ ServerStart \/ CreateSync
           \/ CreateTask \/ RunReturns
  BY <1>3 DEF PowerOn, NvsInit, WifiReturns, CameraInit, ServerStart, CreateSync,
              CreateTask, RunReturns
<1>4. CASE UNCHANGED appVars
  BY <1>4 DEF appVars
<1>. QED  BY <1>1, <1>2, <1>3, <1>4 DEF AppNext, AppMain, Abort, PowerLost

LEMMA FreshWifi == Init' => WifiInv'
<1>1. Init => WifiInv
  BY WifiInit_WifiInv
<1>. QED  BY <1>1, PTL

\* WifiInv is invariant through reboots.
THEOREM AppWifiInvTheorem == AppSpec => []WifiInv
<1>1. AppInit => WifiInv
  BY WifiInit_WifiInv DEF AppInit
<1>2. WifiInv /\ [AppNext]_appVars => WifiInv'
  BY BoardStep, FreshWifi, MainStep, DispatchStep, StationStep, WifiStutter DEF Next
<1>. QED  BY <1>1, <1>2, PTL DEF AppSpec

\* The handler, in the task of the event loop, never writes to a deleted event group.
THEOREM HandlerHasGroupTheorem == AppSpec => []HandlerHasGroup
<1>1. WifiInv => HandlerHasGroup
  BY DEF WifiInv, MainInOrder, HandlerHasGroup
<1>. QED  BY <1>1, AppWifiInvTheorem, PTL

\* After a failure that wifi_init reported, all retries are spent and nothing is left
\* that could bring the station back, for every MAX_RETRY_COUNT.
THEOREM FailureIsFinalTheorem == AppSpec => []FailureIsFinal
<1>1. ASSUME WifiInv PROVE FailureIsFinal
  <2>. SUFFICES ASSUME status = "failed" PROVE Failed
    BY DEF FailureIsFinal, Failed
  <2>1. seen # {} /\ "connected" \notin seen
    BY <1>1 DEF WifiInv, WaitedInOrder, Result
  <2>. QED  BY <1>1, <2>1 DEF WifiInv, Trying, Joined
<1>. QED  BY <1>1, AppWifiInvTheorem, PTL

\* A step of the board keeps the order in which app_main gets what its tasks need:
\* what the network and the camera gave it is not taken back before a reboot.
LEMMA BootStep ==
    ASSUME BootInOrder, [AppNext]_appVars
    PROVE  BootInOrder'
<1>1. CASE Reboot
  BY <1>1 DEF Reboot, BootInOrder
<1>2. CASE PowerOn
  BY <1>2 DEF PowerOn, BootInOrder
<1>3. CASE NvsInit
  BY <1>3 DEF NvsInit, CheckStatus, BootInOrder
<1>4. CASE WifiInit
  BY <1>4 DEF WifiInit, bootVars, BootInOrder
<1>5. CASE WifiReturns
  <2>1. /\ appPc' \in {"camera", "stopped"} /\ appPc = "wifi" /\ tasks' = tasks
        /\ appPc' = "camera" => status' = "success"
    BY <1>5 DEF WifiReturns, CheckStatus, vars, mainVars
  <2>. QED  BY <2>1 DEF BootInOrder
<1>6. CASE CameraInit
  <2>1. /\ appPc' \in {"server", "stopped"} /\ appPc = "camera" /\ tasks' = tasks
        /\ appPc' = "server" => camera'
    BY <1>6, Zenon DEF CameraInit, CheckStatus
  <2>2. status' = status
    BY <1>6 DEF CameraInit, vars, mainVars
  <2>. QED  BY <2>1, <2>2 DEF BootInOrder
<1>7. CASE ServerStart
  BY <1>7 DEF ServerStart, BootInOrder, vars, mainVars
<1>8. CASE CreateSync
  BY <1>8 DEF CreateSync, BootInOrder, vars, mainVars
<1>9. CASE CreateTask
  BY <1>9 DEF CreateTask, BootInOrder, vars, mainVars
<1>10. CASE RunReturns
  BY <1>10 DEF RunReturns, BootInOrder, vars, mainVars
<1>11. CASE Beside
  <2>1. status' = status
    BY <1>11 DEF Beside, Dispatch, Station, Online, Refuse, Drop, mainVars
  <2>. QED  BY <1>11, <2>1 DEF Beside, bootVars, BootInOrder
<1>12. CASE UNCHANGED appVars
  BY <1>12 DEF appVars, bootVars, vars, mainVars, BootInOrder
<1>. QED
  BY <1>1, <1>2, <1>3, <1>4, <1>5, <1>6, <1>7, <1>8, <1>9, <1>10, <1>11, <1>12
     DEF AppNext, AppMain, Abort, PowerLost

\* A task runs only where a camera was found and the network joined in this boot, and
\* the station is online still or was dropped since, for any number of retries, drops
\* and reboots.
THEOREM TasksTheorem == AppSpec => []TasksFollowBoot
<1>1. AppInit => BootInOrder
  BY DEF AppInit, BootInOrder
<1>2. BootInOrder /\ [AppNext]_appVars => BootInOrder'
  BY BootStep
<1>3. ASSUME BootInOrder, WifiInv PROVE TasksFollowBoot
  <2>. SUFFICES ASSUME tasks # {} PROVE camera /\ (station = "online" \/ drops > 0)
    BY DEF TasksFollowBoot
  <2>1. status = "success" /\ camera
    BY <1>3 DEF BootInOrder
  <2>2. "connected" \in seen
    BY <1>3, <2>1 DEF WifiInv, WaitedInOrder, Result
  <2>3. Joined
    BY <1>3, <2>2 DEF WifiInv, Trying, Failed
  <2>. QED  BY <2>1, <2>3 DEF Joined, Stays
<1>. QED  BY <1>1, <1>2, <1>3, AppWifiInvTheorem, PTL DEF AppSpec

-----------------------------------------------------------------------------
(* The radio.                                                              *)

CalData == [chip : Nat, version : Nat]
Entries == [data : CalData \cup {None}, mac : Nat \cup {None}, version : Nat \cup {None}]

Writing == pc \in {"store data", "store mac", "store version"}

\* The types, and what the caller that holds the lock has done so far.
SessionInv ==
    /\ flash \in Entries /\ chip \in Nat /\ version \in Nat
    /\ pc \in {"idle", "load", "calibrate", "store data", "store mac", "store version",
               "done"}
    /\ calData \in CalData \cup {None}
    /\ pc # "idle" <=> caller # None
    /\ Writing => calData = Ours

LEMMA ChipsAreNumbers == (\A c \in Chips : c \in Nat) /\ (\A v \in Versions : v \in Nat)
<1>1. MaxChip \in Nat /\ MaxVersion \in Nat
  BY PhyAssumption
<1>2. QED BY <1>1 DEF Chips, Versions

LEMMA OursIsData ==
    ASSUME chip \in Nat, version \in Nat
    PROVE  Ours \in CalData /\ Ours # None
BY PhyAssumption DEF Ours, CalData

LEMMA SessionInit == PhyInit => SessionInv
<1> SUFFICES ASSUME PhyInit PROVE SessionInv
  OBVIOUS
<1>1. flash \in Entries
  BY DEF PhyInit, NoEntries, Entries
<1>2. chip \in Nat /\ version \in Nat
  BY DEF PhyInit
<1>3. QED BY <1>1, <1>2 DEF PhyInit, SessionInv, Writing

\* What one entry that is stored does to the flash.
LEMMA StoreEffect ==
    ASSUME SessionInv, StoreEntries
    PROVE  /\ UNCHANGED <<boardVars, radioVars, mode, calData>>
           /\ \/ flash' = flash /\ Writing /\ pc' = "done"
              \/ pc = "store data" /\ pc' = "store mac" /\ flash' = [flash EXCEPT !.data = Ours]
              \/ pc = "store mac" /\ pc' = "store version"
                   /\ flash' = [flash EXCEPT !.mac = chip]
              \/ pc = "store version" /\ pc' = "done"
                   /\ flash' = [flash EXCEPT !.version = version]
BY DEF StoreEntries, Store, SessionInv, Writing

LEMMA SessionStep == SessionInv /\ [PhyNext]_phyVars => SessionInv'
<1> SUFFICES ASSUME SessionInv, [PhyNext]_phyVars PROVE SessionInv'
  OBVIOUS
<1> USE DEF SessionInv, Writing, boardVars, radioVars
<1>0. Ours' = Ours \/ ~UNCHANGED <<chip, version>>
  BY DEF Ours
<1>1. ASSUME NEW u \in Users, EnableFirst(u) PROVE SessionInv'
  <2>1. u # None
    BY PhyAssumption
  <2>2. QED BY <1>1, <2>1 DEF EnableFirst
<1>2. ASSUME NEW u \in Users, EnableNext(u) PROVE SessionInv'
  BY <1>0, <1>2 DEF EnableNext
<1>3. ASSUME NEW u \in Users, Disable(u) PROVE SessionInv'
  BY <1>0, <1>3 DEF Disable
<1>4. CASE LoadCalData
  <2>1. flash.data \in CalData \cup {None}
    BY DEF Entries
  <2>2. QED BY <1>4, <2>1 DEF LoadCalData
<1>5. CASE Calibrate
  BY <1>0, <1>5, OursIsData DEF Calibrate
<1>6. CASE StoreEntries
  <2>1. flash' \in Entries
    BY StoreEffect, <1>6, OursIsData DEF Entries
  <2>2. QED BY <1>0, <1>6, <2>1, StoreEffect
<1>7. CASE Calibrated
  BY <1>7 DEF Calibrated
<1>8. CASE Erase
  <2>1. flash' \in Entries
    BY <1>8 DEF Erase, Entries, NoEntries
  <2>2. QED BY <1>0, <1>8, <2>1 DEF Erase
<1>9. CASE Restart
  <2>1. chip' \in Nat /\ version' \in Nat
    <3>1. /\ chip' \in Chips \/ chip' = chip
          /\ version' \in Versions \/ version' = version
      BY <1>9 DEF Restart
    <3>2. QED BY <3>1, ChipsAreNumbers
  <2>2. QED BY <1>9, <2>1 DEF Restart
<1>10. CASE UNCHANGED phyVars
  BY <1>0, <1>10 DEF phyVars
<1>11. QED BY <1>1, <1>2, <1>3, <1>4, <1>5, <1>6, <1>7, <1>8, <1>9, <1>10 DEF PhyNext

\* How far the caller of esp_phy_enable is, and that what it writes to the flash was
\* calibrated on this board by this software (phy_init.c).
THEOREM SessionTheorem == PhySpec => []SessionInv
BY SessionInit, SessionStep, PTL DEF PhySpec

-----------------------------------------------------------------------------
\* Storing new entries one by one never makes those that are there unloadable.
LEMMA StoresOverLoadable ==
    ASSUME SessionInv, [PhyNext]_phyVars,
           Loadable, ~Erase, UNCHANGED <<chip, version>>
    PROVE  Loadable'
<1>1. CASE StoreEntries
  <2>1. flash \in Entries /\ Ours # None
    BY OursIsData DEF SessionInv
  <2>2. QED BY <1>1, <2>1, StoreEffect DEF Loadable, Entries
<1>2. CASE flash' = flash
  BY <1>2 DEF Loadable
<1>3. QED BY <1>1, <1>2
          DEF PhyNext, EnableFirst, EnableNext, Disable, LoadCalData, Calibrate, Calibrated,
              Restart, phyVars

\* Once a board has its calibration in flash only erasing it, other software or
\* another board costs it a calibration: no restart does, and no write that a restart
\* cuts short (store_cal_data_to_nvs_handle).
THEOREM StaysCalibratedTheorem == PhySpec => StaysCalibrated
<1>1. SessionInv /\ [PhyNext]_phyVars
        => [Loadable /\ ~Erase /\ UNCHANGED <<chip, version>> => Loadable']_phyVars
  BY StoresOverLoadable
<1>2. QED BY <1>1, SessionTheorem, PTL DEF PhySpec, StaysCalibrated

-----------------------------------------------------------------------------
\* The entries are from boards and versions no later than the data, and the data is
\* from none later than the board and the software that run.
EntriesInOrder ==
    /\ flash.mac # None => flash.mac <= chip
    /\ flash.version # None => flash.version <= version
    /\ flash.data # None => flash.data.chip <= chip /\ flash.data.version <= version
    /\ flash.data # None /\ flash.mac # None => flash.mac <= flash.data.chip
    /\ flash.data # None /\ flash.version # None => flash.version <= flash.data.version

\* The address and the version are written by those who wrote the data, if it was not
\* erased meanwhile, and what is loaded is for this board and this software.
DataIsOurs ==
    /\ pc \in {"store mac", "store version"} => flash.data \in {None, Ours}
    /\ pc = "calibrate" /\ mode # "full" => calData = Ours

FlashInv == EntriesInOrder /\ DataIsOurs

LEMMA EntriesTyped ==
    ASSUME SessionInv
    PROVE  /\ chip \in Nat /\ version \in Nat
           /\ flash.mac # None => flash.mac \in Nat
           /\ flash.version # None => flash.version \in Nat
           /\ flash.data # None =>
                flash.data \in CalData /\ flash.data.chip \in Nat /\ flash.data.version \in Nat
BY DEF SessionInv, Entries, CalData

\* Entries that can be loaded are from one calibration.
LEMMA LoadableIsOurs ==
    ASSUME SessionInv, FlashInv, Loadable
    PROVE  flash.data = Ours
<1>1. /\ flash.data # None /\ flash.mac = chip /\ flash.version = version
      /\ chip # None /\ version # None
  BY EntriesTyped, PhyAssumption DEF Loadable
<1>2. /\ flash.data.chip <= chip /\ flash.data.version <= version
      /\ chip <= flash.data.chip /\ version <= flash.data.version
  BY <1>1 DEF FlashInv, EntriesInOrder, DataIsOurs
<1>3. flash.data.chip = chip /\ flash.data.version = version
  BY <1>1, <1>2, EntriesTyped
<1>4. QED BY <1>1, <1>3, EntriesTyped DEF CalData, Ours

LEMMA FlashInit == PhyInit => FlashInv
<1> SUFFICES ASSUME PhyInit PROVE FlashInv
  OBVIOUS
<1>1. flash.data = None /\ flash.mac = None /\ flash.version = None /\ pc = "idle"
  BY DEF PhyInit, NoEntries
<1>2. QED BY <1>1 DEF FlashInv, EntriesInOrder, DataIsOurs

\* An entry that is stored keeps the order: the board and the software that run are
\* the latest of all.
LEMMA StoreKeepsOrder ==
    ASSUME SessionInv, FlashInv, StoreEntries
    PROVE  FlashInv'
<1>1. /\ flash \in Entries /\ chip \in Nat /\ version \in Nat
      /\ Ours.chip = chip /\ Ours.version = version /\ Ours # None
      /\ chip # None /\ version # None
  BY OursIsData, PhyAssumption DEF SessionInv, Ours
<1>2. chip' = chip /\ version' = version /\ Ours' = Ours /\ mode' = mode
  BY StoreEffect DEF boardVars, Ours
<1>3. CASE flash' = flash /\ Writing /\ pc' = "done"
  BY <1>2, <1>3 DEF FlashInv, EntriesInOrder, DataIsOurs
<1>4. CASE pc = "store data" /\ pc' = "store mac" /\ flash' = [flash EXCEPT !.data = Ours]
  <2>1. flash'.data = Ours /\ flash'.mac = flash.mac /\ flash'.version = flash.version
    BY <1>1, <1>4 DEF Entries
  <2>2. DataIsOurs'
    BY <1>1, <1>2, <1>4, <2>1 DEF FlashInv, DataIsOurs
  <2>3. EntriesInOrder'
    BY <1>1, <1>2, <2>1, EntriesTyped DEF FlashInv, EntriesInOrder
  <2>4. QED BY <2>2, <2>3 DEF FlashInv
<1>5. CASE pc = "store mac" /\ pc' = "store version"
             /\ flash' = [flash EXCEPT !.mac = chip]
  <2>1. flash'.data = flash.data /\ flash'.mac = chip /\ flash'.version = flash.version
    BY <1>1, <1>5 DEF Entries
  <2>2. DataIsOurs'
    BY <1>1, <1>2, <1>5, <2>1 DEF FlashInv, DataIsOurs
  <2>3. EntriesInOrder'
    <3>1. flash.data # None => flash.data = Ours
      BY <1>5 DEF FlashInv, DataIsOurs
    <3>2. QED BY <1>1, <1>2, <2>1, <3>1, EntriesTyped DEF FlashInv, EntriesInOrder
  <2>4. QED BY <2>2, <2>3 DEF FlashInv
<1>6. CASE pc = "store version" /\ pc' = "done"
             /\ flash' = [flash EXCEPT !.version = version]
  <2>1. flash'.data = flash.data /\ flash'.mac = flash.mac /\ flash'.version = version
    BY <1>1, <1>6 DEF Entries
  <2>2. DataIsOurs'
    BY <1>1, <1>2, <1>6, <2>1 DEF FlashInv, DataIsOurs
  <2>3. EntriesInOrder'
    <3>1. flash.data # None => flash.data = Ours
      BY <1>6 DEF FlashInv, DataIsOurs
    <3>2. QED BY <1>1, <1>2, <2>1, <3>1, EntriesTyped DEF FlashInv, EntriesInOrder
  <2>4. QED BY <2>2, <2>3 DEF FlashInv
<1>7. QED BY <1>3, <1>4, <1>5, <1>6, StoreEffect

\* Without boards and versions that come back, every step keeps the order.
LEMMA FlashStep ==
    ASSUME GoesBack = FALSE, SessionInv, FlashInv, [PhyNext]_phyVars
    PROVE  FlashInv'
<1> USE DEF boardVars, radioVars
<1>1. ASSUME UNCHANGED <<flash, chip, version>>,
             pc' \in {"store mac", "store version"} => pc' = pc,
             pc' = "calibrate" => UNCHANGED <<pc, mode, calData>>
      PROVE  FlashInv'
  BY <1>1 DEF FlashInv, EntriesInOrder, DataIsOurs, Ours
<1>2. ASSUME NEW u \in Users, EnableFirst(u) \/ EnableNext(u) \/ Disable(u)
      PROVE  FlashInv'
  <2>1. UNCHANGED <<flash, chip, version, mode, calData>> /\ (pc' = pc \/ pc' = "load")
    BY <1>2 DEF EnableFirst, EnableNext, Disable
  <2>2. QED BY <1>1, <2>1
<1>3. CASE LoadCalData
  <2>1. UNCHANGED <<flash, chip, version>> /\ pc' = "calibrate" /\ Ours' = Ours
    BY <1>3 DEF LoadCalData, Ours
  <2>2. mode' # "full" => calData' = Ours
    BY <1>3, LoadableIsOurs DEF LoadCalData
  <2>3. QED BY <2>1, <2>2 DEF FlashInv, EntriesInOrder, DataIsOurs
<1>4. CASE Calibrate \/ Calibrated
  <2>1. UNCHANGED <<flash, chip, version>> /\ pc' \in {"store data", "done", "idle"}
    BY <1>4 DEF Calibrate, Calibrated
  <2>2. QED BY <1>1, <2>1
<1>5. CASE StoreEntries
  BY <1>5, StoreKeepsOrder
<1>6. CASE Erase
  <2>1. /\ flash'.data = None /\ flash'.mac = None /\ flash'.version = None
        /\ UNCHANGED <<chip, version, pc, mode, calData>> /\ Ours' = Ours
    BY <1>6 DEF Erase, NoEntries, Ours
  <2>2. QED BY <2>1 DEF FlashInv, EntriesInOrder, DataIsOurs
<1>7. CASE Restart
  <2>1. flash' = flash /\ pc' = "idle"
    BY <1>7 DEF Restart
  <2>2. chip' \in Nat /\ version' \in Nat
    BY SessionStep DEF SessionInv
  <2>3. chip' >= chip /\ version' >= version
    <3>1. chip' = chip \/ chip' >= chip
      BY <1>7 DEF Restart
    <3>2. version' = version \/ version' >= version
      BY <1>7 DEF Restart
    <3>3. QED BY <3>1, <3>2, EntriesTyped
  <2>4. EntriesInOrder'
    BY <2>1, <2>2, <2>3, EntriesTyped DEF FlashInv, EntriesInOrder
  <2>5. QED BY <2>1, <2>4 DEF FlashInv, DataIsOurs
<1>8. CASE UNCHANGED phyVars
  BY <1>1, <1>8 DEF phyVars
<1>9. QED BY <1>2, <1>3, <1>4, <1>5, <1>6, <1>7, <1>8 DEF PhyNext

\* On a flash that is not moved back to an earlier board, with software that is not
\* replaced by an older one, only calibration data of this board and this software is
\* loaded, wherever a restart cut the writing short (load_cal_data_from_nvs_handle).
THEOREM LoadedTheorem ==
    ASSUME GoesBack = FALSE
    PROVE  PhySpec => []LoadedIsOurs
<1>1. SessionInv /\ FlashInv /\ [PhyNext]_phyVars => SessionInv' /\ FlashInv'
  BY SessionStep, FlashStep
<1>2. FlashInv => LoadedIsOurs
  BY DEF FlashInv, DataIsOurs, LoadedIsOurs
<1>3. QED BY <1>1, <1>2, SessionInit, FlashInit, PTL DEF PhySpec

-----------------------------------------------------------------------------
(* The reference count of the radio.                                       *)

\* The count is the number of its users, the clock runs exactly for them and for
\* the one that calibrates, and nobody uses a radio that is not calibrated.
RadioInv ==
    /\ radioUsers \subseteq Users /\ IsFiniteSet(radioUsers)
    /\ ref = Cardinality(radioUsers)
    /\ rf <=> radioUsers # {} \/ caller # None
    /\ radioUsers # {} => calibrated /\ caller = None
    /\ caller \in Users \cup {None}

LEMMA CountUsers ==
    ASSUME NEW S, IsFiniteSet(S), NEW u
    PROVE  /\ Cardinality(S) \in Nat /\ (Cardinality(S) = 0 <=> S = {})
           /\ IsFiniteSet(S \cup {u}) /\ IsFiniteSet(S \ {u})
           /\ u \notin S => Cardinality(S \cup {u}) = Cardinality(S) + 1
           /\ u \in S => Cardinality(S \ {u}) = Cardinality(S) - 1
BY FS_CardinalityType, FS_EmptySet, FS_AddElement, FS_RemoveElement

LEMMA RadioInit == PhyInit => RadioInv
BY FS_EmptySet DEF PhyInit, RadioInv

LEMMA RadioStep == SessionInv /\ RadioInv /\ [PhyNext]_phyVars => RadioInv'
<1> SUFFICES ASSUME SessionInv, RadioInv, [PhyNext]_phyVars PROVE RadioInv'
  OBVIOUS
<1>0. /\ radioUsers \subseteq Users /\ IsFiniteSet(radioUsers)
      /\ ref = Cardinality(radioUsers) /\ caller \in Users \cup {None}
      /\ rf <=> radioUsers # {} \/ caller # None
      /\ radioUsers # {} => calibrated /\ caller = None
      /\ None \notin Users
  BY PhyAssumption DEF RadioInv
<1>1. ASSUME NEW u \in Users, EnableFirst(u) PROVE RadioInv'
  <2>1. radioUsers = {}
    BY <1>0, <1>1, CountUsers DEF EnableFirst
  <2>2. IsFiniteSet({u}) /\ Cardinality({u}) = 1
    BY FS_Singleton
  <2>3. CASE calibrated
    BY <1>0, <1>1, <2>1, <2>2, <2>3 DEF EnableFirst, RadioInv
  <2>4. CASE ~calibrated
    BY <1>0, <1>1, <2>1, <2>4 DEF EnableFirst, RadioInv
  <2>5. QED BY <2>3, <2>4
<1>2. ASSUME NEW u \in Users, EnableNext(u) PROVE RadioInv'
  <2>0. ref > 0 /\ ref \in Nat /\ (ref = 0 <=> radioUsers = {})
    BY <1>0, <1>2, CountUsers DEF EnableNext
  <2>1. radioUsers # {} /\ calibrated /\ caller = None /\ rf
    <3>1. radioUsers # {}
      BY <2>0
    <3>2. QED BY <1>0, <3>1
  <2>2. /\ radioUsers' = radioUsers \cup {u} /\ ref' = ref + 1 /\ u \notin radioUsers
        /\ rf' = rf /\ calibrated' = calibrated /\ caller' = caller
    BY <1>2 DEF EnableNext
  <2>3. IsFiniteSet(radioUsers') /\ ref' = Cardinality(radioUsers')
    BY <1>0, <2>2, CountUsers
  <2>4. QED BY <1>0, <2>1, <2>2, <2>3 DEF RadioInv
<1>3. ASSUME NEW u \in Users, Disable(u) PROVE RadioInv'
  <2>1. /\ radioUsers' = radioUsers \ {u} /\ ref' = ref - 1 /\ u \in radioUsers
        /\ rf' = ~LastUser /\ calibrated' = calibrated /\ caller' = caller
        /\ caller = None
    BY <1>3 DEF Disable
  <2>2. IsFiniteSet(radioUsers') /\ ref' = Cardinality(radioUsers')
    BY <1>0, <2>1, CountUsers
  <2>3. LastUser <=> radioUsers' = {}
    <3>1. Cardinality(radioUsers') \in Nat /\ (Cardinality(radioUsers') = 0 <=> radioUsers' = {})
      BY <2>2, CountUsers
    <3>2. ref \in Nat
      BY <1>0, CountUsers
    <3>3. QED BY <2>1, <2>2, <3>1, <3>2 DEF LastUser
  <2>4. rf' <=> radioUsers' # {} \/ caller' # None
    BY <2>1, <2>3
  <2>5. QED BY <1>0, <2>1, <2>2, <2>4 DEF RadioInv
<1>4. CASE Calibrated
  <2>1. /\ calibrated' = TRUE /\ radioUsers' = radioUsers \cup {caller} /\ ref' = ref + 1
        /\ caller' = None /\ rf' = rf /\ pc = "done"
    BY <1>4 DEF Calibrated
  <2>2. caller # None /\ caller \in Users /\ radioUsers = {} /\ rf
    BY <1>0, <2>1 DEF SessionInv
  <2>3. IsFiniteSet(radioUsers') /\ ref' = Cardinality(radioUsers')
    BY <1>0, <2>1, <2>2, CountUsers
  <2>4. QED BY <1>0, <2>1, <2>2, <2>3 DEF RadioInv
<1>5. CASE Restart
  BY <1>5, FS_EmptySet DEF Restart, RadioInv
<1>6. CASE LoadCalData \/ Calibrate \/ StoreEntries \/ Erase \/ UNCHANGED phyVars
  <2>1. UNCHANGED radioVars
    BY <1>6, StoreEffect DEF LoadCalData, Calibrate, Erase, phyVars
  <2>2. QED BY <2>1 DEF RadioInv, radioVars
<1>7. QED BY <1>1, <1>2, <1>3, <1>4, <1>5, <1>6 DEF PhyNext

\* However the drivers enable and disable the radio and the board restarts, the radio
\* is on exactly while somebody uses or calibrates it, and is never used before its
\* calibration (esp_phy_enable, esp_phy_disable).
THEOREM RadioTheorem == PhySpec => []RadioInv
BY SessionInit, SessionStep, RadioInit, RadioStep, PTL DEF PhySpec
=============================================================================
