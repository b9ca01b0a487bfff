-------------------------------- MODULE Wifi --------------------------------
(***************************************************************************)
(* How the board joins its network (main/network/wifi.c): app_main waits   *)
(* in wifi_init for one of two event bits, which wifi_event_handler sets   *)
(* in the task of the default event loop; the station itself is the Wi-Fi  *)
(* driver's.  When the wait is over the handlers are unregistered and the  *)
(* event group is deleted, and app_main goes on, or gives up.              *)
(*                                                                         *)
(* The event loop holds a mutex while it runs a handler, and unregistering *)
(* takes it: a handler runs as one step.                                   *)
(***************************************************************************)
EXTENDS Naturals, Sequences

CONSTANTS
    MaxRetryCount, \* MAX_RETRY_COUNT
    MaxDrops       \* bound: connections the access point drops

ASSUME WifiAssumption == MaxRetryCount \in Nat /\ MaxDrops \in Nat

VARIABLES
    mainPc,     \* wifi_init: where app_main is
    seen,       \* wifi_init: what xEventGroupWaitBits returned
    status,     \* wifi_init: what it returns
    registered, \* the handler's registrations
    group,      \* s_wifi_event_group
    bits,       \* the bits that are set in it
    retryNum,   \* s_retry_num
    station,    \* the station's connection
    posted,     \* the events that the loop has not dispatched yet
    refused,    \* attempts to connect that failed since the station was last online
    drops       \* connections dropped so far

mainVars == <<mainPc, seen, status, registered>>
stationVars == <<station, posted, refused, drops>>
vars == <<mainVars, group, bits, retryNum, stationVars>>

Init ==
    /\ mainPc = "start" /\ seen = {} /\ status = "none"
    /\ registered = {} /\ group = "live" /\ bits = {}
    /\ retryNum = 0
    /\ station = "stopped" /\ posted = <<>> /\ refused = 0 /\ drops = 0

-----------------------------------------------------------------------------
(* app_main in wifi_init.                                                   *)

\* Everything up to esp_wifi_start, whose event reaches the registered handler.
StartWifi ==
    /\ mainPc = "start"
    /\ registered' = {"wifi", "ip"}
    /\ station' = "started" /\ posted' = Append(posted, "sta start")
    /\ mainPc' = "wait"
    /\ UNCHANGED <<seen, status, group, bits, retryNum, refused, drops>>

\* xEventGroupWaitBits blocks, or finds a bit already set.
WaitBits ==
    /\ mainPc = "wait"
    /\ seen' = bits
    /\ mainPc' = "blocked"
    /\ UNCHANGED <<status, registered, group, bits, retryNum, stationVars>>

Result_FailFirst == IF "fail" \in seen THEN "failed" ELSE "success"
Result == IF "connected" \in seen THEN "success" ELSE "failed"

\* It returns the bits that were set when it was woken.
Conclude ==
    /\ mainPc = "blocked" /\ seen # {}
    /\ status' = Result
    /\ mainPc' = "unregister ip"
    /\ UNCHANGED <<seen, registered, group, bits, retryNum, stationVars>>

UnregisterIp ==
    /\ mainPc = "unregister ip"
    /\ registered' = registered \ {"ip"}
    /\ mainPc' = "unregister wifi"
    /\ UNCHANGED <<seen, status, group, bits, retryNum, stationVars>>

LastRegistration_Kept == UNCHANGED registered
LastRegistration == registered' = registered \ {"wifi"}

UnregisterWifi ==
    /\ mainPc = "unregister wifi"
    /\ LastRegistration
    /\ mainPc' = "delete"
    /\ UNCHANGED <<seen, status, group, bits, retryNum, stationVars>>

DeleteGroup ==
    /\ mainPc = "delete"
    /\ group' = "deleted"
    /\ mainPc' = "done"
    /\ UNCHANGED <<seen, status, registered, bits, retryNum, stationVars>>

-----------------------------------------------------------------------------
(* The event loop and wifi_event_handler.                                   *)

\* A task that waits for a bit is woken with the bits of that moment.
SetBit_NoWake(b) == bits' = bits \cup {b} /\ UNCHANGED seen
SetBit(b) ==
    /\ bits' = bits \cup {b}
    /\ seen' = IF mainPc = "blocked" /\ seen = {} THEN bits' ELSE seen

\* esp_wifi_connect
Connect == station' = "connecting"

Retrying == retryNum < MaxRetryCount

OnStart ==
    /\ posted # <<>> /\ Head(posted) = "sta start" /\ "wifi" \in registered
    /\ Connect
    /\ UNCHANGED <<bits, seen, retryNum>>

OnDisconnected ==
    /\ posted # <<>> /\ Head(posted) = "disconnected" /\ "wifi" \in registered
    /\ IF Retrying
         THEN Connect /\ retryNum' = retryNum + 1 /\ UNCHANGED <<bits, seen>>
         ELSE SetBit("fail") /\ UNCHANGED <<station, retryNum>>

OnGotIp ==
    /\ posted # <<>> /\ Head(posted) = "got ip" /\ "ip" \in registered
    /\ retryNum' = 0
    /\ SetBit("connected")
    /\ UNCHANGED station

\* An event without a handler is dropped.
OnNothing ==
    /\ posted # <<>>
    /\ (IF Head(posted) = "got ip" THEN "ip" ELSE "wifi") \notin registered
    /\ UNCHANGED <<bits, seen, retryNum, station>>

Dispatch ==
    /\ OnStart \/ OnDisconnected \/ OnGotIp \/ OnNothing
    /\ posted' = Tail(posted)
    /\ UNCHANGED <<mainPc, status, registered, group, refused, drops>>

-----------------------------------------------------------------------------
(* The Wi-Fi driver and the access point.                                   *)

Online ==
    /\ station = "connecting"
    /\ station' = "online" /\ posted' = Append(posted, "got ip")
    /\ refused' = 0
    /\ UNCHANGED <<mainVars, group, bits, retryNum, drops>>

Refuse ==
    /\ station = "connecting"
    /\ station' = "offline" /\ posted' = Append(posted, "disconnected")
    /\ refused' = refused + 1
    /\ UNCHANGED <<mainVars, group, bits, retryNum, drops>>

Drop ==
    /\ station = "online" /\ drops < MaxDrops
    /\ station' = "offline" /\ posted' = Append(posted, "disconnected")
    /\ drops' = drops + 1
    /\ UNCHANGED <<mainVars, group, bits, retryNum, refused>>

-----------------------------------------------------------------------------
Main ==
    StartWifi \/ WaitBits \/ Conclude \/ UnregisterIp \/ UnregisterWifi \/ DeleteGroup
Station == Online \/ Refuse \/ Drop
Next == Main \/ Dispatch \/ Station

\* The task of main and of the event loop run, and every attempt to connect
\* ends in one way or the other.
Spec == Init /\ [][Next]_vars
FairSpec == Spec /\ WF_vars(Main) /\ WF_vars(Dispatch) /\ WF_vars(Online \/ Refuse)

-----------------------------------------------------------------------------
\* The handler, in another task, writes to the event group that wifi_init
\* deletes: no registration outlives the group.
HandlerHasGroup == registered # {} => group = "live"

\* wifi_init reports a failure only when the station is offline after all its
\* retries, and never after it was online: a success that is followed by
\* failures before app_main runs is a success.
FailureIsFinal ==
    status = "failed" => /\ refused = MaxRetryCount + 1
                         /\ drops = 0 /\ station = "offline" /\ posted = <<>>

\* README: the server constantly sends broadcasts.  Offline it cannot, so a board
\* that is up and loses its access point tries to connect again.
StaysOnline == status = "success" /\ station = "offline" ~> station # "offline"
=============================================================================
