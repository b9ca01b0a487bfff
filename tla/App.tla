-------------------------------- MODULE App --------------------------------
(***************************************************************************)
(* How the board boots (main/main.c, main/app/app.c and server_start of    *)
(* main/network/server.c): app_main prepares the flash, joins the network  *)
(* (Wifi), starts the camera, opens the sockets and creates the tasks, and *)
(* stops where one of them fails.  ESP_ERROR_CHECK aborts, and the board   *)
(* restarts; it may also lose its power at any moment.                     *)
(***************************************************************************)
EXTENDS Wifi

CONSTANT MaxReboots \* bound: reboots

ASSUME AppAssumption == MaxReboots \in Nat

VARIABLES
    appPc,   \* where app_main is
    pages,   \* the NVS partition: "good", or "old" if it has to be erased
    camera,  \* esp_camera_init succeeded
    sockets, \* what server_start opened
    synced,  \* task_sync has its event group, its mutex and both queues
    tried,   \* tasks app_run has tried to create
    tasks,   \* those that run
    reboots

bootVars == <<appPc, pages, camera, sockets, synced, tried, tasks, reboots>>
appVars == <<vars, bootVars>>

AppInit ==
    /\ Init
    /\ appPc = "off" /\ pages \in {"good", "old"} /\ reboots = 0
    /\ camera = FALSE /\ sockets = {} /\ synced = FALSE /\ tried = 0 /\ tasks = {}

-----------------------------------------------------------------------------
PowerOn ==
    /\ appPc = "off" /\ appPc' = "nvs"
    /\ UNCHANGED <<vars, pages, camera, sockets, synced, tried, tasks, reboots>>

\* What a reboot leaves: the flash.
Reboot ==
    /\ appPc # "off" /\ reboots < MaxReboots /\ reboots' = reboots + 1
    /\ appPc' = "off"
    /\ mainPc' = "start" /\ seen' = {} /\ status' = "none" /\ registered' = {}
    /\ group' = "live" /\ bits' = {} /\ retryNum' = 0
    /\ station' = "stopped" /\ posted' = <<>> /\ refused' = 0 /\ drops' = 0
    /\ camera' = FALSE /\ sockets' = {} /\ synced' = FALSE /\ tried' = 0 /\ tasks' = {}

\* CHECK_STATUS
CheckStatus_Ignored(success, next) == appPc' = next
CheckStatus(success, next) == appPc' = IF success THEN next ELSE "stopped"

\* nvs_init: a partition in an old format or without a free page is erased.
NvsInit ==
    /\ appPc = "nvs"
    /\ pages' = "good"
    /\ CheckStatus(TRUE, "wifi")
    /\ UNCHANGED <<vars, camera, sockets, synced, tried, tasks, reboots>>

\* An error of the flash, or in wifi_init before it waits: ESP_ERROR_CHECK.  The
\* partition may have been erased or not.
Abort ==
    /\ \/ appPc = "nvs"
       \/ appPc = "wifi" /\ mainPc = "start"
    /\ Reboot
    /\ pages' \in {pages, "good"}

PowerLost == Reboot /\ UNCHANGED pages

WifiInit == appPc = "wifi" /\ Main /\ UNCHANGED bootVars

WifiReturns ==
    /\ appPc = "wifi" /\ mainPc = "done"
    /\ CheckStatus(status = "success", "camera")
    /\ UNCHANGED <<vars, pages, camera, sockets, synced, tried, tasks, reboots>>

CameraInit ==
    /\ appPc = "camera"
    /\ camera' \in BOOLEAN
    /\ CheckStatus(camera', "server")
    /\ UNCHANGED <<vars, pages, sockets, synced, tried, tasks, reboots>>

\* server_start gives up at its first error, but a socket that could not be opened
\* is -1, which is an error only for the broadcasts.  Its own status is ignored.
ServerStart ==
    /\ appPc = "server"
    /\ sockets' \in {s \in SUBSET {"rtp", "broadcast", "server", "listening"} :
                       /\ s \cap {"server", "listening"} # {} => "broadcast" \in s
                       /\ "listening" \in s => "server" \in s}
    /\ appPc' = "sync"
    /\ UNCHANGED <<vars, pages, camera, synced, tried, tasks, reboots>>

\* app_run looks at none of the four: the tasks are created without them, too.
CreateSync ==
    /\ appPc = "sync"
    /\ synced' \in BOOLEAN
    /\ appPc' = "tasks"
    /\ UNCHANGED <<vars, pages, camera, sockets, tried, tasks, reboots>>

\* The tasks in the order of their creation.  One that could not be created is missing.
TaskNames == <<"send", "accept", "requests", "broadcasts", "capture", "recycle">>

CreateTask ==
    /\ appPc = "tasks" /\ tried < Len(TaskNames)
    /\ tried' = tried + 1
    /\ tasks' \in {tasks, tasks \cup {TaskNames[tried + 1]}}
    /\ UNCHANGED <<vars, appPc, pages, camera, sockets, synced, reboots>>

RunReturns ==
    /\ appPc = "tasks" /\ tried = Len(TaskNames)
    /\ appPc' = "running"
    /\ UNCHANGED <<vars, pages, camera, sockets, synced, tried, tasks, reboots>>

\* The event loop and the station go on beside app_main.
Beside == (Dispatch \/ Station) /\ UNCHANGED bootVars

AppMain ==
    \/ PowerOn \/ NvsInit \/ WifiInit \/ WifiReturns \/ CameraInit \/ ServerStart
    \/ CreateSync \/ CreateTask \/ RunReturns

AppNext == AppMain \/ Abort \/ PowerLost \/ Beside

AppSpec == AppInit /\ [][AppNext]_appVars

\* app_main and the event loop run.  The network owes no answer.
AppFairness ==
    /\ WF_appVars(AppMain)
    /\ WF_appVars(Dispatch /\ UNCHANGED bootVars)

-----------------------------------------------------------------------------
\* A task runs only on a board that has its camera and that did join the network in
\* this boot: when the station is not online, it was dropped.  Of its sockets, its
\* mutex, its event group and its queues a task may lack any: for these nobody looks.
TasksFollowBoot == tasks # {} => camera /\ (station = "online" \/ drops > 0)

BootEnded == appPc = "running" \/ (appPc = "stopped" /\ (status = "failed" \/ ~camera))

\* Once the power is on app_main comes to its end, with the tasks created or stopped by
\* the network or the camera; a reboot starts over.  One thing can keep it for ever, for
\* wifi_init waits without a timeout: an attempt to connect that is never answered, by
\* an address or by a refusal.
BootEnds == appPc = "nvs" ~> BootEnded \/ [](appPc = "wifi" /\ station = "connecting")
=============================================================================
