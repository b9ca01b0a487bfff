------------------------------ MODULE TaskWdt ------------------------------
(***************************************************************************)
(* The task watchdog (esp_common/src/task_wdt.c).  Tasks subscribe to it   *)
(* and report to it; an idle task reports from a hook that subscribing     *)
(* registers for its core.  Every call, and the interrupt that the         *)
(* hardware timer raises, runs under twdt_spinlock: each is one step.      *)
(***************************************************************************)
EXTENDS FreertosHooks, FiniteSets

CONSTANTS
    Workers, \* tasks that report for themselves
    Timeout, \* the configured timeout, in units of Tick
    MaxInits \* bound: calls of esp_task_wdt_init

ASSUME TaskWdtAssumption ==
    /\ Timeout \in Nat \ {0} /\ MaxInits \in Nat
    /\ {"twdt", "other"} \subseteq Callbacks

\* The idle task of a core goes by the name of the core.
Tasks == Workers \cup Cores

VARIABLES
    config,    \* twdt_config exists
    hasReset,  \* the list: has_reset of each subscribed task
    timer,     \* the hardware timer
    inits,
    quiet,     \* history: the time since each task subscribed or reported
    sinceWarn  \* history: the time since the interrupt last named tasks

wdtVars == <<config, hasReset, timer, inits, quiet, sinceWarn>>
taskWdtVars == <<hookVars, wdtVars>>

TaskWdtInit ==
    /\ HooksInit
    /\ config = FALSE /\ hasReset = <<>> /\ timer = 0 /\ inits = 0
    /\ quiet = [t \in Tasks |-> 0] /\ sinceWarn = 0

Subscribed == DOMAIN hasReset

\* find_task_in_twdt_list: everyone else on the list has reported.
OthersReset_AnyOf(list, task) ==
    \E t \in DOMAIN list : t # task => list[t]
OthersReset(list, task) ==
    \A t \in DOMAIN list : t # task => list[t]

\* reset_hw_timer when all have reported; otherwise the list stays as it is.
Noted_KeepsFlags(list, task) ==
    /\ hasReset' = list
    /\ timer' = IF OthersReset(list, task) THEN 0 ELSE timer
Noted(list, task) ==
    IF OthersReset(list, task)
      THEN timer' = 0 /\ hasReset' = [t \in DOMAIN list |-> FALSE]
      ELSE hasReset' = list /\ UNCHANGED timer

-----------------------------------------------------------------------------
\* esp_task_wdt_init
Configured ==
    /\ inits < MaxInits
    /\ config' = TRUE /\ timer' = 0 /\ inits' = inits + 1
    /\ IF config
         THEN UNCHANGED hasReset
         ELSE hasReset' = <<>>
    /\ quiet' = [t \in Tasks |-> 0] /\ sinceWarn' = 0
    /\ UNCHANGED hookVars

\* esp_task_wdt_deinit
Deinit ==
    /\ config /\ Subscribed = {}
    /\ config' = FALSE /\ timer' = 0
    /\ UNCHANGED <<hookVars, hasReset, inits, quiet, sinceWarn>>

\* An idle task's subscription comes with the hook of its core.  Without a free
\* slot ESP_ERROR_CHECK aborts.
HookAdded(t) ==
    IF t \in Cores THEN RegisterIdle("twdt", t) ELSE UNCHANGED idleCb

HookRemoved_Never(t) == UNCHANGED idleCb
HookRemoved(t) ==
    IF t \in Cores THEN DeregisterIdle("twdt", t) ELSE UNCHANGED idleCb

\* esp_task_wdt_add
Add(t) ==
    /\ config /\ t \notin Subscribed
    /\ Noted([u \in Subscribed \cup {t} |-> IF u = t THEN TRUE ELSE hasReset[u]], t)
    /\ HookAdded(t)
    /\ quiet' = [quiet EXCEPT ![t] = 0]
    /\ UNCHANGED <<tickCb, config, inits, sinceWarn>>

\* esp_task_wdt_reset
Reset(t) ==
    /\ config /\ t \in Subscribed
    /\ Noted([hasReset EXCEPT ![t] = TRUE], t)
    /\ quiet' = [quiet EXCEPT ![t] = 0]
    /\ UNCHANGED <<hookVars, config, inits, sinceWarn>>

\* esp_task_wdt_delete
Delete(t) ==
    /\ config /\ t \in Subscribed
    /\ Noted([u \in Subscribed \ {t} |-> hasReset[u]], t)
    /\ HookRemoved(t)
    /\ quiet' = [quiet EXCEPT ![t] = 0]
    /\ UNCHANGED <<tickCb, config, inits, sinceWarn>>

\* esp_vApplicationIdleHook in the idle task of a core, and idle_hook_cb.
IdleHook(core) == Registered(idleCb, "twdt", core) /\ Reset(core)

\* task_wdt_isr feeds the timer, and names the tasks that have not reported.
Interrupt ==
    /\ config /\ timer = Timeout
    /\ timer' = 0
    /\ sinceWarn' = IF \E t \in Subscribed : ~hasReset[t] THEN 0 ELSE sinceWarn
    /\ UNCHANGED <<hookVars, config, hasReset, inits, quiet>>

\* Other components use the hooks of a core too.
OtherHooks ==
    /\ \E c \in Cores :
         IF Registered(idleCb, "other", c) THEN DeregisterIdle("other", c)
                                           ELSE RegisterIdle("other", c)
    /\ UNCHANGED <<tickCb, wdtVars>>

\* Time passes up to the timeout: the interrupt does not wait.
Later(n) == IF n > 2 * Timeout THEN n ELSE n + 1
Tick ==
    /\ config => timer < Timeout
    /\ timer' = IF config THEN timer + 1 ELSE 0
    /\ quiet' = [t \in Tasks |-> IF t \in Subscribed THEN Later(quiet[t]) ELSE 0]
    /\ sinceWarn' = Later(sinceWarn)
    /\ UNCHANGED <<hookVars, config, hasReset, inits>>

TaskWdtNext ==
    \/ Configured \/ Deinit \/ Interrupt \/ OtherHooks \/ Tick
    \/ \E t \in Tasks : Add(t) \/ Delete(t)
    \/ \E t \in Workers : Reset(t)
    \/ \E c \in Cores : IdleHook(c)

TaskWdtSpec == TaskWdtInit /\ [][TaskWdtNext]_taskWdtVars

-----------------------------------------------------------------------------
\* A task that is silent for two timeouts does not stay unnoticed: within the last
\* two the interrupt named someone.  Not always this task, whose has_reset stays set
\* while another one holds the timer up; and not always within one timeout, as the
\* timer starts again when that other one is deleted.
SilenceIsNoticed ==
    \A t \in Subscribed : quiet[t] > 2 * Timeout => sinceWarn <= 2 * Timeout

\* The hook of a core reports to the watchdog exactly while the core's idle task
\* is subscribed: no idle task is watched that has no way to report.
HookFollowsTask ==
    \A c \in Cores : Registered(idleCb, "twdt", c) <=> c \in Subscribed

\* The list and its flags implement a watchdog.
Shared == INSTANCE Watchdog WITH Parties <- Tasks, watched <- Subscribed,
              heard <- {t \in Subscribed : hasReset[t]}, since <- timer, Configurable <- TRUE
SharedSpec == Shared!WatchdogSpec
=============================================================================
