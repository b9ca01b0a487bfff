------------------------------- MODULE IntWdt -------------------------------
(***************************************************************************)
(* The interrupt watchdog (esp_common/src/int_wdt.c): the tick interrupts  *)
(* of both cores keep it quiet, by way of a flag that the application      *)
(* core's tick sets and the protocol core's tick spends.                   *)
(***************************************************************************)
EXTENDS FreertosHooks

CONSTANTS
    ProCore,       \* core 0
    AppCore,       \* core 1
    IntTimeout,    \* CONFIG_ESP_INT_WDT_TIMEOUT_MS, in ticks
    InitialTimeout \* IWDT_INITIAL_TIMEOUT_S, in ticks

\* The first is the assertion of esp_int_wdt_cpu_init.
ASSUME IntWdtAssumption ==
    /\ IntTimeout \in Nat /\ IntTimeout >= 2
    /\ InitialTimeout \in Nat /\ InitialTimeout >= IntTimeout
    /\ Cores = {ProCore, AppCore} /\ ProCore # AppCore

VARIABLES
    enabled,   \* the watchdog's timer runs
    appTicked, \* int_wdt_app_cpu_ticked
    counter,   \* the timer
    limit,     \* when it runs out
    panicked,
    missed     \* history: the time since a core's last tick

iwdtVars == <<enabled, appTicked, counter, limit, panicked, missed>>
intWdtVars == <<hookVars, iwdtVars>>

IntWdtInit ==
    /\ HooksInit
    /\ enabled = FALSE /\ appTicked = FALSE
    /\ counter = 0 /\ limit = InitialTimeout
    /\ panicked = FALSE /\ missed = [c \in Cores |-> 0]

-----------------------------------------------------------------------------
\* esp_int_wdt_init, once at startup
StartIntWdt ==
    /\ ~enabled
    /\ enabled' = TRUE /\ counter' = 0 /\ limit' = InitialTimeout
    /\ missed' = [c \in Cores |-> 0]
    /\ UNCHANGED <<hookVars, appTicked, panicked>>

\* esp_int_wdt_cpu_init, once on each core
CpuInit(core) ==
    /\ ~panicked /\ ~Registered(tickCb, "int_wdt", core)
    /\ RegisterTick("int_wdt", core)
    /\ UNCHANGED <<idleCb, iwdtVars>>

\* The flag is spent when the timer is fed.
Spent_Kept == UNCHANGED appTicked
Spent == appTicked' = FALSE

\* tick_hook.  A tick of the protocol core alone feeds nothing, and before the
\* timer is started there is nothing to feed: starting it sets both stages again.
TickHook(core) ==
    /\ ~panicked /\ Registered(tickCb, "int_wdt", core)
    /\ missed' = [missed EXCEPT ![core] = 0]
    /\ IF core = AppCore
         THEN appTicked' = TRUE /\ UNCHANGED <<counter, limit>>
         ELSE IF appTicked
           THEN Spent /\ counter' = 0 /\ limit' = IntTimeout
           ELSE UNCHANGED <<appTicked, counter, limit>>
    /\ UNCHANGED <<hookVars, enabled, panicked>>

\* Other components use the tick hooks too.
OtherTickHooks ==
    /\ \E c \in Cores :
         IF Registered(tickCb, "other", c) THEN DeregisterTick("other", c)
                                           ELSE RegisterTick("other", c)
    /\ UNCHANGED <<idleCb, iwdtVars>>

\* One tick period goes by, on a core that keeps its interrupts off without a tick.
TimePasses ==
    /\ enabled /\ ~panicked /\ counter < limit
    /\ counter' = counter + 1
    /\ missed' = [c \in Cores |-> missed[c] + 1]
    /\ UNCHANGED <<hookVars, enabled, appTicked, limit, panicked>>

\* The interrupt that both cores route to the panic handler.
Panic ==
    /\ enabled /\ ~panicked /\ counter = limit
    /\ panicked' = TRUE
    /\ UNCHANGED <<hookVars, enabled, appTicked, counter, limit, missed>>

IntWdtNext ==
    \/ StartIntWdt \/ OtherTickHooks \/ TimePasses \/ Panic
    \/ \E c \in Cores : CpuInit(c) \/ TickHook(c)

IntWdtSpec == IntWdtInit /\ [][IntWdtNext]_intWdtVars

-----------------------------------------------------------------------------
\* A core that stops taking its tick is caught, whichever core it is: its last tick
\* feeds the timer once more at the latest when the timer would have run out, which
\* the first time is the initial timeout, and not again.
DeafCoreIsCaught ==
    enabled => \A c \in Cores : missed[c] <= limit + (IF limit = IntTimeout
                                                        THEN InitialTimeout ELSE 0)

\* The flag and the timer implement a watchdog of the two cores.
Both == INSTANCE Watchdog WITH
    Parties <- Cores, Timeout <- IntTimeout, Configurable <- FALSE, watched <- Cores,
    heard <- IF appTicked THEN {AppCore} ELSE {}, since <- counter
BothSpec == Both!WatchdogSpec
=============================================================================
