--------------------------- MODULE FreertosHooks ---------------------------
(***************************************************************************)
(* The tables of idle and tick hooks (esp_common/src/freertos_hooks.c):    *)
(* MaxHooks slots for each core.  They change under a spinlock; the hooks  *)
(* of the idle tasks and of the tick interrupt read them without it.       *)
(***************************************************************************)
EXTENDS Naturals

CONSTANTS
    Cores,    \* portNUM_PROCESSORS
    MaxHooks, \* MAX_HOOKS
    Callbacks \* what can be registered

NoCallback == "none"

ASSUME HooksAssumption == MaxHooks \in Nat \ {0} /\ NoCallback \notin Callbacks

Slots == 1 .. MaxHooks

VARIABLES idleCb, tickCb

hookVars == <<idleCb, tickCb>>

HooksInit ==
    /\ idleCb = [c \in Cores |-> [n \in Slots |-> NoCallback]]
    /\ tickCb = idleCb

FreeSlots(table, core) == {n \in Slots : table[core][n] = NoCallback}
Registered(table, cb, core) == \E n \in Slots : table[core][n] = cb

\* The first free slot of the core.
WithHook(table, cb, core) ==
    LET n == CHOOSE n \in FreeSlots(table, core) :
                \A m \in FreeSlots(table, core) : n <= m
    IN [table EXCEPT ![core][n] = cb]

\* Every slot of the core that holds it.
WithoutHook(table, cb, core) ==
    [table EXCEPT ![core] = [n \in Slots |-> IF @[n] = cb THEN NoCallback ELSE @[n]]]

RegisterIdle(cb, core) ==
    FreeSlots(idleCb, core) # {} /\ idleCb' = WithHook(idleCb, cb, core)
DeregisterIdle(cb, core) == idleCb' = WithoutHook(idleCb, cb, core)

RegisterTick(cb, core) ==
    FreeSlots(tickCb, core) # {} /\ tickCb' = WithHook(tickCb, cb, core)
DeregisterTick(cb, core) == tickCb' = WithoutHook(tickCb, cb, core)
=============================================================================
