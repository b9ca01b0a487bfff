--------------------------- MODULE WatchdogProofs ---------------------------
(***************************************************************************)
(* Proofs about the two watchdogs and the tables of hooks they use, for    *)
(* every number of cores, tasks and slots and every timeout.  Each has an  *)
(* inductive invariant: IntWdtInv bounds the time a core can be deaf by    *)
(* the timer, and TaskWdtInv relates the time a task can be silent to the  *)
(* timer and to the flags of the others.  Both are shown to implement the  *)
(* abstract Watchdog.                                                      *)
(***************************************************************************)
EXTENDS TaskWdt, IntWdt, TLAPS, WellFoundedInduction

-----------------------------------------------------------------------------
(* The tables of hooks.                                                    *)

HookTables == [Cores -> [Slots -> Callbacks \cup {NoCallback}]]

\* A core that has a free slot has a first one.
LEMMA FirstFreeSlot ==
    ASSUME NEW table, NEW core, FreeSlots(table, core) # {}
    PROVE  \E n \in FreeSlots(table, core) : \A m \in FreeSlots(table, core) : n <= m
<1> DEFINE R == OpToRel(<, Nat)
<1>1. FreeSlots(table, core) \subseteq Nat
  BY HooksAssumption DEF FreeSlots, Slots
<1>2. IsWellFoundedOn(R, Nat)
  BY NatLessThanWellFounded
<1>3. PICK n \in FreeSlots(table, core) : \A m \in FreeSlots(table, core) : <<m, n>> \notin R
  <2> HIDE DEF R
  <2> QED BY <1>1, <1>2, WFMin
<1>4. ASSUME NEW m \in FreeSlots(table, core) PROVE n <= m
  <2>1. m \in Nat /\ n \in Nat
    BY <1>1
  <2>2. ~(m < n)
    BY <1>3, <2>1 DEF OpToRel
  <2>3. QED BY <2>1, <2>2
<1>5. QED BY <1>4

\* Registering takes one free slot of one core and touches no other.
LEMMA WithHookTakesFreeSlot ==
    ASSUME NEW table \in HookTables, NEW cb \in Callbacks, NEW core \in Cores,
           FreeSlots(table, core) # {}
    PROVE  /\ WithHook(table, cb, core) \in HookTables
           /\ \E n \in FreeSlots(table, core) :
                WithHook(table, cb, core) = [table EXCEPT ![core][n] = cb]
<1> DEFINE First(n) == \A m \in FreeSlots(table, core) : n <= m
           n == CHOOSE n \in FreeSlots(table, core) : First(n)
<1>1. n \in FreeSlots(table, core)
  BY FirstFreeSlot
<1>2. WithHook(table, cb, core) = [table EXCEPT ![core][n] = cb]
  BY DEF WithHook
<1> HIDE DEF n
<1>3. n \in Slots
  BY <1>1 DEF FreeSlots
<1>4. WithHook(table, cb, core) \in HookTables
  BY <1>2, <1>3 DEF HookTables
<1>5. QED BY <1>1, <1>2, <1>4

\* A callback that is registered for a core calls from then on, and no other
\* registration changes.
LEMMA WithHookRegisters ==
    ASSUME NEW table \in HookTables, NEW cb \in Callbacks, NEW core \in Cores,
           FreeSlots(table, core) # {}
    PROVE  /\ WithHook(table, cb, core) \in HookTables
           /\ Registered(WithHook(table, cb, core), cb, core)
           /\ \A other \in Callbacks, c \in Cores :
                other # cb \/ c # core =>
                  (Registered(WithHook(table, cb, core), other, c)
                     <=> Registered(table, other, c))
<1>1. PICK n \in FreeSlots(table, core) :
            WithHook(table, cb, core) = [table EXCEPT ![core][n] = cb]
  BY WithHookTakesFreeSlot
<1>2. n \in Slots /\ table[core][n] = NoCallback
  BY DEF FreeSlots
<1>3. Registered(WithHook(table, cb, core), cb, core)
  BY <1>1, <1>2 DEF Registered, HookTables
<1>4. ASSUME NEW other \in Callbacks, NEW c \in Cores, other # cb \/ c # core
      PROVE  Registered(WithHook(table, cb, core), other, c) <=> Registered(table, other, c)
  <2>1. CASE c # core
    BY <1>1, <2>1 DEF Registered, HookTables
  <2>2. CASE c = core /\ other # cb
    <3>1. other # NoCallback
      BY HooksAssumption
    <3>2. ASSUME NEW m \in Slots
          PROVE  WithHook(table, cb, core)[c][m] = IF m = n THEN cb ELSE table[c][m]
      BY <1>1, <1>2, <2>2 DEF HookTables
    <3>3. QED BY <1>2, <2>2, <3>1, <3>2 DEF Registered
  <2>3. QED BY <1>4, <2>1, <2>2
<1>5. QED BY <1>3, <1>4, WithHookTakesFreeSlot

\* A callback that is deregistered for a core calls no more, and no other
\* registration changes.
LEMMA WithoutHookDeregisters ==
    ASSUME NEW table \in HookTables, NEW cb \in Callbacks, NEW core \in Cores
    PROVE  /\ WithoutHook(table, cb, core) \in HookTables
           /\ ~Registered(WithoutHook(table, cb, core), cb, core)
           /\ \A other \in Callbacks, c \in Cores :
                other # cb \/ c # core =>
                  (Registered(WithoutHook(table, cb, core), other, c)
                     <=> Registered(table, other, c))
<1>1. cb # NoCallback
  BY HooksAssumption
<1>2. WithoutHook(table, cb, core) \in HookTables
  BY DEF WithoutHook, HookTables
<1>3. ASSUME NEW c \in Cores, NEW m \in Slots
      PROVE  WithoutHook(table, cb, core)[c][m] =
               IF c = core /\ table[c][m] = cb THEN NoCallback ELSE table[c][m]
  BY DEF WithoutHook, HookTables
<1>4. ~Registered(WithoutHook(table, cb, core), cb, core)
  BY <1>1, <1>3 DEF Registered
<1>5. ASSUME NEW other \in Callbacks, NEW c \in Cores, other # cb \/ c # core
      PROVE  Registered(WithoutHook(table, cb, core), other, c) <=> Registered(table, other, c)
  <2>1. other # NoCallback
    BY HooksAssumption
  <2>2. QED BY <1>3, <1>5, <2>1 DEF Registered
<1>6. QED BY <1>2, <1>4, <1>5

-----------------------------------------------------------------------------
(* The interrupt watchdog.                                                 *)

IntWdtTypeOK ==
    /\ enabled \in BOOLEAN /\ appTicked \in BOOLEAN /\ panicked \in BOOLEAN
    /\ counter \in Nat /\ limit \in {InitialTimeout, IntTimeout}
    /\ missed \in [Cores -> Nat]

\* How long a core can have been deaf when the timer was fed last: the flag of the
\* application core was set by then, and it may have been set ever since the start.
Grace == IF limit = IntTimeout THEN InitialTimeout ELSE 0

\* The timer runs behind no core but, while its flag is not set, the application core.
DeafnessBounded ==
    /\ counter <= limit
    /\ missed[ProCore] <= counter
    /\ missed[AppCore] <= counter + IF appTicked THEN 0 ELSE Grace

\* Before the watchdog is started its timer stands still.
QuietBeforeStart == ~enabled => counter = 0

IntWdtInv == IntWdtTypeOK /\ DeafnessBounded /\ QuietBeforeStart

LEMMA IntWdtInvInit == IntWdtInit => IntWdtInv
<1> SUFFICES ASSUME IntWdtInit PROVE IntWdtInv
  OBVIOUS
<1>1. IntWdtTypeOK /\ QuietBeforeStart
  BY IntWdtAssumption DEF IntWdtInit, IntWdtTypeOK, QuietBeforeStart
<1>2. missed[ProCore] = 0 /\ missed[AppCore] = 0
  BY IntWdtAssumption DEF IntWdtInit
<1>3. QED BY <1>1, <1>2, IntWdtAssumption DEF IntWdtInit, IntWdtInv, DeafnessBounded, Grace

\* Every step of the interrupt watchdog keeps its invariant.
LEMMA IntWdtInvStep == IntWdtInv /\ [IntWdtNext]_intWdtVars => IntWdtInv'
<1> SUFFICES ASSUME IntWdtInv, [IntWdtNext]_intWdtVars
             PROVE  IntWdtInv'
  OBVIOUS
<1> USE IntWdtAssumption
<1> USE DEF IntWdtInv, IntWdtTypeOK, DeafnessBounded, QuietBeforeStart, Grace
<1>1. CASE StartIntWdt
  BY <1>1 DEF StartIntWdt
<1>2. CASE TimePasses
  <2>1. /\ missed' \in [Cores -> Nat]
        /\ missed'[ProCore] = missed[ProCore] + 1 /\ missed'[AppCore] = missed[AppCore] + 1
    BY <1>2 DEF TimePasses
  <2>2. counter' = counter + 1 /\ counter + 1 <= limit /\ counter' \in Nat
    BY <1>2 DEF TimePasses
  <2>3. QED BY <1>2, <2>1, <2>2 DEF TimePasses
<1>3. CASE Panic
  BY <1>3 DEF Panic
<1>4. CASE OtherTickHooks
  BY <1>4 DEF OtherTickHooks, iwdtVars
<1>5. ASSUME NEW core \in Cores, CpuInit(core) PROVE IntWdtInv'
  BY <1>5 DEF CpuInit, iwdtVars
<1>6. ASSUME NEW core \in Cores, TickHook(core) PROVE IntWdtInv'
  <2>1. /\ missed' \in [Cores -> Nat] /\ missed'[core] = 0
        /\ \A c \in Cores \ {core} : missed'[c] = missed[c]
    BY <1>6 DEF TickHook
  <2>2. CASE core = AppCore
    BY <1>6, <2>1, <2>2 DEF TickHook
  <2>3. CASE core = ProCore /\ appTicked
    <3>1. /\ appTicked' = FALSE /\ counter' = 0 /\ limit' = IntTimeout
          /\ UNCHANGED <<enabled, panicked>>
      BY <1>6, <2>3 DEF TickHook, Spent
    <3>2. missed'[ProCore] = 0 /\ missed'[AppCore] = missed[AppCore]
      BY <2>1, <2>3
    <3>3. missed[AppCore] <= InitialTimeout
      BY <2>3
    <3>4. DeafnessBounded'
      BY <3>1, <3>2, <3>3
    <3>5. QED BY <2>1, <3>1, <3>4
  <2>4. CASE core = ProCore /\ ~appTicked
    BY <1>6, <2>1, <2>4 DEF TickHook
  <2>5. QED BY <2>2, <2>3, <2>4
<1>7. CASE UNCHANGED intWdtVars
  BY <1>7 DEF intWdtVars, iwdtVars
<1>8. QED BY <1>1, <1>2, <1>3, <1>4, <1>5, <1>6, <1>7 DEF IntWdtNext

\* The invariant that the bound on a deaf core rests on (int_wdt.c).
THEOREM IntWdtInvTheorem == IntWdtSpec => []IntWdtInv
BY IntWdtInvInit, IntWdtInvStep, PTL DEF IntWdtSpec

\* A core that stops taking its tick interrupt is caught, whichever core it is
\* (tick_hook of int_wdt.c).
THEOREM DeafCoreTheorem == IntWdtSpec => []DeafCoreIsCaught
<1>1. IntWdtInv => DeafCoreIsCaught
  BY IntWdtAssumption
     DEF IntWdtInv, IntWdtTypeOK, DeafnessBounded, Grace, DeafCoreIsCaught
<1>2. QED BY <1>1, IntWdtInvTheorem, PTL

LEMMA BothInit == IntWdtInit => Both!WatchdogInit
BY DEF IntWdtInit, Both!WatchdogInit

\* Each tick is a report of its core to the shared watchdog, or says nothing new.
LEMMA BothStep == IntWdtInv /\ [IntWdtNext]_intWdtVars
                    => [Both!WatchdogNext]_(Both!watchdogVars)
<1> SUFFICES ASSUME IntWdtInv, [IntWdtNext]_intWdtVars
             PROVE  [Both!WatchdogNext]_(Both!watchdogVars)
  OBVIOUS
<1> USE IntWdtAssumption
<1>0. ASSUME UNCHANGED <<appTicked, counter>>
      PROVE  UNCHANGED Both!watchdogVars
  BY <1>0 DEF Both!watchdogVars
<1>1. CASE StartIntWdt
  BY <1>0, <1>1 DEF StartIntWdt, IntWdtInv, QuietBeforeStart
<1>2. CASE TimePasses
  BY <1>2 DEF TimePasses, Both!WatchdogNext, Both!Pass
<1>3. CASE Panic
  BY <1>0, <1>3 DEF Panic
<1>4. CASE OtherTickHooks
  BY <1>0, <1>4 DEF OtherTickHooks, iwdtVars
<1>5. ASSUME NEW core \in Cores, CpuInit(core)
      PROVE  UNCHANGED Both!watchdogVars
  BY <1>0, <1>5 DEF CpuInit, iwdtVars
<1>6. ASSUME NEW core \in Cores, TickHook(core)
      PROVE  [Both!WatchdogNext]_(Both!watchdogVars)
  <2>1. CASE core = AppCore
    <3>1. Both!Hear(AppCore)
      BY <1>6, <2>1 DEF TickHook, Both!Hear, Both!Note
    <3>2. QED BY <3>1 DEF Both!WatchdogNext
  <2>2. CASE core = ProCore /\ appTicked
    <3>1. Both!Hear(ProCore)
      BY <1>6, <2>2 DEF TickHook, Spent, Both!Hear, Both!Note
    <3>2. QED BY <3>1 DEF Both!WatchdogNext
  <2>3. CASE core = ProCore /\ ~appTicked
    BY <1>0, <1>6, <2>3 DEF TickHook
  <2>4. QED BY <2>1, <2>2, <2>3 DEF IntWdtInv, IntWdtTypeOK
<1>7. CASE UNCHANGED intWdtVars
  BY <1>0, <1>7 DEF intWdtVars, iwdtVars
<1>8. QED BY <1>1, <1>2, <1>3, <1>4, <1>5, <1>6, <1>7 DEF IntWdtNext

\* The flag of one core and the timer implement a watchdog of both cores: the timer
\* starts again only when each core was heard since it last did (int_wdt.c).
THEOREM BothTheorem == IntWdtSpec => BothSpec
BY BothInit, BothStep, IntWdtInvTheorem, PTL
   DEF IntWdtSpec, BothSpec, Both!WatchdogSpec

-----------------------------------------------------------------------------
(* The task watchdog.                                                      *)

TaskWdtTypeOK ==
    /\ config \in BOOLEAN
    /\ Subscribed \subseteq Tasks /\ hasReset \in [Subscribed -> BOOLEAN]
    /\ timer \in 0 .. Timeout
    /\ quiet \in [Tasks -> Nat] /\ sinceWarn \in Nat
    /\ idleCb \in HookTables

\* Without a configuration there is no list, and the timer stands still.
ListNeedsConfig == ~config => Subscribed = {} /\ timer = 0

\* The list is never left with every flag set: someone still has to report.
SomeoneMissing == Subscribed # {} => \E t \in Subscribed : ~hasReset[t]

\* A task that has reported in this round was heard, or the interrupt has named
\* someone, since the timer started; for the others that holds of the round before.
SilenceBounded ==
    \A t \in Subscribed :
      IF hasReset[t] THEN quiet[t] <= timer \/ sinceWarn <= timer
                     ELSE quiet[t] <= Timeout + timer \/ sinceWarn <= Timeout + timer

TaskWdtInv ==
    TaskWdtTypeOK /\ ListNeedsConfig /\ SomeoneMissing /\ SilenceBounded /\ HookFollowsTask

\* The part of it that says nothing of the hooks.
TaskWdtBook == TaskWdtTypeOK /\ ListNeedsConfig /\ SomeoneMissing /\ SilenceBounded

LEMMA TaskWdtInvInit == TaskWdtInit => TaskWdtInv
<1> SUFFICES ASSUME TaskWdtInit PROVE TaskWdtInv
  OBVIOUS
<1>1. Subscribed = {}
  BY DEF TaskWdtInit, Subscribed
<1>2. hasReset \in [Subscribed -> BOOLEAN]
  BY <1>1 DEF TaskWdtInit
<1>3. idleCb \in HookTables /\ \A c \in Cores : ~Registered(idleCb, "twdt", c)
  BY HooksAssumption, TaskWdtAssumption DEF TaskWdtInit, HooksInit, HookTables, Registered
<1>4. TaskWdtTypeOK
  <2>1. config = FALSE /\ timer = 0 /\ sinceWarn = 0 /\ quiet \in [Tasks -> Nat]
    BY DEF TaskWdtInit
  <2>2. config \in BOOLEAN
    BY <2>1
  <2>3. timer \in 0 .. Timeout
    BY <2>1, TaskWdtAssumption
  <2>4. QED BY <1>1, <1>2, <1>3, <2>1, <2>2, <2>3 DEF TaskWdtTypeOK
<1>5. ListNeedsConfig /\ SomeoneMissing /\ SilenceBounded
  BY <1>1 DEF TaskWdtInit, ListNeedsConfig, SomeoneMissing, SilenceBounded
<1>6. HookFollowsTask
  BY <1>1, <1>3 DEF HookFollowsTask
<1>7. QED BY <1>4, <1>5, <1>6 DEF TaskWdtInv

-----------------------------------------------------------------------------
\* Noting a report either clears every flag and starts the timer again, or leaves
\* the timer alone and someone still to report.
LEMMA NotedCases ==
    ASSUME NEW S, NEW list \in [S -> BOOLEAN], NEW t, t \in S => list[t], Noted(list, t)
    PROVE  \/ /\ \A u \in S : u # t => list[u]
              /\ timer' = 0 /\ hasReset' = [u \in S |-> FALSE]
           \/ /\ \E u \in S : u # t /\ ~list[u]
              /\ timer' = timer /\ hasReset' = list
<1>1. DOMAIN list = S
  OBVIOUS
<1>2. CASE OthersReset(list, t)
  BY <1>1, <1>2 DEF Noted, OthersReset
<1>3. CASE ~OthersReset(list, t)
  BY <1>1, <1>3 DEF Noted, OthersReset
<1>4. QED BY <1>2, <1>3

\* A step that notes a report of t, who is then heard, keeps the books: the others on
\* the list are those who were on it, with the flags they had.
LEMMA NotedKeepsBook ==
    ASSUME TaskWdtBook, config, config',
           NEW t \in Tasks, NEW S \in SUBSET Tasks, NEW list \in [S -> BOOLEAN],
           t \in S => list[t],
           \A u \in S : u # t => u \in Subscribed /\ list[u] = hasReset[u],
           Noted(list, t),
           quiet' = [quiet EXCEPT ![t] = 0], sinceWarn' = sinceWarn,
           idleCb' \in HookTables
    PROVE  TaskWdtBook'
<1> USE TaskWdtAssumption
<1>1. /\ DOMAIN hasReset = Subscribed /\ timer \in Nat /\ timer <= Timeout
      /\ quiet \in [Tasks -> Nat] /\ sinceWarn \in Nat /\ Timeout \in Nat
  BY DEF TaskWdtBook, TaskWdtTypeOK, Subscribed
<1>2. /\ quiet' \in [Tasks -> Nat] /\ quiet'[t] = 0
      /\ \A u \in Tasks : u # t => quiet'[u] = quiet[u]
  BY <1>1
<1>3. \A u \in S : u # t =>
        IF list[u] THEN quiet[u] <= timer \/ sinceWarn <= timer
                   ELSE quiet[u] <= Timeout + timer \/ sinceWarn <= Timeout + timer
  BY DEF TaskWdtBook, SilenceBounded
<1>4. CASE /\ \A u \in S : u # t => list[u]
           /\ timer' = 0 /\ hasReset' = [u \in S |-> FALSE]
  <2>1. Subscribed' = S
    BY <1>4 DEF Subscribed
  <2>2. TaskWdtTypeOK' /\ ListNeedsConfig'
    BY <1>1, <1>2, <1>4, <2>1 DEF TaskWdtTypeOK, ListNeedsConfig
  <2>3. SomeoneMissing'
    BY <1>4, <2>1 DEF SomeoneMissing
  <2>4. ASSUME NEW u \in S
        PROVE  quiet'[u] <= Timeout \/ sinceWarn' <= Timeout
    BY <1>1, <1>2, <1>3, <1>4
  <2>5. SilenceBounded'
    BY <1>1, <1>4, <2>1, <2>4 DEF SilenceBounded
  <2>6. QED BY <2>2, <2>3, <2>5 DEF TaskWdtBook
<1>5. CASE /\ \E u \in S : u # t /\ ~list[u]
           /\ timer' = timer /\ hasReset' = list
  <2>1. Subscribed' = S
    BY <1>5 DEF Subscribed
  <2>2. TaskWdtTypeOK' /\ ListNeedsConfig'
    BY <1>1, <1>2, <1>5, <2>1 DEF TaskWdtBook, TaskWdtTypeOK, ListNeedsConfig
  <2>3. SomeoneMissing'
    BY <1>5, <2>1 DEF SomeoneMissing
  <2>4. SilenceBounded'
    <3>1. ASSUME NEW u \in S, u # t
          PROVE  IF list[u] THEN quiet'[u] <= timer \/ sinceWarn' <= timer
                   ELSE quiet'[u] <= Timeout + timer \/ sinceWarn' <= Timeout + timer
      BY <1>2, <1>3, <3>1
    <3>2. t \in S => quiet'[t] <= timer
      BY <1>1, <1>2
    <3>3. QED BY <1>5, <2>1, <3>1, <3>2 DEF SilenceBounded
  <2>5. QED BY <2>2, <2>3, <2>4 DEF TaskWdtBook
<1>6. QED BY <1>4, <1>5, NotedCases

\* The tables of hooks stay tables of hooks.
LEMMA HookTablesKept ==
    ASSUME idleCb \in HookTables, NEW t \in Tasks
    PROVE  HookAdded(t) \/ HookRemoved(t) => idleCb' \in HookTables
<1>1. "twdt" \in Callbacks
  BY TaskWdtAssumption
<1>2. CASE t \in Cores
  BY <1>1, <1>2, WithHookRegisters, WithoutHookDeregisters
     DEF HookAdded, HookRemoved, RegisterIdle, DeregisterIdle
<1>3. CASE t \notin Cores
  BY <1>3 DEF HookAdded, HookRemoved
<1>4. QED BY <1>2, <1>3

\* Configuring the watchdog leaves the list as it is: a new one is as empty as the
\* one that was not there.
LEMMA ConfiguredKeepsList ==
    ASSUME ListNeedsConfig, Configured
    PROVE  /\ Subscribed' = Subscribed
           /\ \A t \in Subscribed : hasReset'[t] = hasReset[t]
           /\ hasReset \in [Subscribed -> BOOLEAN] => hasReset' \in [Subscribed -> BOOLEAN]
<1>1. (config => hasReset' = hasReset) /\ (~config => hasReset' = <<>>)
  BY DEF Configured
<1>2. ~config => Subscribed = {}
  BY DEF ListNeedsConfig
<1>3. hasReset' = hasReset \/ (Subscribed = {} /\ hasReset' = <<>>)
  BY <1>1, <1>2
<1>4. QED BY <1>3 DEF Subscribed

\* Every step of the task watchdog keeps the list, the timer and the times in order.
LEMMA TaskWdtBookStep ==
    ASSUME TaskWdtInv, [TaskWdtNext]_taskWdtVars
    PROVE  TaskWdtBook'
<1> USE TaskWdtAssumption
<1>0. TaskWdtBook
  BY DEF TaskWdtInv, TaskWdtBook
<1>1. /\ DOMAIN hasReset = Subscribed /\ timer \in Nat /\ timer <= Timeout
      /\ quiet \in [Tasks -> Nat] /\ sinceWarn \in Nat /\ Timeout \in Nat
      /\ Subscribed \subseteq Tasks /\ hasReset \in [Subscribed -> BOOLEAN]
      /\ idleCb \in HookTables /\ config \in BOOLEAN
  BY <1>0 DEF TaskWdtBook, TaskWdtTypeOK, Subscribed
<1>2. CASE Configured
  <2>1. ListNeedsConfig
    BY <1>0 DEF TaskWdtBook
  <2>2. Subscribed' = Subscribed /\ hasReset' \in [Subscribed -> BOOLEAN]
    BY <1>1, <1>2, <2>1, ConfiguredKeepsList
  <2>3. \A t \in Subscribed : hasReset'[t] = hasReset[t]
    BY <1>2, <2>1, ConfiguredKeepsList
  <2>4. SomeoneMissing'
    BY <1>0, <2>2, <2>3 DEF TaskWdtBook, SomeoneMissing
  <2>5. quiet' \in [Tasks -> Nat] /\ \A t \in Tasks : quiet'[t] = 0
    BY <1>2 DEF Configured
  <2>6. config' = TRUE /\ timer' = 0 /\ sinceWarn' = 0 /\ idleCb' = idleCb
    BY <1>2 DEF Configured, hookVars
  <2>7. TaskWdtTypeOK' /\ ListNeedsConfig'
    BY <1>1, <2>2, <2>5, <2>6 DEF TaskWdtTypeOK, ListNeedsConfig
  <2>8. SilenceBounded'
    BY <1>1, <2>2, <2>5, <2>6 DEF SilenceBounded
  <2>9. QED BY <2>4, <2>7, <2>8 DEF TaskWdtBook
<1>3. CASE Deinit
  <2>1. Subscribed = {} /\ Subscribed' = {} /\ hasReset' = hasReset
    BY <1>3 DEF Deinit, Subscribed
  <2>2. /\ config' = FALSE /\ timer' = 0 /\ idleCb' = idleCb /\ quiet' = quiet
        /\ sinceWarn' = sinceWarn
    BY <1>3 DEF Deinit, hookVars
  <2>3. config' \in BOOLEAN
    BY <2>2
  <2>4. timer' \in 0 .. Timeout
    BY <1>1, <2>2
  <2>5. TaskWdtTypeOK'
    BY <1>1, <2>1, <2>2, <2>3, <2>4 DEF TaskWdtTypeOK
  <2>6. QED BY <2>1, <2>2, <2>5
            DEF TaskWdtBook, ListNeedsConfig, SomeoneMissing, SilenceBounded
<1>4. CASE Interrupt
  <2>1. Subscribed' = Subscribed /\ hasReset' = hasReset /\ timer' = 0 /\ quiet' = quiet
    BY <1>4 DEF Interrupt, Subscribed
  <2>2. Subscribed # {} => sinceWarn' = 0
    BY <1>0, <1>4 DEF Interrupt, TaskWdtBook, SomeoneMissing
  <2>3. sinceWarn' \in Nat /\ config' = config /\ idleCb' = idleCb /\ config
    BY <1>1, <1>4 DEF Interrupt, hookVars
  <2>4. TaskWdtTypeOK' /\ ListNeedsConfig'
    BY <1>1, <2>1, <2>3 DEF TaskWdtTypeOK, ListNeedsConfig
  <2>5. SomeoneMissing' /\ SilenceBounded'
    BY <1>0, <1>1, <2>1, <2>2 DEF TaskWdtBook, SomeoneMissing, SilenceBounded
  <2>6. QED BY <2>4, <2>5 DEF TaskWdtBook
<1>5. CASE OtherHooks
  <2>1. "other" \in Callbacks
    OBVIOUS
  <2>2. idleCb' \in HookTables
    BY <1>1, <1>5, <2>1, WithHookRegisters, WithoutHookDeregisters
       DEF OtherHooks, RegisterIdle, DeregisterIdle
  <2>3. UNCHANGED wdtVars /\ Subscribed' = Subscribed
    BY <1>5 DEF OtherHooks, wdtVars, Subscribed
  <2>4. QED BY <1>0, <2>2, <2>3
            DEF wdtVars, TaskWdtBook, TaskWdtTypeOK, ListNeedsConfig, SomeoneMissing,
                SilenceBounded
<1>6. CASE Tick
  <2>1. \A n \in Nat : Later(n) \in Nat /\ Later(n) <= n + 1
    BY DEF Later
  <2>2. /\ Subscribed' = Subscribed /\ hasReset' = hasReset /\ config' = config
        /\ idleCb' = idleCb /\ timer' = IF config THEN timer + 1 ELSE 0
        /\ timer' <= Timeout /\ timer' \in Nat
    BY <1>1, <1>6 DEF Tick, Subscribed, hookVars
  <2>3. /\ quiet' \in [Tasks -> Nat] /\ sinceWarn' \in Nat
        /\ sinceWarn' <= sinceWarn + 1
        /\ \A t \in Subscribed : quiet'[t] <= quiet[t] + 1
    BY <1>1, <1>6, <2>1 DEF Tick
  <2>4. TaskWdtTypeOK' /\ ListNeedsConfig' /\ SomeoneMissing'
    BY <1>0, <1>1, <2>2, <2>3
       DEF TaskWdtBook, TaskWdtTypeOK, ListNeedsConfig, SomeoneMissing
  <2>5. SilenceBounded'
    <3>1. SUFFICES ASSUME NEW t \in Subscribed
                   PROVE  IF hasReset[t] THEN quiet'[t] <= timer' \/ sinceWarn' <= timer'
                            ELSE quiet'[t] <= Timeout + timer' \/ sinceWarn' <= Timeout + timer'
      BY <2>2 DEF SilenceBounded
    <3>2. timer' = timer + 1
      BY <1>0, <2>2 DEF TaskWdtBook, ListNeedsConfig
    <3>3. IF hasReset[t] THEN quiet[t] <= timer \/ sinceWarn <= timer
                         ELSE quiet[t] <= Timeout + timer \/ sinceWarn <= Timeout + timer
      BY <1>0 DEF TaskWdtBook, SilenceBounded
    <3>4. quiet[t] \in Nat /\ quiet'[t] \in Nat /\ quiet'[t] <= quiet[t] + 1
      BY <1>1, <2>3
    <3>5. QED BY <1>1, <2>3, <3>2, <3>3, <3>4
  <2>6. QED BY <2>4, <2>5 DEF TaskWdtBook
<1>7. ASSUME NEW t \in Tasks, Add(t) PROVE TaskWdtBook'
  <2> DEFINE S == Subscribed \cup {t}
             list == [u \in S |-> IF u = t THEN TRUE ELSE hasReset[u]]
  <2>1. /\ S \in SUBSET Tasks /\ list \in [S -> BOOLEAN] /\ list[t]
        /\ \A u \in S : u # t => u \in Subscribed /\ list[u] = hasReset[u]
    BY <1>1
  <2>2. Noted(list, t)
    BY <1>7 DEF Add
  <2>3. idleCb' \in HookTables
    BY <1>1, <1>7, HookTablesKept DEF Add
  <2>4. /\ config /\ config' /\ quiet' = [quiet EXCEPT ![t] = 0]
        /\ sinceWarn' = sinceWarn
    BY <1>7 DEF Add
  <2> HIDE DEF S, list
  <2>5. QED BY <1>0, <2>1, <2>2, <2>3, <2>4, NotedKeepsBook
<1>8. ASSUME NEW t \in Tasks, Reset(t) PROVE TaskWdtBook'
  <2> DEFINE list == [hasReset EXCEPT ![t] = TRUE]
  <2>1. /\ Subscribed \in SUBSET Tasks /\ list \in [Subscribed -> BOOLEAN] /\ list[t]
        /\ \A u \in Subscribed : u # t => list[u] = hasReset[u]
    BY <1>1, <1>8 DEF Reset
  <2>2. Noted(list, t)
    BY <1>8 DEF Reset
  <2>3. /\ config /\ config' /\ quiet' = [quiet EXCEPT ![t] = 0]
        /\ sinceWarn' = sinceWarn /\ idleCb' \in HookTables
    BY <1>1, <1>8 DEF Reset, hookVars
  <2> HIDE DEF list
  <2>4. QED BY <1>0, <2>1, <2>2, <2>3, NotedKeepsBook
<1>9. ASSUME NEW t \in Tasks, Delete(t) PROVE TaskWdtBook'
  <2> DEFINE S == Subscribed \ {t}
             list == [u \in S |-> hasReset[u]]
  <2>1. /\ S \in SUBSET Tasks /\ list \in [S -> BOOLEAN] /\ t \notin S
        /\ \A u \in S : u \in Subscribed /\ list[u] = hasReset[u]
    BY <1>1
  <2>2. Noted(list, t)
    BY <1>9 DEF Delete
  <2>3. idleCb' \in HookTables
    BY <1>1, <1>9, HookTablesKept DEF Delete
  <2>4. /\ config /\ config' /\ quiet' = [quiet EXCEPT ![t] = 0]
        /\ sinceWarn' = sinceWarn
    BY <1>9 DEF Delete
  <2> HIDE DEF S, list
  <2>5. QED BY <1>0, <2>1, <2>2, <2>3, <2>4, NotedKeepsBook
<1>10. CASE UNCHANGED taskWdtVars
  BY <1>0, <1>10
     DEF taskWdtVars, hookVars, wdtVars, TaskWdtBook, TaskWdtTypeOK, ListNeedsConfig,
         SomeoneMissing, SilenceBounded, Subscribed
<1>11. QED BY <1>2, <1>3, <1>4, <1>5, <1>6, <1>7, <1>8, <1>9, <1>10
           DEF TaskWdtNext, IdleHook, Tasks

\* Every step keeps the hooks in step with the list: it leaves both alone, or changes
\* the registration of the one task it adds or deletes.
LEMMA HookFollowsStep ==
    ASSUME TaskWdtInv, [TaskWdtNext]_taskWdtVars
    PROVE  HookFollowsTask'
<1>1. /\ idleCb \in HookTables /\ HookFollowsTask
      /\ hasReset \in [Subscribed -> BOOLEAN] /\ ~config => Subscribed = {}
  BY DEF TaskWdtInv, TaskWdtTypeOK, ListNeedsConfig
<1>2. "twdt" \in Callbacks /\ "other" \in Callbacks
  BY TaskWdtAssumption
<1>3. ASSUME idleCb' = idleCb, Subscribed' = Subscribed
      PROVE  HookFollowsTask'
  BY <1>1, <1>3 DEF HookFollowsTask
<1>4. ASSUME NEW S, NEW list, DOMAIN list = S, NEW t, Noted(list, t)
      PROVE  Subscribed' = S
  BY <1>4 DEF Noted, Subscribed
<1>5. CASE Configured
  BY <1>3, <1>5, ConfiguredKeepsList DEF TaskWdtInv, Configured, hookVars
<1>6. CASE Deinit \/ Interrupt \/ Tick \/ UNCHANGED taskWdtVars
  BY <1>3, <1>6 DEF Deinit, Interrupt, Tick, hookVars, wdtVars, taskWdtVars, Subscribed
<1>7. CASE OtherHooks
  <2>1. Subscribed' = Subscribed
    BY <1>7 DEF OtherHooks, wdtVars, Subscribed
  <2>2. \A c \in Cores : Registered(idleCb', "twdt", c) <=> Registered(idleCb, "twdt", c)
    BY <1>1, <1>2, <1>7, WithHookRegisters, WithoutHookDeregisters
       DEF OtherHooks, RegisterIdle, DeregisterIdle
  <2>3. QED BY <1>1, <2>1, <2>2 DEF HookFollowsTask, Registered
<1>8. ASSUME NEW t \in Tasks, Add(t) PROVE HookFollowsTask'
  <2>1. Subscribed' = Subscribed \cup {t}
    BY <1>4, <1>8 DEF Add
  <2>2. \A c \in Cores : Registered(idleCb', "twdt", c)
                           <=> c = t \/ Registered(idleCb, "twdt", c)
    BY <1>1, <1>2, <1>8, WithHookRegisters DEF Add, HookAdded, RegisterIdle
  <2>3. QED BY <1>1, <2>1, <2>2 DEF HookFollowsTask, Registered
<1>9. ASSUME NEW t \in Tasks, Reset(t) PROVE HookFollowsTask'
  <2>1. DOMAIN [hasReset EXCEPT ![t] = TRUE] = Subscribed
    BY DEF Subscribed
  <2>2. Subscribed' = Subscribed
    BY <1>4, <1>9, <2>1 DEF Reset
  <2>3. QED BY <1>3, <1>9, <2>2 DEF Reset, hookVars
<1>10. ASSUME NEW t \in Tasks, Delete(t) PROVE HookFollowsTask'
  <2>1. Subscribed' = Subscribed \ {t}
    BY <1>4, <1>10 DEF Delete
  <2>2. \A c \in Cores : Registered(idleCb', "twdt", c)
                           <=> c # t /\ Registered(idleCb, "twdt", c)
    BY <1>1, <1>2, <1>10, WithoutHookDeregisters DEF Delete, HookRemoved, DeregisterIdle
  <2>3. QED BY <1>1, <2>1, <2>2 DEF HookFollowsTask, Registered
<1>11. QED BY <1>5, <1>6, <1>7, <1>8, <1>9, <1>10 DEF TaskWdtNext, IdleHook, Tasks

LEMMA TaskWdtInvStep == TaskWdtInv /\ [TaskWdtNext]_taskWdtVars => TaskWdtInv'
BY TaskWdtBookStep, HookFollowsStep DEF TaskWdtInv, TaskWdtBook

\* The types, and what the timer, the flags and the times of the task watchdog have
\* to do with each other (task_wdt.c).
THEOREM TaskWdtInvTheorem == TaskWdtSpec => []TaskWdtInv
BY TaskWdtInvInit, TaskWdtInvStep, PTL DEF TaskWdtSpec

\* No idle task is watched that has no way to report, and no hook reports for an
\* idle task that is not watched (esp_task_wdt_add and esp_task_wdt_delete).
THEOREM HookTheorem == TaskWdtSpec => []HookFollowsTask
<1>1. TaskWdtInv => HookFollowsTask
  BY DEF TaskWdtInv
<1>2. QED BY <1>1, TaskWdtInvTheorem, PTL

\* A task that is silent for two timeouts does not stay unnoticed (task_wdt_isr).
THEOREM SilenceTheorem == TaskWdtSpec => []SilenceIsNoticed
<1>1. TaskWdtInv => SilenceIsNoticed
  <2> SUFFICES ASSUME TaskWdtInv, NEW t \in Subscribed, quiet[t] > 2 * Timeout
               PROVE  sinceWarn <= 2 * Timeout
    BY DEF SilenceIsNoticed
  <2>1. timer \in Nat /\ timer <= Timeout /\ Timeout \in Nat
    BY TaskWdtAssumption DEF TaskWdtInv, TaskWdtTypeOK
  <2>2. quiet[t] \in Nat /\ sinceWarn \in Nat
    BY DEF TaskWdtInv, TaskWdtTypeOK
  <2>3. quiet[t] <= Timeout + timer \/ sinceWarn <= Timeout + timer
    BY <2>1, <2>2 DEF TaskWdtInv, SilenceBounded
  <2>4. QED BY <2>1, <2>2, <2>3
<1>2. QED BY <1>1, TaskWdtInvTheorem, PTL

-----------------------------------------------------------------------------
(* The list and its flags implement a watchdog.                            *)

LEMMA SharedInit == TaskWdtInit => Shared!WatchdogInit
BY DEF TaskWdtInit, Shared!WatchdogInit, Subscribed

\* The parties the abstract watchdog has heard.
Heard == {t \in Subscribed : hasReset[t]}

\* Noting a report of t, whose flag is set or who has left the list, is what the
\* abstract watchdog does on the report of the same parties.
LEMMA NotedIsNote ==
    ASSUME NEW S, NEW list \in [S -> BOOLEAN], NEW t, t \in S => list[t], Noted(list, t),
           NEW report, report = {u \in S : list[u]}
    PROVE  /\ Subscribed' = S
           /\ IF report = S
                THEN Heard' = {} /\ timer' = 0
                ELSE Heard' = report /\ UNCHANGED timer
<1>1. CASE /\ \A u \in S : u # t => list[u]
           /\ timer' = 0 /\ hasReset' = [u \in S |-> FALSE]
  <2>1. report = S
    BY <1>1
  <2>2. Subscribed' = S /\ Heard' = {}
    BY <1>1 DEF Subscribed, Heard
  <2>3. QED BY <1>1, <2>1, <2>2
<1>2. CASE /\ \E u \in S : u # t /\ ~list[u]
           /\ timer' = timer /\ hasReset' = list
  <2>1. report # S
    BY <1>2
  <2>2. Subscribed' = S /\ Heard' = report
    BY <1>2 DEF Subscribed, Heard
  <2>3. QED BY <1>2, <2>1, <2>2
<1>3. QED BY <1>1, <1>2, NotedCases

\* Each call is a report, a subscription or a configuration of the abstract watchdog.
LEMMA SharedStep ==
    ASSUME TaskWdtInv, [TaskWdtNext]_taskWdtVars
    PROVE  [Shared!WatchdogNext]_(Shared!watchdogVars)
<1> USE DEF Heard
<1>1. /\ hasReset \in [Subscribed -> BOOLEAN] /\ Subscribed \subseteq Tasks
      /\ ListNeedsConfig
  BY DEF TaskWdtInv, TaskWdtTypeOK
<1>2. ASSUME UNCHANGED hasReset
      PROVE  Subscribed' = Subscribed /\ Heard' = Heard
  BY <1>2 DEF Subscribed
<1>3. CASE Configured
  <2>1. Subscribed' = Subscribed /\ Heard' = Heard
    BY <1>1, <1>3, ConfiguredKeepsList
  <2>2. Shared!Configure
    BY <1>3, <2>1 DEF Configured, Shared!Configure
  <2>3. QED BY <2>2 DEF Shared!WatchdogNext
<1>4. CASE Deinit
  <2>1. Shared!Configure
    BY <1>2, <1>4 DEF Deinit, Shared!Configure
  <2>2. QED BY <2>1 DEF Shared!WatchdogNext
<1>5. CASE Interrupt
  <2>1. timer >= Timeout
    BY <1>5, TaskWdtAssumption DEF Interrupt
  <2>2. Shared!GoOff
    BY <1>2, <1>5, <2>1 DEF Interrupt, Shared!GoOff
  <2>3. QED BY <2>2 DEF Shared!WatchdogNext
<1>6. CASE OtherHooks \/ UNCHANGED taskWdtVars
  <2>1. UNCHANGED Shared!watchdogVars
    BY <1>2, <1>6 DEF OtherHooks, wdtVars, taskWdtVars, Shared!watchdogVars
  <2>2. QED BY <2>1
<1>7. CASE Tick
  <2>1. (config => timer' = timer + 1) /\ (~config => timer' = timer)
    BY <1>1, <1>7 DEF Tick, ListNeedsConfig
  <2>2. Subscribed' = Subscribed /\ Heard' = Heard
    BY <1>2, <1>7 DEF Tick
  <2>3. Shared!Pass \/ UNCHANGED Shared!watchdogVars
    BY <2>1, <2>2 DEF Shared!Pass, Shared!watchdogVars
  <2>4. QED BY <2>3 DEF Shared!WatchdogNext
<1>8. ASSUME NEW t \in Tasks, Add(t) PROVE Shared!Join(t)
  <2> DEFINE S == Subscribed \cup {t}
             list == [u \in S |-> IF u = t THEN TRUE ELSE hasReset[u]]
             report == Heard \cup {t}
  <2>1. t \notin Subscribed /\ Noted(list, t)
    BY <1>8 DEF Add
  <2>2. list \in [S -> BOOLEAN] /\ list[t]
    BY <1>1
  <2>3. {u \in S : list[u]} = report
    BY <1>1
  <2>4. /\ Subscribed' = S
        /\ IF report = S THEN Heard' = {} /\ timer' = 0
                         ELSE Heard' = report /\ UNCHANGED timer
    <3> HIDE DEF S, list, report
    <3> QED BY <2>1, <2>2, <2>3, NotedIsNote
  <2>5. QED BY <2>1, <2>4 DEF Shared!Join, Shared!Note
<1>9. ASSUME NEW t \in Tasks, Reset(t) PROVE Shared!Hear(t)
  <2> DEFINE list == [hasReset EXCEPT ![t] = TRUE]
             report == Heard \cup {t}
  <2>1. t \in Subscribed /\ Noted(list, t)
    BY <1>9 DEF Reset
  <2>2. list \in [Subscribed -> BOOLEAN] /\ list[t]
    BY <1>1, <2>1
  <2>3. {u \in Subscribed : list[u]} = report
    BY <1>1, <2>1
  <2>4. /\ Subscribed' = Subscribed
        /\ IF report = Subscribed THEN Heard' = {} /\ timer' = 0
                         ELSE Heard' = report /\ UNCHANGED timer
    <3> HIDE DEF list, report
    <3> QED BY <2>1, <2>2, <2>3, NotedIsNote
  <2>5. QED BY <2>1, <2>4 DEF Shared!Hear, Shared!Note
<1>10. ASSUME NEW t \in Tasks, Delete(t) PROVE Shared!Leave(t)
  <2> DEFINE S == Subscribed \ {t}
             list == [u \in S |-> hasReset[u]]
             report == Heard \ {t}
  <2>1. t \in Subscribed /\ Noted(list, t)
    BY <1>10 DEF Delete
  <2>2. list \in [S -> BOOLEAN] /\ t \notin S
    BY <1>1
  <2>3. {u \in S : list[u]} = report
    BY <1>1
  <2>4. /\ Subscribed' = S
        /\ IF report = S THEN Heard' = {} /\ timer' = 0
                         ELSE Heard' = report /\ UNCHANGED timer
    <3> HIDE DEF S, list, report
    <3> QED BY <2>1, <2>2, <2>3, NotedIsNote
  <2>5. QED BY <2>1, <2>4 DEF Shared!Leave, Shared!Note
<1>11. QED BY <1>3, <1>4, <1>5, <1>6, <1>7, <1>8, <1>9, <1>10
           DEF TaskWdtNext, IdleHook, Tasks, Shared!WatchdogNext

\* The list, its flags and the hardware timer implement a watchdog of all the tasks:
\* the timer starts again only when everyone on the list was heard since it last did,
\* when the watchdog is configured, or when it has run out (task_wdt.c).
THEOREM SharedTheorem == TaskWdtSpec => SharedSpec
<1>1. TaskWdtInv /\ [TaskWdtNext]_taskWdtVars => [Shared!WatchdogNext]_(Shared!watchdogVars)
  BY SharedStep
<1>2. QED BY <1>1, SharedInit, TaskWdtInvTheorem, PTL
          DEF TaskWdtSpec, SharedSpec, Shared!WatchdogSpec
=============================================================================
