CONSTANTS
    MaxRetryCount = 2
    MaxDrops = 2
    MaxReboots = 1
    Cores = {cpu0, cpu1}
    cpu0 = cpu0
    cpu1 = cpu1
    ProCore = cpu0
    AppCore = cpu1
    MaxHooks = 2
    Callbacks = {"twdt", "other", "int_wdt"}
    Workers = {worker}
    worker = worker
    Timeout = 2
    MaxInits = 2
    IntTimeout = 3
    InitialTimeout = 5
    Users = {wifi, bt}
    wifi = wifi
    bt = bt
    MaxChip = 2
    None = None
    MaxVersion = 2
    MaxRestarts = 3
    GoesBack = FALSE
    SameCore = TRUE
    NoCamera = NoCamera
    DmaBufferMax = 32768
    Settings = {"agc", "vflip"}
    MaxBusFaults = 1
SPECIFICATION MCSpec
INVARIANTS
    HandlerHasGroup
    FailureIsFinal
    TasksFollowBoot
    SilenceIsNoticed
    HookFollowsTask
    DeafCoreIsCaught
    LoadedIsOurs
    AllOrNothing
    FreedIsUnused
    PictureFits
    WindowFits
    StatusIsTrue
PROPERTIES
    BootEnds
    SharedSpec
    BothSpec
    StaysCalibrated
CHECK_DEADLOCK FALSE
