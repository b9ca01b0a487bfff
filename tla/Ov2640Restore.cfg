CONSTANTS
    Settings = {"agc", "colorbar"}
    MaxBusFaults = 1
SPECIFICATION Ov2640Spec
INVARIANT SettingsRestored
CHECK_DEADLOCK FALSE
