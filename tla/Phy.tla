-------------------------------- MODULE Phy --------------------------------
(***************************************************************************)
(* The radio and its calibration data (esp_wifi/src/phy_init.c).  The      *)
(* first user of the radio after a start loads the calibration data from   *)
(* flash; without data for this chip and this software the radio is        *)
(* calibrated in full and three entries are written, one after the other.  *)
(* The board may lose its power, or restart, between any two writes.       *)
(***************************************************************************)
EXTENDS Naturals

CONSTANTS
    Users,       \* the drivers that enable the radio
    MaxChip,     \* boards the flash, or a copy of it, is put on, 1 .. MaxChip
    MaxVersion,  \* versions of the calibration's format, 1 .. MaxVersion
    MaxRestarts, \* bound: restarts
    GoesBack,    \* older software may come after newer, and a board used before again
    None         \* no entry, no data, nobody

ASSUME PhyAssumption ==
    /\ {MaxChip, MaxVersion} \subseteq Nat \ {0} /\ MaxRestarts \in Nat
    /\ GoesBack \in BOOLEAN
    /\ None \notin Nat \cup Users \cup [chip : Nat, version : Nat]

Chips == 1 .. MaxChip
Versions == 1 .. MaxVersion

VARIABLES
    flash,      \* the entries of the namespace "phy"
    chip,       \* the board: its factory MAC address
    version,    \* phy_get_rf_cal_version of the software
    reason,     \* why the board started
    restarts,
    calibrated, \* s_is_phy_calibrated
    radioUsers, \* the users that have the radio enabled
    ref,        \* s_phy_access_ref
    rf,         \* the radio and its clock are on
    caller,     \* who holds s_phy_access_lock while the radio is calibrated
    pc, mode, calData

boardVars == <<chip, version, reason, restarts>>
radioVars == <<calibrated, radioUsers, ref, rf, caller>>
phyVars == <<flash, boardVars, radioVars, pc, mode, calData>>

Ours == [chip |-> chip, version |-> version]
NoEntries == [data |-> None, mac |-> None, version |-> None]

PhyInit ==
    /\ flash = NoEntries
    /\ chip = 1 /\ version = 1 /\ reason = "power on" /\ restarts = 0
    /\ calibrated = FALSE /\ radioUsers = {} /\ ref = 0 /\ rf = FALSE /\ caller = None
    /\ pc = "idle" /\ mode = None /\ calData = None

-----------------------------------------------------------------------------
\* load_cal_data_from_nvs_handle: the version, the address and the data.
Loadable == flash.version = version /\ flash.mac = chip /\ flash.data # None

\* esp_phy_enable when nobody uses the radio: the clock is switched on, and the
\* radio wakes up, or is calibrated for the first time.
EnableFirst(u) ==
    /\ caller = None /\ u \notin radioUsers /\ ref = 0
    /\ rf' = TRUE
    /\ IF calibrated
         THEN radioUsers' = {u} /\ ref' = 1 /\ UNCHANGED <<caller, pc>>
         ELSE caller' = u /\ pc' = "load" /\ UNCHANGED <<radioUsers, ref>>
    /\ UNCHANGED <<flash, boardVars, calibrated, mode, calData>>

EnableNext(u) ==
    /\ caller = None /\ u \notin radioUsers /\ ref > 0
    /\ radioUsers' = radioUsers \cup {u} /\ ref' = ref + 1
    /\ UNCHANGED <<flash, boardVars, calibrated, rf, caller, pc, mode, calData>>

\* esp_phy_disable: the last user puts the registers away and closes the radio.
LastUser == ref = 1
Disable(u) ==
    /\ caller = None /\ u \in radioUsers
    /\ radioUsers' = radioUsers \ {u} /\ ref' = ref - 1
    /\ rf' = ~LastUser
    /\ UNCHANGED <<flash, boardVars, calibrated, caller, pc, mode, calData>>

\* esp_phy_load_cal_and_init chooses the calibration.
LoadCalData ==
    /\ pc = "load"
    /\ IF Loadable
         THEN /\ mode' = IF reason = "deep sleep" THEN "none" ELSE "partial"
              /\ calData' = flash.data
         ELSE mode' = "full" /\ calData' = None
    /\ pc' = "calibrate"
    /\ UNCHANGED <<flash, boardVars, radioVars>>

\* register_chipv7_phy calibrates in its mode.  It may find the checksum of the
\* data it was given wrong, and then the data it made is stored as well.
Calibrate ==
    /\ pc = "calibrate"
    /\ calData' = Ours
    /\ IF mode = "full" THEN pc' = "store data" ELSE pc' \in {"store data", "done"}
    /\ UNCHANGED <<flash, boardVars, radioVars, mode>>

\* store_cal_data_to_nvs_handle.  An entry may not be written, and ends it.
Store(entry, value, before, after) ==
    /\ pc = before
    /\ \/ flash' = [flash EXCEPT ![entry] = value] /\ pc' = after
       \/ UNCHANGED flash /\ pc' = "done"
    /\ UNCHANGED <<boardVars, radioVars, mode, calData>>

StoreEntries_VersionFirst ==
    \/ Store("version", version, "store data", "store mac")
    \/ Store("mac", chip, "store mac", "store version")
    \/ Store("data", calData, "store version", "done")
StoreEntries_EraseFirst ==
    \/ /\ pc = "store data"
       /\ flash' = [NoEntries EXCEPT !.data = calData] /\ pc' = "store mac"
       /\ UNCHANGED <<boardVars, radioVars, mode, calData>>
    \/ Store("mac", chip, "store mac", "store version")
    \/ Store("version", version, "store version", "done")
StoreEntries ==
    \/ Store("data", calData, "store data", "store mac")
    \/ Store("mac", chip, "store mac", "store version")
    \/ Store("version", version, "store version", "done")

\* The end of esp_phy_enable.
Calibrated ==
    /\ pc = "done"
    /\ calibrated' = TRUE /\ radioUsers' = radioUsers \cup {caller} /\ ref' = ref + 1
    /\ caller' = None /\ pc' = "idle"
    /\ UNCHANGED <<flash, boardVars, rf, mode, calData>>

\* esp_phy_erase_cal_data_in_nvs, from an application.
Erase ==
    /\ flash' = NoEntries
    /\ UNCHANGED <<boardVars, radioVars, pc, mode, calData>>

\* A restart at any moment, a brownout's included, keeps only the flash.  While the
\* power is off other software may be installed, or the flash moved to another board.
Restart ==
    /\ restarts < MaxRestarts /\ restarts' = restarts + 1
    /\ reason' \in {"power on", "deep sleep", "brownout"}
    /\ IF reason' = "power on"
         THEN /\ version' \in {v \in Versions : GoesBack \/ v >= version}
              /\ chip' \in {c \in Chips : GoesBack \/ c >= chip}
         ELSE UNCHANGED <<version, chip>>
    /\ calibrated' = FALSE /\ radioUsers' = {} /\ ref' = 0 /\ rf' = FALSE /\ caller' = None
    /\ pc' = "idle" /\ mode' = None /\ calData' = None
    /\ UNCHANGED flash

PhyNext ==
    \/ \E u \in Users : EnableFirst(u) \/ EnableNext(u) \/ Disable(u)
    \/ LoadCalData \/ Calibrate \/ StoreEntries \/ Calibrated \/ Erase \/ Restart

PhySpec == PhyInit /\ [][PhyNext]_phyVars

-----------------------------------------------------------------------------
\* esp_phy_init.h:107-110: data of a chip with a different address, or of another
\* version of the software, is not loaded, wherever a restart cut the writing short.
LoadedIsOurs ==
    pc = "calibrate" /\ mode # "full" => calData = Ours

\* Once a board has its data in flash, restarts do not cost it a calibration: only
\* erasing it, other software or another board does.
StaysCalibrated ==
    [][Loadable /\ ~Erase /\ UNCHANGED <<chip, version>> => Loadable']_phyVars
=============================================================================
