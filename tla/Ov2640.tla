------------------------------- MODULE Ov2640 -------------------------------
(***************************************************************************)
(* The settings of the OV2640 (esp32-camera/sensors/ov2640.c) over the     *)
(* SCCB bus (driver/sccb.c), as esp_camera_init, the application and the   *)
(* settings saved in NVS (driver/esp_camera.c) use them.  The sensor has   *)
(* two banks of registers behind the same addresses; the driver remembers  *)
(* in a static variable which one it selected last.  Each setting is kept  *)
(* twice: as bits of a register of the sensor, and in the driver's status. *)
(* A transfer on the bus may fail: a failed write is an error, and a       *)
(* failed read is 0xFF.                                                    *)
(***************************************************************************)
EXTENDS Naturals, Sequences

CONSTANTS
    Settings,    \* the settings the application changes
    MaxBusFaults \* bound: failed transfers between two starts

Banks == {"dsp", "sensor"}

\* The bank and the register of each setting that is a bit.
Place ==
    [colorbar |-> <<"sensor", "COM7">>, agc |-> <<"sensor", "COM8">>,
     aec |-> <<"sensor", "COM8">>, hmirror |-> <<"sensor", "REG04">>,
     vflip |-> <<"sensor", "REG04">>, aec2 |-> <<"dsp", "CTRL0">>,
     dcw |-> <<"dsp", "CTRL2">>, raw_gma |-> <<"dsp", "CTRL1">>,
     awb |-> <<"dsp", "CTRL1">>, awb_gain |-> <<"dsp", "CTRL1">>,
     lenc |-> <<"dsp", "CTRL1">>, bpc |-> <<"dsp", "CTRL3">>, wpc |-> <<"dsp", "CTRL3">>]
Status == DOMAIN Place

ASSUME Ov2640Assumption == Settings \subseteq Status /\ MaxBusFaults \in Nat

Addresses == {"COM7", "COM8", "REG04", "CTRL0", "CTRL1", "CTRL2", "CTRL3", "other"}
RegisterFile == Banks \X Addresses
BitsOf(r) == {s \in Status : Place[s] = r}

VARIABLES
    regBank,      \* reg_bank, the driver's idea of the bank
    chipBank,     \* the bank that is selected
    regs,         \* the settings that are on, in each register
    sensorStatus, \* the settings that are on, in sensor->status
    stage,        \* of the camera: off, starting, ready, or busy with a call
    script,       \* the calls, as transfers, that are left of what was begun
    stored,       \* the settings in NVS, if there are any
    loaded,       \* the last call was a load
    busFaults

busVars == <<regBank, chipBank, regs>>
nvsVars == <<stored, loaded>>
ov2640Vars == <<busVars, sensorStatus, stage, script, nvsVars, busFaults>>

Ov2640Init ==
    /\ regBank = "max" /\ chipBank \in Banks
    /\ regs = [r \in RegisterFile |-> {}]
    /\ sensorStatus = {} /\ stage = "off" /\ script = <<>>
    /\ stored = {} /\ loaded = FALSE /\ busFaults = 0

-----------------------------------------------------------------------------
(* Calls, as the transfers they are made of.                                *)

Transfer(kind, reg, on, off) == [kind |-> kind, reg |-> reg, on |-> on, off |-> off]
Write(bank, address, on) == Transfer("write", <<bank, address>>, on, {})
SetBits(s, on) == Transfer("bits", Place[s], on, {s})
ReadBit(s) == Transfer("read", Place[s], {}, {s})

\* What the caller makes of an error: it gives up, or goes on.
Call(onError, on, off, transfers) ==
    [onError |-> onError, on |-> on, off |-> off, transfers |-> transfers]

\* The setters: on is {s} or empty.  The one of aec2 writes the bit the other way round.
Setter(s, on) ==
    Call("ignored", on, {s}, <<SetBits(s, IF s = "aec2" THEN {s} \ on ELSE on)>>)

\* The setter of vflip first writes another bit of the same register, and goes on
\* whatever comes of it.
SetVref == Call("ignored", {}, {}, <<Transfer("bits", Place["vflip"], {}, {})>>)

\* set_framesize: the table of the mode clears COM7 and enables DCW again.
SetFramesize(onError) ==
    Call(onError, {}, {},
         <<Write("dsp", "other", {}), Write("sensor", "COM7", {}),
           Write("dsp", "CTRL2", {"dcw"}), Write("sensor", "other", {}),
           Write("dsp", "other", {})>>)

SetPixformat == Call("ignored", {}, {}, <<Write("dsp", "other", {})>>)

\* reset: a software reset, and ov2640_settings_cif.
SensorReset ==
    Call("fatal", {}, {},
         <<Transfer("reset", <<"sensor", "other">>, {}, {}),
           Write("dsp", "other", {}), Write("sensor", "REG04", {}),
           Write("sensor", "COM8", {"agc", "aec"}), Write("sensor", "COM7", {}),
           Write("dsp", "CTRL3", {"wpc"}),
           Write("dsp", "CTRL1", {"raw_gma", "awb", "awb_gain"})>>)

InitStatus ==
    Call("ignored", {}, {},
         <<ReadBit("awb"), ReadBit("awb_gain"), ReadBit("aec"), ReadBit("aec2"),
           ReadBit("agc"), ReadBit("bpc"), ReadBit("wpc"), ReadBit("raw_gma"),
           ReadBit("lenc"), ReadBit("hmirror"), ReadBit("vflip"), ReadBit("dcw"),
           ReadBit("colorbar")>>)

\* esp_camera_init after the sensor was found.
StartScript ==
    <<SensorReset, SetFramesize("fatal"), SetPixformat,
      Setter("bpc", {}), Setter("wpc", {"wpc"}), Setter("lenc", {"lenc"}), InitStatus>>

\* esp_camera_load_from_nvs: every setter in turn, whatever they return.
LoadScript(settings) ==
    LET Restore(s) == Setter(s, {s} \cap settings)
    IN <<Restore("aec2"), Restore("awb_gain"), Restore("bpc"), Restore("colorbar"),
         Restore("dcw"), Restore("aec"), SetFramesize("ignored"), SetPixformat,
         Restore("agc"), Restore("hmirror"), Restore("lenc"), Restore("raw_gma"),
         SetVref, Restore("vflip"), Restore("awb"), Restore("wpc"), SetPixformat>>

-----------------------------------------------------------------------------
(* One transfer at a time.                                                  *)

Busy == script # <<>>
This == script[1]
Op == This.transfers[1]
Bank == Op.reg[1]

NextTransfer ==
    IF Len(This.transfers) > 1
      THEN <<[This EXCEPT !.transfers = Tail(@)]>> \o Tail(script) ELSE Tail(script)

Begun == (sensorStatus \ This.off) \cup This.on

\* set_bank: the driver believes it before it has done it.
Chosen == IF regBank = Bank THEN chipBank ELSE Bank
Target == <<Chosen, Op.reg[2]>>

\* set_reg_bits reads the register, changes a bit and writes it back.
NewValue_Forgets(old) == Op.on
NewValue(old) == IF Op.kind = "bits" THEN (old \ Op.off) \cup Op.on ELSE Op.on

Transferred(old) ==
    CASE Op.kind \in {"write", "bits"} ->
           /\ regs' = [regs EXCEPT ![Target] = NewValue(old)]
           /\ chipBank' = Chosen /\ sensorStatus' = Begun
      [] Op.kind = "reset" ->
           /\ regs' = [r \in RegisterFile |-> {}]
           /\ chipBank' \in Banks /\ sensorStatus' = Begun
      [] Op.kind = "read" ->
           /\ sensorStatus' = (sensorStatus \ Op.off) \cup (old \cap Op.off)
           /\ chipBank' = Chosen /\ UNCHANGED regs

Succeed ==
    /\ Busy
    /\ Transferred(regs[Target])
    /\ regBank' = Bank
    /\ script' = NextTransfer
    /\ UNCHANGED <<stage, nvsVars, busFaults>>

\* SCCB_Read fails, and the call goes on: with 0xFF if the register could not be
\* addressed, with 0 if it could not be read after that.
ReadFails ==
    /\ Busy /\ Op.kind \in {"bits", "read"} /\ busFaults < MaxBusFaults
    /\ \E value \in {BitsOf(Target) \cup Op.off, {}} : Transferred(value)
    /\ regBank' = Bank
    /\ script' = NextTransfer /\ busFaults' = busFaults + 1
    /\ UNCHANGED <<stage, nvsVars>>

\* A write or the selection of a bank fails, and with it the call.  A read whose
\* selection fails is 0.
WriteFails ==
    /\ Busy /\ busFaults < MaxBusFaults
    /\ \/ Op.kind # "read" /\ chipBank' = Chosen
       \/ regBank # Bank /\ UNCHANGED chipBank
    /\ sensorStatus' = IF Op.kind = "read" THEN sensorStatus \ Op.off ELSE Begun
    /\ regBank' = Bank
    /\ IF This.onError = "fatal" THEN stage' = "off" /\ script' = <<>>
       ELSE /\ UNCHANGED stage
            /\ script' = IF Op.kind = "read" THEN NextTransfer ELSE Tail(script)
    /\ busFaults' = busFaults + 1
    /\ UNCHANGED <<regs, nvsVars>>

-----------------------------------------------------------------------------
(* The camera and the application.                                          *)

\* camera_probe: the sensor is powered down and up, if a pin is wired to it, and
\* ov2640_detect selects the bank of the sensor's registers past set_bank.  A sensor
\* that does not answer is not found.
Start ==
    /\ stage = "off" /\ script = <<>>
    /\ \/ UNCHANGED regs
       \/ regs' = [r \in RegisterFile |-> {}]
    /\ chipBank' = "sensor"
    /\ sensorStatus' = {} /\ stage' = "ready" /\ script' = StartScript
    /\ loaded' = FALSE /\ busFaults' = 0
    /\ UNCHANGED <<regBank, stored>>

\* esp_camera_deinit
Stop ==
    /\ stage = "ready" /\ script = <<>>
    /\ stage' = "off"
    /\ UNCHANGED <<busVars, sensorStatus, script, nvsVars, busFaults>>

Set(s, on) ==
    /\ stage = "ready" /\ script = <<>>
    /\ script' = IF s = "vflip" THEN <<SetVref, Setter(s, on)>> ELSE <<Setter(s, on)>>
    /\ loaded' = FALSE
    /\ UNCHANGED <<busVars, sensorStatus, stage, stored, busFaults>>

ChangeFramesize ==
    /\ stage = "ready" /\ script = <<>>
    /\ script' = <<SetFramesize("ignored"), SetPixformat>> /\ loaded' = FALSE
    /\ UNCHANGED <<busVars, sensorStatus, stage, stored, busFaults>>

\* esp_camera_save_to_nvs
Save ==
    /\ stage = "ready" /\ script = <<>>
    /\ stored' = {sensorStatus} /\ loaded' = FALSE
    /\ UNCHANGED <<busVars, sensorStatus, stage, script, busFaults>>

Load ==
    /\ stage = "ready" /\ script = <<>>
    /\ \E settings \in stored : script' = LoadScript(settings)
    /\ loaded' = TRUE
    /\ UNCHANGED <<busVars, sensorStatus, stage, stored, busFaults>>

Ov2640Next ==
    \/ Succeed \/ ReadFails \/ WriteFails
    \/ Start \/ Stop \/ ChangeFramesize \/ Save \/ Load
    \/ \E s \in Settings : \E on \in SUBSET {s} : Set(s, on)

Ov2640Spec == Ov2640Init /\ [][Ov2640Next]_ov2640Vars

-----------------------------------------------------------------------------
Idle == stage = "ready" /\ script = <<>>
On == {s \in Status : s \in regs[Place[s]]}

\* What set_framesize overwrites, and what is written one way and read another.
Overwritten == {"colorbar", "dcw"}
Inverted == {"aec2"}

\* As long as no transfer failed since the start, whatever failed before it: the
\* driver knows the sensor's bank, the status says what the sensor does, a setter
\* leaves its neighbours in the register alone, and no other register is touched.
StatusIsTrue ==
    Idle /\ busFaults = 0 =>
        /\ regBank = chipBank
        /\ (sensorStatus \ (Overwritten \cup Inverted)) = (On \ (Overwritten \cup Inverted))
        /\ \A r \in RegisterFile : regs[r] \subseteq BitsOf(r)

\* esp_camera.h:228, "Load camera settings": after a load without an error the sensor
\* does what the status said when it was saved.
SettingsRestored ==
    Idle /\ loaded /\ busFaults = 0 =>
        \A settings \in stored : On \ Inverted = settings \ Inverted
=============================================================================
