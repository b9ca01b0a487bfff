---------------------------- MODULE Ov2640Proofs ----------------------------
(***************************************************************************)
(* Proofs about Ov2640, for any settings that change and any number of     *)
(* faults on the bus.  IInv is inductive.  Its first half is about what is *)
(* left to do: of every call that is left, which transfers it consists of, *)
(* so that a table of registers either spares the settings or is followed  *)
(* by the reads of init_status (ScriptOK).  Its second is about what was   *)
(* done, as long as no transfer failed: the driver knows the bank unless   *)
(* it is about to select one, no register holds a bit of another, and each *)
(* setting is either what its register says or is yet to be read.          *)
(***************************************************************************)
EXTENDS Ov2640, TLAPS, SequenceTheorems

\* The settings whose bit and whose status are to be equal.
Kept == Status \ (Overwritten \cup Inverted)

TransferSet ==
    [kind : {"write", "bits", "read", "reset"}, reg : RegisterFile,
     on : SUBSET Status, off : SUBSET Status]
CallSet ==
    [onError : {"fatal", "ignored"}, on : SUBSET Status, off : SUBSET Status,
     transfers : Seq(TransferSet)]

\* A call that is left to be made, in a sequence of calls, is a setter, a table of
\* registers, or the reads of init_status, which come last.
IsReadOf(t, s) == t.kind = "read" /\ t.reg = Place[s] /\ t.off = {s}
Last(calls) == calls[Len(calls)]
ToBeRead(calls, s) ==
    calls # <<>> /\ \E j \in DOMAIN Last(calls).transfers :
                        IsReadOf(Last(calls).transfers[j], s)

IsSetter(c) == \E s \in Status : \E on \in SUBSET {s} : c = Setter(s, on)
IsTable(c) ==
    /\ c.on = {} /\ c.off = {}
    /\ \A j \in DOMAIN c.transfers :
          /\ c.transfers[j].kind \in {"write", "reset"}
          /\ c.transfers[j].on \subseteq BitsOf(c.transfers[j].reg)
IsReading(c) ==
    /\ c.on = {} /\ c.off = {}
    /\ \A j \in DOMAIN c.transfers : \E s \in Status : IsReadOf(c.transfers[j], s)

\* A table overwrites no setting that is kept, unless all of them are read after it.
IsNarrow(c) ==
    \A j \in DOMAIN c.transfers :
        c.transfers[j].kind = "write" /\ BitsOf(c.transfers[j].reg) \cap Kept = {}

CallOK(calls, k) ==
    /\ calls[k].transfers # <<>>
    /\ \/ IsSetter(calls[k])
       \/ calls[k] = SetVref
       \/ IsTable(calls[k]) /\ (IsNarrow(calls[k]) \/ \A s \in Kept : ToBeRead(calls, s))
       \/ k = Len(calls) /\ IsReading(calls[k])

\* The sensor is reset first or not at all, and a register of the other bank follows.
ResetIsFirst(calls) ==
    \A k \in DOMAIN calls : \A j \in DOMAIN calls[k].transfers :
        calls[k].transfers[j].kind = "reset" =>
            /\ k = 1 /\ j = 1 /\ Len(calls[k].transfers) > 1
            /\ calls[k].transfers[2].reg[1] # calls[k].transfers[1].reg[1]

ScriptOK(calls) ==
    /\ calls \in Seq(CallSet)
    /\ \A k \in DOMAIN calls : CallOK(calls, k)
    /\ ResetIsFirst(calls)

\* The bank the driver remembers is selected, unless the next write selects one.
BankKnown == regBank = chipBank \/ (Busy /\ (Op.kind = "reset" \/ regBank # Bank))
\* After a reset, which leaves anything in them, the registers are set again.
RegsClean ==
    (Busy /\ Op.kind = "reset") \/ \A r \in RegisterFile : regs[r] \subseteq BitsOf(r)
\* What the status of a setting says is in its register, or comes from there yet.
StatusAgrees ==
    \A s \in Kept : ToBeRead(script, s) \/ (s \in sensorStatus <=> s \in regs[Place[s]])

TypeInv ==
    /\ regs \in [RegisterFile -> SUBSET Status] /\ chipBank \in Banks
    /\ sensorStatus \subseteq Status /\ busFaults \in Nat
    /\ (stage = "off" => script = <<>>)

Faultless == stage = "ready" /\ busFaults = 0
IInv ==
    /\ TypeInv /\ ScriptOK(script)
    /\ (Faultless => BankKnown /\ RegsClean /\ StatusAgrees)

-----------------------------------------------------------------------------
LEMMA StatusIs ==
    Status = {"colorbar", "agc", "aec", "hmirror", "vflip", "aec2", "dcw", "raw_gma",
              "awb", "awb_gain", "lenc", "bpc", "wpc"}
  BY DEF Status, Place

LEMMA KeptIs ==
    Kept = {"agc", "aec", "hmirror", "vflip", "raw_gma", "awb", "awb_gain", "lenc", "bpc",
            "wpc"}
  BY StatusIs DEF Kept, Overwritten, Inverted

LEMMA PlaceType == \A s \in Status : Place[s] \in RegisterFile
  BY DEF Status, Place, RegisterFile, Addresses, Banks

LEMMA BitsAre ==
    /\ BitsOf(<<"sensor", "COM7">>) = {"colorbar"}
    /\ BitsOf(<<"dsp", "CTRL2">>) = {"dcw"}
    /\ BitsOf(<<"dsp", "other">>) = {} /\ BitsOf(<<"sensor", "other">>) = {}
    /\ {"agc", "aec"} \subseteq BitsOf(<<"sensor", "COM8">>)
    /\ {"wpc"} \subseteq BitsOf(<<"dsp", "CTRL3">>)
    /\ {"raw_gma", "awb", "awb_gain"} \subseteq BitsOf(<<"dsp", "CTRL1">>)
  <1>1. BitsOf(<<"sensor", "COM7">>) = {"colorbar"}
    BY StatusIs DEF BitsOf, Place
  <1>2. BitsOf(<<"dsp", "CTRL2">>) = {"dcw"}
    BY StatusIs DEF BitsOf, Place
  <1>3. BitsOf(<<"dsp", "other">>) = {} /\ BitsOf(<<"sensor", "other">>) = {}
    BY StatusIs DEF BitsOf, Place
  <1>4. {"agc", "aec"} \subseteq BitsOf(<<"sensor", "COM8">>)
    BY StatusIs DEF BitsOf, Place
  <1>5. {"wpc"} \subseteq BitsOf(<<"dsp", "CTRL3">>)
    BY StatusIs DEF BitsOf, Place
  <1>6. {"raw_gma", "awb", "awb_gain"} \subseteq BitsOf(<<"dsp", "CTRL1">>)
    BY StatusIs DEF BitsOf, Place
  <1> QED BY <1>1, <1>2, <1>3, <1>4, <1>5, <1>6

\* Every call is made of transfers.
LEMMA SetterType ==
    ASSUME NEW s \in Status, NEW on \in SUBSET {s}
    PROVE  Setter(s, on) \in CallSet
  <1> DEFINE b == IF s = "aec2" THEN {s} \ on ELSE on
  <1>1. SetBits(s, b) \in TransferSet
    BY PlaceType DEF SetBits, Transfer, TransferSet
  <1>2. <<SetBits(s, b)>> \in Seq(TransferSet)
    BY <1>1
  <1>3. on \in SUBSET Status /\ {s} \in SUBSET Status
    OBVIOUS
  <1> HIDE DEF b
  <1>4. Setter(s, on) = [onError |-> "ignored", on |-> on, off |-> {s},
                         transfers |-> <<SetBits(s, b)>>]
    BY DEF Setter, Call, b
  <1> QED BY <1>2, <1>3, <1>4 DEF CallSet

LEMMA WriteType ==
    ASSUME NEW bank \in Banks, NEW address \in Addresses, NEW on \in SUBSET Status
    PROVE  Write(bank, address, on) \in TransferSet
  BY DEF Write, Transfer, TransferSet, RegisterFile

LEMMA TablesType ==
    /\ SetVref \in CallSet
    /\ \A onError \in {"fatal", "ignored"} : SetFramesize(onError) \in CallSet
    /\ SetPixformat \in CallSet /\ SensorReset \in CallSet /\ InitStatus \in CallSet
  <1>0. /\ {"dsp", "sensor"} = Banks
        /\ {"COM7", "COM8", "REG04", "CTRL0", "CTRL1", "CTRL2", "CTRL3", "other"} = Addresses
    BY DEF Banks, Addresses
  <1>1. SetVref \in CallSet
    <2>1. Transfer("bits", Place["vflip"], {}, {}) \in TransferSet
      BY PlaceType, StatusIs DEF Transfer, TransferSet
    <2> QED BY <2>1 DEF SetVref, Call, CallSet
  <1>2. ASSUME NEW onError \in {"fatal", "ignored"} PROVE SetFramesize(onError) \in CallSet
    <2>1. /\ Write("dsp", "other", {}) \in TransferSet
          /\ Write("sensor", "COM7", {}) \in TransferSet
          /\ Write("dsp", "CTRL2", {"dcw"}) \in TransferSet
          /\ Write("sensor", "other", {}) \in TransferSet
      BY <1>0, WriteType, StatusIs
    <2> QED BY <2>1 DEF SetFramesize, Call, CallSet
  <1>3. SetPixformat \in CallSet
    <2>1. Write("dsp", "other", {}) \in TransferSet
      BY <1>0, WriteType
    <2> QED BY <2>1 DEF SetPixformat, Call, CallSet
  <1>4. SensorReset \in CallSet
    <2>1. /\ Write("dsp", "other", {}) \in TransferSet
          /\ Write("sensor", "REG04", {}) \in TransferSet
          /\ Write("sensor", "COM8", {"agc", "aec"}) \in TransferSet
          /\ Write("sensor", "COM7", {}) \in TransferSet
          /\ Write("dsp", "CTRL3", {"wpc"}) \in TransferSet
          /\ Write("dsp", "CTRL1", {"raw_gma", "awb", "awb_gain"}) \in TransferSet
      BY <1>0, WriteType, StatusIs
    <2>2. Transfer("reset", <<"sensor", "other">>, {}, {}) \in TransferSet
      BY <1>0 DEF Transfer, TransferSet, RegisterFile
    <2> QED BY <2>1, <2>2 DEF SensorReset, Call, CallSet
  <1>5. InitStatus \in CallSet
    <2>1. \A s \in Status : ReadBit(s) \in TransferSet
      BY PlaceType DEF ReadBit, Transfer, TransferSet
    <2>2. InitStatus.transfers \in Seq(TransferSet)
      BY <2>1, StatusIs DEF InitStatus, Call
    <2> QED BY <2>2 DEF InitStatus, Call, CallSet
  <1> QED BY <1>1, <1>2, <1>3, <1>4, <1>5

-----------------------------------------------------------------------------
\* What the code's calls are.
LEMMA SetterShape ==
    ASSUME NEW s \in Status, NEW on \in SUBSET {s}
    PROVE  LET c == Setter(s, on)
           IN /\ Len(c.transfers) = 1 /\ c.transfers[1].kind = "bits"
              /\ c.transfers[1].reg = Place[s] /\ c.transfers[1].off = {s}
              /\ s # "aec2" => c.transfers[1].on = on
              /\ c.transfers[1].on \subseteq {s}
              /\ c.on = on
              /\ c.off = {s}
  BY DEF Setter, Call, SetBits, Transfer

LEMMA VrefShape ==
    /\ Len(SetVref.transfers) = 1 /\ SetVref.on = {} /\ SetVref.off = {}
    /\ SetVref.transfers[1].kind = "bits" /\ SetVref.transfers[1].on = {}
    /\ SetVref.transfers[1].off = {}
  BY DEF SetVref, Call, Transfer

LEMMA FramesizeShape ==
    ASSUME NEW onError \in {"fatal", "ignored"}
    PROVE  /\ SetFramesize(onError).transfers # <<>>
           /\ IsTable(SetFramesize(onError)) /\ IsNarrow(SetFramesize(onError))
  <1> DEFINE c == SetFramesize(onError)
  <1>1. c.on = {} /\ c.off = {} /\ Len(c.transfers) = 5
    BY DEF SetFramesize, Call
  <1>2. /\ c.transfers[1] = Write("dsp", "other", {})
        /\ c.transfers[2] = Write("sensor", "COM7", {})
        /\ c.transfers[3] = Write("dsp", "CTRL2", {"dcw"})
        /\ c.transfers[4] = Write("sensor", "other", {})
        /\ c.transfers[5] = Write("dsp", "other", {})
    BY DEF SetFramesize, Call
  <1>3. DOMAIN c.transfers = 1 .. 5
    BY DEF SetFramesize, Call
  <1> HIDE DEF c
  <1>4. \A j \in 1 .. 5 :
          /\ c.transfers[j].kind = "write"
          /\ c.transfers[j].on \subseteq BitsOf(c.transfers[j].reg)
          /\ BitsOf(c.transfers[j].reg) \cap Kept = {}
    BY <1>2, BitsAre, KeptIs DEF Write, Transfer
  <1>5. IsTable(c) /\ IsNarrow(c)
    BY <1>1, <1>3, <1>4 DEF IsTable, IsNarrow
  <1> QED BY <1>1, <1>5 DEF c

LEMMA PixformatShape ==
    SetPixformat.transfers # <<>> /\ IsTable(SetPixformat) /\ IsNarrow(SetPixformat)
  BY BitsAre DEF SetPixformat, Call, Write, Transfer, IsTable, IsNarrow

LEMMA ResetShape ==
    /\ IsTable(SensorReset) /\ DOMAIN SensorReset.transfers = 1 .. 7
    /\ Len(SensorReset.transfers) = 7
    /\ SensorReset.transfers[1].kind = "reset"
    /\ SensorReset.transfers[2].reg[1] # SensorReset.transfers[1].reg[1]
    /\ \A j \in 2 .. 7 : SensorReset.transfers[j].kind = "write"
  <1> DEFINE c == SensorReset
  <1>1. c.on = {} /\ c.off = {} /\ DOMAIN c.transfers = 1 .. 7 /\ Len(c.transfers) = 7
    BY DEF SensorReset, Call
  <1>2. /\ c.transfers[1] = Transfer("reset", <<"sensor", "other">>, {}, {})
        /\ c.transfers[2] = Write("dsp", "other", {})
        /\ c.transfers[3] = Write("sensor", "REG04", {})
        /\ c.transfers[4] = Write("sensor", "COM8", {"agc", "aec"})
        /\ c.transfers[5] = Write("sensor", "COM7", {})
        /\ c.transfers[6] = Write("dsp", "CTRL3", {"wpc"})
        /\ c.transfers[7] = Write("dsp", "CTRL1", {"raw_gma", "awb", "awb_gain"})
    BY DEF SensorReset, Call
  <1> HIDE DEF c
  <1>3. \A j \in 2 .. 7 : c.transfers[j].kind = "write"
    BY <1>2 DEF Write, Transfer
  <1>4. \A j \in 1 .. 7 : c.transfers[j].on \subseteq BitsOf(c.transfers[j].reg)
    BY <1>2, BitsAre DEF Write, Transfer
  <1>5. c.transfers[1].kind = "reset" /\ c.transfers[1].reg[1] = "sensor"
        /\ c.transfers[2].reg[1] = "dsp"
    BY <1>2 DEF Write, Transfer
  <1>6. IsTable(c)
    BY <1>1, <1>3, <1>4, <1>5 DEF IsTable
  <1> QED BY <1>1, <1>3, <1>5, <1>6 DEF c

LEMMA InitStatusShape ==
    /\ IsReading(InitStatus) /\ InitStatus.transfers # <<>>
    /\ \A s \in Status : \E j \in DOMAIN InitStatus.transfers :
          IsReadOf(InitStatus.transfers[j], s)
  <1> DEFINE t == InitStatus.transfers
  <1>1. InitStatus.on = {} /\ InitStatus.off = {} /\ t # <<>> /\ DOMAIN t = 1 .. 13
    BY DEF InitStatus, Call
  <1>2. /\ t[1] = ReadBit("awb") /\ t[2] = ReadBit("awb_gain") /\ t[3] = ReadBit("aec")
        /\ t[4] = ReadBit("aec2") /\ t[5] = ReadBit("agc") /\ t[6] = ReadBit("bpc")
        /\ t[7] = ReadBit("wpc") /\ t[8] = ReadBit("raw_gma") /\ t[9] = ReadBit("lenc")
        /\ t[10] = ReadBit("hmirror") /\ t[11] = ReadBit("vflip") /\ t[12] = ReadBit("dcw")
        /\ t[13] = ReadBit("colorbar")
    BY DEF InitStatus, Call
  <1> HIDE DEF t
  <1>3. \A s \in Status : IsReadOf(ReadBit(s), s)
    BY DEF IsReadOf, ReadBit, Transfer
  <1>4. \A j \in 1 .. 13 : \E s \in Status : t[j] = ReadBit(s)
    BY <1>2, StatusIs
  <1>5. \A s \in Status : \E j \in 1 .. 13 : t[j] = ReadBit(s)
    BY <1>2, StatusIs
  <1>6. \A j \in 1 .. 13 : \E s \in Status : IsReadOf(t[j], s)
    BY <1>3, <1>4
  <1>7. \A s \in Status : \E j \in 1 .. 13 : IsReadOf(t[j], s)
    BY <1>3, <1>5
  <1> QED BY <1>1, <1>6, <1>7 DEF IsReading, t

-----------------------------------------------------------------------------
\* The scripts the camera and the application begin with.
Plain ==
    {c \in CallSet :
        IsSetter(c) \/ c = SetVref \/ c = SetFramesize("ignored") \/ c = SetPixformat}

LEMMA PlainOK ==
    ASSUME NEW calls \in Seq(Plain)
    PROVE  ScriptOK(calls)
  <1>0. Plain \subseteq CallSet
    BY DEF Plain
  <1>1. calls \in Seq(CallSet) /\ \A k \in DOMAIN calls : calls[k] \in Plain
    BY <1>0
  <1>2. ASSUME NEW c \in Plain
        PROVE  /\ c.transfers # <<>>
               /\ IsSetter(c) \/ c = SetVref \/ (IsTable(c) /\ IsNarrow(c))
               /\ \A j \in DOMAIN c.transfers : c.transfers[j].kind # "reset"
    <2>0. /\ c \in CallSet
          /\ (IsSetter(c) \/ c = SetVref \/ c = SetFramesize("ignored") \/ c = SetPixformat)
      BY DEF Plain
    <2>1. CASE IsSetter(c)
      <3>0. PICK s \in Status : \E on \in SUBSET {s} : c = Setter(s, on)
        BY <2>1 DEF IsSetter
      <3>1. PICK on \in SUBSET {s} : c = Setter(s, on)
        BY <3>0
      <3>2. Len(c.transfers) = 1 /\ c.transfers[1].kind = "bits"
        BY <3>1, SetterShape
      <3> QED BY <2>0, <2>1, <3>2 DEF CallSet
    <2>2. CASE c = SetVref
      BY <2>0, <2>2, VrefShape DEF CallSet
    <2>3. CASE c = SetFramesize("ignored")
      BY <2>3, FramesizeShape DEF IsNarrow
    <2>4. CASE c = SetPixformat
      BY <2>4, PixformatShape DEF IsNarrow
    <2> QED BY <2>0, <2>1, <2>2, <2>3, <2>4
  <1>3. \A k \in DOMAIN calls : CallOK(calls, k)
    BY <1>1, <1>2 DEF CallOK
  <1>4. ResetIsFirst(calls)
    BY <1>1, <1>2 DEF ResetIsFirst
  <1> QED BY <1>1, <1>3, <1>4 DEF ScriptOK

LEMMA PlainElements ==
    /\ \A s \in Status : \A on \in SUBSET {s} : Setter(s, on) \in Plain
    /\ SetVref \in Plain /\ SetFramesize("ignored") \in Plain /\ SetPixformat \in Plain
  BY SetterType, TablesType DEF Plain, IsSetter

LEMMA LoadScriptOK == ASSUME NEW settings PROVE ScriptOK(LoadScript(settings))
  <1> DEFINE Restore(s) == Setter(s, {s} \cap settings)
  <1>1. ASSUME NEW s \in Status PROVE Restore(s) \in Plain
    BY PlainElements
  <1> HIDE DEF Restore
  <1>2. <<Restore("aec2"), Restore("awb_gain"), Restore("bpc"), Restore("colorbar"),
         Restore("dcw"), Restore("aec"), SetFramesize("ignored"), SetPixformat,
         Restore("agc"), Restore("hmirror"), Restore("lenc"), Restore("raw_gma"),
         SetVref, Restore("vflip"), Restore("awb"), Restore("wpc"), SetPixformat>>
        \in Seq(Plain)
    BY <1>1, PlainElements, StatusIs
  <1>3. LoadScript(settings) \in Seq(Plain)
    BY <1>2 DEF LoadScript, Restore
  <1> QED BY <1>3, PlainOK

LEMMA StartScriptOK ==
    /\ ScriptOK(StartScript) /\ StartScript # <<>>
    /\ StartScript[1].transfers[1].kind = "reset"
    /\ \A s \in Kept : ToBeRead(StartScript, s)
  <1> DEFINE calls == StartScript
  <1>1. DOMAIN calls = 1 .. 7 /\ Len(calls) = 7 /\ calls # <<>>
    BY DEF StartScript
  <1>2. /\ calls[1] = SensorReset /\ calls[2] = SetFramesize("fatal")
        /\ calls[3] = SetPixformat
        /\ calls[4] = Setter("bpc", {}) /\ calls[5] = Setter("wpc", {"wpc"})
        /\ calls[6] = Setter("lenc", {"lenc"}) /\ calls[7] = InitStatus
    BY DEF StartScript
  <1>3. calls \in Seq(CallSet)
    <2>1. /\ Setter("bpc", {}) \in CallSet /\ Setter("wpc", {"wpc"}) \in CallSet
          /\ Setter("lenc", {"lenc"}) \in CallSet
      BY SetterType, StatusIs
    <2>2. SetFramesize("fatal") \in CallSet
      BY TablesType
    <2> QED BY <2>1, <2>2, TablesType DEF StartScript
  <1> HIDE DEF calls
  <1>10. \A k \in 1 .. 7 : calls[k] \in CallSet
    <2>1. \A k \in 1 .. Len(calls) : calls[k] \in CallSet
      BY <1>3
    <2>2. Len(calls) = 7
      BY <1>1
    <2> QED BY <2>1, <2>2, Zenon
  <1>4. \A s \in Kept : ToBeRead(calls, s)
    BY <1>1, <1>2, InitStatusShape DEF ToBeRead, Last, Kept
  <1>5. \A k \in 4 .. 6 : IsSetter(calls[k])
    <2>1. "bpc" \in Status /\ "wpc" \in Status /\ "lenc" \in Status
      BY StatusIs
    <2>2. IsSetter(Setter("bpc", {})) /\ IsSetter(Setter("wpc", {"wpc"}))
          /\ IsSetter(Setter("lenc", {"lenc"}))
      BY <2>1 DEF IsSetter
    <2> QED BY <1>2, <2>2
  <1>6. \A k \in 1 .. 7 : CallOK(calls, k)
    <2>1. CallOK(calls, 1)
      BY <1>2, <1>4, ResetShape DEF CallOK
    <2>2. CallOK(calls, 2) /\ CallOK(calls, 3)
      BY <1>2, FramesizeShape, PixformatShape DEF CallOK
    <2>3. ASSUME NEW k \in 4 .. 6 PROVE CallOK(calls, k)
      <3>0. PICK s \in Status : \E on \in SUBSET {s} : calls[k] = Setter(s, on)
        BY <1>5 DEF IsSetter
      <3>1. PICK on \in SUBSET {s} : calls[k] = Setter(s, on)
        BY <3>0
      <3>2. Len(calls[k].transfers) = 1
        BY <3>1, SetterShape
      <3>3. calls[k].transfers # <<>>
        BY <3>2
      <3> QED BY <1>5, <3>3 DEF CallOK
    <2>4. CallOK(calls, 7)
      BY <1>1, <1>2, InitStatusShape DEF CallOK
    <2> QED BY <2>1, <2>2, <2>3, <2>4
  <1>7. ASSUME NEW k \in 2 .. 7, NEW j \in DOMAIN calls[k].transfers
        PROVE  calls[k].transfers[j].kind # "reset"
    <2>1. CASE k \in {2, 3}
      BY <1>2, <2>1, FramesizeShape, PixformatShape DEF IsNarrow
    <2>2. CASE k \in 4 .. 6
      <3>0. PICK s \in Status : \E on \in SUBSET {s} : calls[k] = Setter(s, on)
        BY <1>5, <2>2 DEF IsSetter
      <3>1. PICK on \in SUBSET {s} : calls[k] = Setter(s, on)
        BY <3>0
      <3>2. Len(calls[k].transfers) = 1 /\ calls[k].transfers[1].kind = "bits"
        BY <3>1, SetterShape
      <3>3. calls[k] \in CallSet
        BY <1>10
      <3>4. calls[k].transfers \in Seq(TransferSet)
        BY <3>3 DEF CallSet
      <3> QED BY <3>2, <3>4
    <2>3. CASE k = 7
      BY <1>2, <2>3, InitStatusShape DEF IsReading, IsReadOf
    <2> QED BY <2>1, <2>2, <2>3
  <1>8. ResetIsFirst(calls)
    BY <1>1, <1>2, <1>7, ResetShape DEF ResetIsFirst
  <1>9. calls[1].transfers[1].kind = "reset"
    BY <1>2, ResetShape
  <1> QED BY <1>1, <1>3, <1>4, <1>6, <1>8, <1>9 DEF ScriptOK, calls

-----------------------------------------------------------------------------
\* What is left after a transfer, and after a call that was given up.
LEMMA TailOK ==
    ASSUME NEW calls, ScriptOK(calls), calls # <<>>
    PROVE  /\ ScriptOK(Tail(calls))
           /\ \A s \in Status :
                 Len(calls) > 1 /\ ToBeRead(calls, s) => ToBeRead(Tail(calls), s)
  <1> DEFINE rest == Tail(calls)
             n == Len(calls)
  <1>0. calls \in Seq(CallSet) /\ n \in Nat \ {0} /\ DOMAIN calls = 1 .. n
    BY DEF ScriptOK
  <1>1. /\ rest \in Seq(CallSet) /\ Len(rest) = n - 1 /\ DOMAIN rest = 1 .. n - 1
        /\ \A k \in 1 .. n - 1 : rest[k] = calls[k + 1]
    BY <1>0
  <1> HIDE DEF rest
  <1>2. ASSUME n > 1 PROVE rest # <<>> /\ Last(rest) = Last(calls)
    BY <1>0, <1>1, <1>2 DEF Last
  <1>3. ASSUME n > 1, NEW s \in Status, ToBeRead(calls, s) PROVE ToBeRead(rest, s)
    BY <1>2, <1>3 DEF ToBeRead
  <1>4. ASSUME NEW k \in 1 .. n - 1 PROVE CallOK(rest, k)
    <2>0. k + 1 \in DOMAIN calls
      BY <1>0
    <2>1. CallOK(calls, k + 1)
      BY <2>0 DEF ScriptOK
    <2>5. n \in Nat
      BY <1>0
    <2>2. n > 1 /\ (k + 1 = n => k = n - 1)
      BY <2>5
    <2>4. rest[k] = calls[k + 1] /\ Len(rest) = n - 1
      BY <1>1
    <2>3. \A s \in Kept : ToBeRead(calls, s) => ToBeRead(rest, s)
      BY <1>3, <2>2 DEF Kept
    <2> QED BY <2>1, <2>2, <2>3, <2>4 DEF CallOK
  <1>5. ResetIsFirst(rest)
    <2>1. ASSUME NEW k \in 1 .. n - 1, NEW j \in DOMAIN rest[k].transfers
          PROVE  rest[k].transfers[j].kind # "reset"
      <3>1. rest[k] = calls[k + 1] /\ k + 1 \in DOMAIN calls /\ k + 1 # 1
        BY <1>0, <1>1
      <3> QED BY <3>1 DEF ScriptOK, ResetIsFirst
    <2> QED BY <1>1, <2>1 DEF ResetIsFirst
  <1> QED BY <1>1, <1>3, <1>4, <1>5 DEF ScriptOK, rest

\* The same when the call goes on with its next transfer.
Rest(calls) ==
    IF Len(calls[1].transfers) > 1
      THEN <<[calls[1] EXCEPT !.transfers = Tail(@)]>> \o Tail(calls) ELSE Tail(calls)

LEMMA RestIndex ==
    ASSUME NEW calls \in Seq(CallSet), calls # <<>>, Len(calls[1].transfers) > 1
    PROVE  /\ Rest(calls) \in Seq(CallSet) /\ Len(Rest(calls)) = Len(calls)
           /\ calls[1] \in CallSet
           /\ Rest(calls)[1] = [calls[1] EXCEPT !.transfers = Tail(@)]
           /\ \A k \in 2 .. Len(calls) : Rest(calls)[k] = calls[k]
  <1> DEFINE first == [calls[1] EXCEPT !.transfers = Tail(@)]
  <1>1. calls[1] \in CallSet /\ Len(calls) \in Nat \ {0} /\ Tail(calls) \in Seq(CallSet)
        /\ Len(Tail(calls)) = Len(calls) - 1
        /\ \A k \in 1 .. Len(calls) - 1 : Tail(calls)[k] = calls[k + 1]
    OBVIOUS
  <1>2. calls[1].transfers \in Seq(TransferSet) /\ calls[1].transfers # <<>>
    BY <1>1 DEF CallSet
  <1>3. Tail(calls[1].transfers) \in Seq(TransferSet)
    BY <1>2
  <1>4. first \in CallSet
    BY <1>1, <1>3 DEF CallSet
  <1> HIDE DEF first
  <1>5. <<first>> \in Seq(CallSet) /\ Len(<<first>>) = 1 /\ <<first>>[1] = first
    BY <1>4
  <1>6. /\ <<first>> \o Tail(calls) \in Seq(CallSet)
        /\ Len(<<first>> \o Tail(calls)) = Len(calls)
        /\ (<<first>> \o Tail(calls))[1] = first
        /\ \A k \in 2 .. Len(calls) : (<<first>> \o Tail(calls))[k] = Tail(calls)[k - 1]
    BY <1>1, <1>5
  <1>7. \A k \in 2 .. Len(calls) : Tail(calls)[k - 1] = calls[k]
    BY <1>1
  <1> QED BY <1>1, <1>6, <1>7 DEF Rest, first

LEMMA AtLeastTwo == \A n \in Nat : n # 0 /\ n # 1 => n > 1
  OBVIOUS

NoReset(calls) ==
    \A k \in DOMAIN calls : \A j \in DOMAIN calls[k].transfers :
        calls[k].transfers[j].kind # "reset"

LEMMA RestOK ==
    ASSUME NEW calls, ScriptOK(calls), calls # <<>>
    PROVE  /\ ScriptOK(Rest(calls)) /\ NoReset(Rest(calls))
           /\ \A s \in Status :
                 ToBeRead(calls, s) /\ ~IsReadOf(calls[1].transfers[1], s)
                    => ToBeRead(Rest(calls), s)
  <1>0. calls \in Seq(CallSet) /\ CallOK(calls, 1) /\ calls[1] \in CallSet
    BY DEF ScriptOK
  <1>1. CASE ~(Len(calls[1].transfers) > 1)
    <2>1. Rest(calls) = Tail(calls)
      BY <1>1 DEF Rest
    <2>2. ASSUME NEW s \in Status, ToBeRead(calls, s), ~IsReadOf(calls[1].transfers[1], s)
          PROVE  Len(calls) > 1
      <3>1. calls[1].transfers \in Seq(TransferSet)
        BY <1>0 DEF CallSet
      <3>2. Len(calls) # 1
        BY <1>1, <2>2, <3>1 DEF ToBeRead, Last
      <3>3. Len(calls) \in Nat /\ Len(calls) # 0
        BY <1>0
      <3> QED BY <3>2, <3>3, AtLeastTwo, Zenon
    <2>3. NoReset(Tail(calls))
      <3>1. ASSUME NEW k \in DOMAIN Tail(calls), NEW j \in DOMAIN Tail(calls)[k].transfers
            PROVE  Tail(calls)[k].transfers[j].kind # "reset"
        <4>1. Tail(calls)[k] = calls[k + 1] /\ k + 1 \in DOMAIN calls /\ k + 1 # 1
          BY <1>0
        <4> QED BY <4>1 DEF ScriptOK, ResetIsFirst
      <3> QED BY <3>1 DEF NoReset
    <2> QED BY <2>1, <2>2, <2>3, TailOK
  <1>2. CASE Len(calls[1].transfers) > 1
    <2> DEFINE rest == Rest(calls)
               old == calls[1].transfers
               new == rest[1].transfers
    <2>0. /\ rest \in Seq(CallSet) /\ Len(rest) = Len(calls)
          /\ rest[1] = [calls[1] EXCEPT !.transfers = Tail(@)]
          /\ \A k \in 2 .. Len(calls) : rest[k] = calls[k]
      BY <1>0, <1>2, RestIndex
    <2> HIDE DEF rest
    <2>1. /\ rest[1].onError = calls[1].onError /\ rest[1].on = calls[1].on
          /\ rest[1].off = calls[1].off /\ new = Tail(old) /\ old \in Seq(TransferSet)
      BY <1>0, <2>0 DEF CallSet
    <2> HIDE DEF old, new
    <2>2. Len(old) > 1
      BY <1>2 DEF old
    <2>10. Len(new) = Len(old) - 1 /\ old # <<>> /\ new \in Seq(TransferSet)
      BY <2>1, <2>2
    <2>11. \A j \in 1 .. Len(new) : new[j] = old[j + 1]
      BY <2>1, <2>2, <2>10
    <2>12. new # <<>>
      BY <2>2, <2>10
    <2>13. \A j \in DOMAIN new : new[j] = old[j + 1] /\ j + 1 \in DOMAIN old /\ j + 1 # 1
      BY <2>1, <2>10, <2>11
    <2>14. \A j \in DOMAIN old : j # 1 => j - 1 \in DOMAIN new /\ new[j - 1] = old[j]
      BY <2>1, <2>10, <2>11
    <2>3. /\ new \in Seq(TransferSet) /\ new # <<>>
          /\ \A j \in DOMAIN new : new[j] = old[j + 1] /\ j + 1 \in DOMAIN old /\ j + 1 # 1
          /\ \A j \in DOMAIN old : j # 1 => j - 1 \in DOMAIN new /\ new[j - 1] = old[j]
      BY <2>10, <2>12, <2>13, <2>14
    <2>4. ASSUME NEW s \in Status, ToBeRead(calls, s), Len(calls) > 1
          PROVE  ToBeRead(rest, s)
      <3>1. Last(rest) = Last(calls) /\ rest # <<>>
        BY <1>0, <2>0, <2>4 DEF Last
      <3> QED BY <2>4, <3>1 DEF ToBeRead
    <2>5. ASSUME NEW s \in Status, ToBeRead(calls, s), ~IsReadOf(old[1], s)
          PROVE  ToBeRead(rest, s)
      <3>1. CASE Len(calls) = 1
        <4>5. Len(rest) = 1 /\ rest # <<>>
          BY <2>0, <3>1
        <4>6. Last(calls) = calls[1] /\ Last(rest) = rest[1]
          BY <3>1, <4>5, Zenon DEF Last
        <4>1. Last(calls).transfers = old /\ Last(rest).transfers = new /\ rest # <<>>
          BY <4>5, <4>6 DEF old, new
        <4>2. PICK j \in DOMAIN old : IsReadOf(old[j], s)
          BY <2>5, <4>1 DEF ToBeRead
        <4>3. j - 1 \in DOMAIN new /\ IsReadOf(new[j - 1], s)
          BY <2>3, <2>5, <4>2
        <4> QED BY <4>1, <4>3 DEF ToBeRead
      <3>2. CASE Len(calls) # 1
        <4>0. Len(calls) \in Nat /\ Len(calls) # 0
          BY <1>0
        <4>1. Len(calls) > 1
          BY <3>2, <4>0, AtLeastTwo, Zenon
        <4> QED BY <2>4, <2>5, <4>1
      <3> QED BY <3>1, <3>2
    <2>6. CallOK(rest, 1)
      <3>1. CASE IsSetter(calls[1])
        <4>1. PICK s \in Status : \E on \in SUBSET {s} : calls[1] = Setter(s, on)
          BY <3>1 DEF IsSetter
        <4>2. PICK on \in SUBSET {s} : calls[1] = Setter(s, on)
          BY <4>1
        <4>3. Len(old) = 1
          BY <4>2, SetterShape DEF old
        <4> QED BY <2>2, <4>3
      <3>2. CASE calls[1] = SetVref
        BY <2>2, <3>2, VrefShape DEF old
      <3>3. CASE /\ IsTable(calls[1])
                 /\ (IsNarrow(calls[1]) \/ \A s \in Kept : ToBeRead(calls, s))
        <4>1. IsTable(rest[1])
          BY <2>1, <2>3, <3>3 DEF IsTable, old, new
        <4>2. CASE IsNarrow(calls[1])
          <5>1. IsNarrow(rest[1])
            BY <2>3, <4>2 DEF IsNarrow, old, new
          <5> QED BY <2>3, <4>1, <5>1 DEF CallOK, new
        <4>3. CASE \A s \in Kept : ToBeRead(calls, s)
          <5>1. old[1].kind # "read"
            BY <2>2, <2>1, <3>3 DEF IsTable, old
          <5>2. \A s \in Kept : ToBeRead(rest, s)
            BY <2>5, <4>3, <5>1 DEF IsReadOf, Kept
          <5> QED BY <2>3, <4>1, <5>2 DEF CallOK, new
        <4> QED BY <3>3, <4>2, <4>3
      <3>4. CASE 1 = Len(calls) /\ IsReading(calls[1])
        <4>1. IsReading(rest[1])
          BY <2>1, <2>3, <3>4 DEF IsReading, old, new
        <4> QED BY <2>0, <2>3, <3>4, <4>1 DEF CallOK, new
      <3> QED BY <1>0, <3>1, <3>2, <3>3, <3>4 DEF CallOK
    <2>7. ASSUME NEW k \in 2 .. Len(calls) PROVE CallOK(rest, k)
      <3>1. CallOK(calls, k) /\ Len(calls) > 1
        BY <1>0 DEF ScriptOK
      <3>2. \A s \in Kept : ToBeRead(calls, s) => ToBeRead(rest, s)
        BY <2>4, <3>1 DEF Kept
      <3> QED BY <2>0, <3>1, <3>2 DEF CallOK
    <2>8. \A k \in DOMAIN rest : CallOK(rest, k)
      <3>1. \A k \in DOMAIN rest : k = 1 \/ k \in 2 .. Len(calls)
        BY <2>0
      <3> QED BY <2>6, <2>7, <3>1
    <2>9. NoReset(rest)
      <3>1. ASSUME NEW j \in DOMAIN new PROVE new[j].kind # "reset"
        BY <1>0, <2>3 DEF ScriptOK, ResetIsFirst, old
      <3>2. ASSUME NEW k \in 2 .. Len(calls), NEW j \in DOMAIN calls[k].transfers
            PROVE  calls[k].transfers[j].kind # "reset"
        BY <1>0 DEF ScriptOK, ResetIsFirst
      <3>3. \A k \in DOMAIN rest : k = 1 \/ k \in 2 .. Len(calls)
        BY <2>0
      <3> QED BY <2>0, <3>1, <3>2, <3>3 DEF NoReset, new
    <2> QED BY <2>0, <2>5, <2>8, <2>9 DEF ScriptOK, ResetIsFirst, NoReset, rest, old
  <1> QED BY <1>1, <1>2

-----------------------------------------------------------------------------
\* The transfer that is next.
LEMMA OpType ==
    ASSUME ScriptOK(script), Busy
    PROVE  /\ This \in CallSet /\ Op \in TransferSet /\ CallOK(script, 1)
           /\ Bank \in Banks /\ Op.reg[2] \in Addresses /\ Op.reg = <<Bank, Op.reg[2]>>
           /\ NextTransfer = Rest(script)
  <1>1. script \in Seq(CallSet) /\ CallOK(script, 1) /\ This \in CallSet
    BY DEF ScriptOK, Busy, This
  <1>2. This.transfers \in Seq(TransferSet) /\ This.transfers # <<>>
    BY <1>1 DEF CallSet, CallOK, This
  <1>3. Op \in TransferSet
    BY <1>2 DEF Op
  <1>4. Op.reg \in RegisterFile
    BY <1>3 DEF TransferSet
  <1>5. Bank \in Banks /\ Op.reg[2] \in Addresses /\ Op.reg = <<Bank, Op.reg[2]>>
    BY <1>4 DEF RegisterFile, Bank
  <1> QED BY <1>1, <1>3, <1>5 DEF NextTransfer, Rest, This

LEMMA TransferredType ==
    ASSUME TypeInv, ScriptOK(script), Busy, NEW old \in SUBSET Status, Transferred(old)
    PROVE  /\ regs' \in [RegisterFile -> SUBSET Status] /\ chipBank' \in Banks
           /\ sensorStatus' \subseteq Status
  <1>1. /\ This \in CallSet /\ Op \in TransferSet /\ Bank \in Banks /\ Op.reg[2] \in Addresses
    BY OpType
  <1>2. /\ This.on \subseteq Status /\ Op.on \subseteq Status /\ Op.off \subseteq Status
        /\ Op.kind \in {"write", "bits", "read", "reset"}
    BY <1>1 DEF CallSet, TransferSet
  <1>3. Chosen \in Banks /\ Target \in RegisterFile
    BY <1>1 DEF TypeInv, Chosen, Target, RegisterFile
  <1>4. Begun \subseteq Status /\ NewValue(old) \subseteq Status
    BY <1>2 DEF TypeInv, Begun, NewValue
  <1>5. CASE Op.kind \in {"write", "bits"}
    BY <1>3, <1>4, <1>5 DEF TypeInv, Transferred
  <1>6. CASE Op.kind = "reset"
    BY <1>4, <1>6 DEF TypeInv, Transferred
  <1>7. CASE Op.kind = "read"
    BY <1>2, <1>3, <1>7 DEF TypeInv, Transferred
  <1> QED BY <1>2, <1>5, <1>6, <1>7

LEMMA InitInv == Ov2640Init => IInv
  <1> SUFFICES ASSUME Ov2640Init PROVE IInv
    OBVIOUS
  <1>1. TypeInv
    BY Ov2640Assumption DEF Ov2640Init, TypeInv
  <1>2. ScriptOK(<<>>)
    <2>1. <<>> \in Seq(Plain)
      OBVIOUS
    <2> QED BY <2>1, PlainOK
  <1>3. ~Faultless /\ script = <<>>
    BY DEF Ov2640Init, Faultless
  <1> QED BY <1>1, <1>2, <1>3 DEF IInv

\* Every step keeps the types and the shape of what is left to be done.
LEMMA StepType ==
    ASSUME TypeInv, ScriptOK(script), Ov2640Next
    PROVE  TypeInv' /\ ScriptOK(script')
  <1>0. ScriptOK(<<>>)
    <2>1. <<>> \in Seq(Plain)
      OBVIOUS
    <2> QED BY <2>1, PlainOK
  <1>1. CASE Succeed
    <2>1. Busy /\ Transferred(regs[Target]) /\ script' = NextTransfer
          /\ UNCHANGED <<stage, busFaults>>
      BY <1>1 DEF Succeed
    <2>2. regs[Target] \subseteq Status
      BY <2>1, OpType DEF TypeInv, Target, Chosen, RegisterFile
    <2>3. ScriptOK(script')
      BY <2>1, OpType, RestOK DEF Busy
    <2>4. stage # "off"
      BY <2>1 DEF TypeInv, Busy
    <2> QED BY <2>1, <2>2, <2>3, <2>4, TransferredType DEF TypeInv
  <1>2. CASE ReadFails
    <2>0. PICK old \in {BitsOf(Target) \cup Op.off, {}} : Transferred(old)
      BY <1>2 DEF ReadFails
    <2>1. Busy /\ Transferred(old) /\ script' = NextTransfer /\ UNCHANGED stage
          /\ busFaults' = busFaults + 1
      BY <1>2, <2>0 DEF ReadFails
    <2>2. old \subseteq Status
      BY <2>1, OpType DEF TransferSet, BitsOf
    <2>3. ScriptOK(script')
      BY <2>1, OpType, RestOK DEF Busy
    <2>4. stage # "off"
      BY <2>1 DEF TypeInv, Busy
    <2> QED BY <2>1, <2>2, <2>3, <2>4, TransferredType DEF TypeInv
  <1>3. CASE WriteFails
    <2>1. Busy /\ UNCHANGED regs /\ busFaults' = busFaults + 1
      BY <1>3 DEF WriteFails
    <2>2. chipBank' \in Banks
      BY <1>3, <2>1, OpType DEF WriteFails, TypeInv, Chosen
    <2>3. sensorStatus' \subseteq Status
      BY <1>3, <2>1, OpType DEF WriteFails, TypeInv, Begun, CallSet, TransferSet
    <2>4. (stage' = "off" /\ script' = <<>>)
          \/ (stage' = stage /\ script' \in {NextTransfer, Tail(script)})
      BY <1>3 DEF WriteFails
    <2>5. ScriptOK(script')
      BY <1>0, <2>1, <2>4, OpType, RestOK, TailOK DEF Busy
    <2>6. stage # "off"
      BY <2>1 DEF TypeInv, Busy
    <2> QED BY <2>1, <2>2, <2>3, <2>4, <2>5, <2>6 DEF TypeInv
  <1>4. CASE Start
    <2>1. script' = StartScript /\ stage' = "ready" /\ sensorStatus' = {} /\ busFaults' = 0
          /\ chipBank' = "sensor"
      BY <1>4 DEF Start
    <2>2. regs' \in [RegisterFile -> SUBSET Status]
      BY <1>4 DEF Start, TypeInv
    <2> QED BY <2>1, <2>2, StartScriptOK DEF TypeInv, Banks
  <1>5. CASE Stop
    BY <1>5 DEF Stop, TypeInv, busVars
  <1>6. CASE ChangeFramesize
    <2>1. <<SetFramesize("ignored"), SetPixformat>> \in Seq(Plain)
      BY PlainElements
    <2>2. ScriptOK(script')
      BY <1>6, <2>1, PlainOK DEF ChangeFramesize
    <2> QED BY <1>6, <2>2 DEF ChangeFramesize, TypeInv, busVars
  <1>7. CASE Save
    BY <1>7 DEF Save, TypeInv, busVars
  <1>8. CASE Load
    <2>1. ScriptOK(script')
      BY <1>8, LoadScriptOK DEF Load
    <2> QED BY <1>8, <2>1 DEF Load, TypeInv, busVars
  <1>9. ASSUME NEW s \in Settings, NEW on \in SUBSET {s}, Set(s, on)
        PROVE  TypeInv' /\ ScriptOK(script')
    <2>1. Setter(s, on) \in Plain
      BY PlainElements, Ov2640Assumption
    <2>2. <<SetVref, Setter(s, on)>> \in Seq(Plain) /\ <<Setter(s, on)>> \in Seq(Plain)
      BY <2>1, PlainElements
    <2>3. ScriptOK(script')
      BY <1>9, <2>2, PlainOK DEF Set
    <2> QED BY <1>9, <2>3 DEF Set, TypeInv, busVars
  <1> QED BY <1>1, <1>2, <1>3, <1>4, <1>5, <1>6, <1>7, <1>8, <1>9 DEF Ov2640Next

\* A transfer that does what it should: the bank is the right one, and only the register
\* it is for is changed.
LEMMA SucceedKeeps ==
    ASSUME IInv, Faultless, Succeed
    PROVE  BankKnown' /\ RegsClean' /\ StatusAgrees'
  <1>0. /\ Busy /\ Transferred(regs[Target]) /\ regBank' = Bank /\ script' = Rest(script)
        /\ TypeInv /\ ScriptOK(script) /\ BankKnown /\ RegsClean /\ StatusAgrees
    BY OpType DEF Succeed, IInv
  <1>1. /\ This \in CallSet /\ Op \in TransferSet /\ CallOK(script, 1) /\ Bank \in Banks
        /\ Op.reg = <<Bank, Op.reg[2]>> /\ Op.reg \in RegisterFile /\ script # <<>>
    BY <1>0, OpType DEF TransferSet, Busy
  <1>2. ASSUME NEW s \in Status, ToBeRead(script, s), ~IsReadOf(Op, s)
        PROVE  ToBeRead(script', s)
    BY <1>0, <1>1, <1>2, RestOK DEF Op, This
  <1>3. IsTable(This) => Op.kind \in {"write", "reset"} /\ Op.on \subseteq BitsOf(Op.reg)
    BY <1>1 DEF IsTable, Op, CallSet, CallOK, This
  <1>4. CASE Op.kind = "reset"
    <2>1. regs' = [r \in RegisterFile |-> {}]
      BY <1>0, <1>4 DEF Transferred
    <2>2. RegsClean'
      BY <2>1 DEF RegsClean
    <2>3. Len(This.transfers) > 1 /\ This.transfers[2].reg[1] # Bank
      <3>1. 1 \in DOMAIN script /\ 1 \in DOMAIN script[1].transfers
        BY <1>0, <1>1 DEF ScriptOK, CallOK, CallSet, This
      <3> QED BY <1>0, <1>4, <3>1 DEF ScriptOK, ResetIsFirst, Op, Bank, This
    <2>4. script' # <<>> /\ script'[1].transfers[1] = This.transfers[2]
      <3>1. /\ Len(script') = Len(script)
            /\ script'[1] = [This EXCEPT !.transfers = Tail(@)]
        BY <1>0, <1>1, <2>3, RestIndex DEF ScriptOK, This
      <3>2. script'[1].transfers = Tail(This.transfers)
        BY <1>1, <3>1 DEF CallSet
      <3>3. This.transfers \in Seq(TransferSet)
        BY <1>1 DEF CallSet
      <3>4. Tail(This.transfers)[1] = This.transfers[2]
        BY <2>3, <3>3
      <3>5. script' # <<>>
        BY <1>0, <1>1, <3>1, RestOK DEF ScriptOK
      <3> QED BY <3>2, <3>4, <3>5
    <2>5. BankKnown'
      BY <1>0, <2>3, <2>4 DEF BankKnown, Busy, Bank, Op, This
    <2>6. ~IsNarrow(This) /\ ~IsSetter(This) /\ This # SetVref /\ ~IsReading(This)
      <3>1. 1 \in DOMAIN This.transfers
        BY <1>1 DEF CallSet, CallOK, This
      <3>2. ~IsNarrow(This) /\ ~IsReading(This)
        BY <1>4, <3>1 DEF IsNarrow, IsReading, IsReadOf, Op
      <3>3. ASSUME NEW s \in Status, NEW on \in SUBSET {s}, This = Setter(s, on)
            PROVE  FALSE
        BY <1>4, <3>3, SetterShape DEF Op
      <3> QED BY <1>4, <3>2, <3>3, VrefShape DEF IsSetter, Op
    <2>7. \A s \in Kept : ToBeRead(script, s)
      BY <1>1, <2>6 DEF CallOK, This
    <2>8. StatusAgrees'
      BY <1>2, <1>4, <2>7 DEF StatusAgrees, IsReadOf, Kept
    <2> QED BY <2>2, <2>5, <2>8
  <1>5. CASE Op.kind # "reset"
    <2>1. Chosen = Bank /\ Target = Op.reg
      BY <1>0, <1>1, <1>5 DEF BankKnown, Chosen, Target
    <2>2. \A r \in RegisterFile : regs[r] \subseteq BitsOf(r)
      BY <1>0, <1>5 DEF RegsClean
    <2>3. chipBank' = Bank
      BY <1>0, <1>1, <1>5, <2>1 DEF Transferred, TransferSet
    <2>4. BankKnown'
      BY <1>0, <2>3 DEF BankKnown
    <2>5. ASSUME NEW s \in Kept, ~ToBeRead(script', s), ~IsReadOf(Op, s)
          PROVE  s \in sensorStatus <=> s \in regs[Place[s]]
      BY <1>0, <1>2, <2>5 DEF StatusAgrees, Kept
    <2>6. CASE IsSetter(This)
      <3>1. PICK s \in Status : \E on \in SUBSET {s} : This = Setter(s, on)
        BY <2>6 DEF IsSetter
      <3>2. PICK on \in SUBSET {s} : This = Setter(s, on)
        BY <3>1
      <3>3. /\ Op.kind = "bits" /\ Op.reg = Place[s] /\ Op.off = {s} /\ Op.on \subseteq {s}
            /\ (s # "aec2" => Op.on = on) /\ This.on = on /\ This.off = {s}
        BY <3>2, SetterShape DEF Op
      <3>4. /\ regs' = [regs EXCEPT ![Place[s]] = (regs[Place[s]] \ {s}) \cup Op.on]
            /\ sensorStatus' = (sensorStatus \ {s}) \cup on
        BY <1>0, <2>1, <3>3 DEF Transferred, NewValue, Begun
      <3>5. RegsClean'
        <4>1. s \in BitsOf(Place[s])
          BY DEF BitsOf
        <4>2. (regs[Place[s]] \ {s}) \cup Op.on \subseteq BitsOf(Place[s])
          BY <1>1, <2>2, <3>3, <4>1
        <4> QED BY <1>0, <1>1, <2>2, <3>3, <3>4, <4>2 DEF RegsClean, TypeInv
      <3>6. ASSUME NEW q \in Kept, ~ToBeRead(script', q)
            PROVE  q \in sensorStatus' <=> q \in regs'[Place[q]]
        <4>1. q # "aec2" /\ Place[q] \in RegisterFile
          BY PlaceType DEF Kept, Inverted
        <4>2. CASE q = s
          BY <1>0, <1>1, <3>3, <3>4, <4>1, <4>2 DEF TypeInv
        <4>3. CASE q # s
          <5>1. q \in sensorStatus <=> q \in regs[Place[q]]
            BY <2>5, <3>3, <3>6 DEF IsReadOf
          <5>2. q \in sensorStatus' <=> q \in sensorStatus
            BY <3>4, <4>3
          <5>3. q \in regs'[Place[q]] <=> q \in regs[Place[q]]
            BY <1>0, <1>1, <3>3, <3>4, <4>1, <4>3 DEF TypeInv
          <5> QED BY <5>1, <5>2, <5>3
        <4> QED BY <4>2, <4>3
      <3> QED BY <2>4, <3>5, <3>6 DEF StatusAgrees
    <2>7. CASE This = SetVref
      <3>1. Op.kind = "bits" /\ Op.off = {} /\ Op.on = {} /\ This.on = {} /\ This.off = {}
        BY <2>7, VrefShape DEF Op
      <3>2. sensorStatus' = sensorStatus /\ regs' = regs
        <4>1. NewValue(regs[Target]) = regs[Op.reg] /\ Begun = sensorStatus
          BY <2>1, <3>1 DEF NewValue, Begun
        <4>2. regs' = [regs EXCEPT ![Op.reg] = regs[Op.reg]] /\ sensorStatus' = sensorStatus
          BY <1>0, <2>1, <3>1, <4>1 DEF Transferred
        <4> QED BY <1>0, <4>2 DEF TypeInv
      <3>3. RegsClean'
        BY <2>2, <3>2 DEF RegsClean
      <3>4. StatusAgrees'
        BY <2>5, <3>1, <3>2 DEF StatusAgrees, IsReadOf
      <3> QED BY <2>4, <3>3, <3>4
    <2>8. CASE IsTable(This) /\ (IsNarrow(This) \/ \A s \in Kept : ToBeRead(script, s))
      <3>1. Op.kind = "write" /\ This.on = {} /\ This.off = {}
        BY <1>3, <1>5, <2>8 DEF IsTable
      <3>2. sensorStatus' = sensorStatus /\ regs' = [regs EXCEPT ![Op.reg] = Op.on]
        BY <1>0, <2>1, <3>1 DEF Transferred, NewValue, Begun
      <3>3. RegsClean'
        BY <1>0, <1>1, <1>3, <2>2, <2>8, <3>2 DEF RegsClean, TypeInv
      <3>4. ASSUME NEW q \in Kept, ~ToBeRead(script', q)
            PROVE  q \in sensorStatus' <=> q \in regs'[Place[q]]
        <4>1. ~IsReadOf(Op, q)
          BY <3>1 DEF IsReadOf
        <4>2. ~ToBeRead(script, q)
          BY <1>2, <3>4, <4>1 DEF Kept
        <4>3. IsNarrow(This)
          BY <2>8, <4>2
        <4>4. BitsOf(Op.reg) \cap Kept = {}
          BY <1>1, <4>3 DEF IsNarrow, Op, CallOK, CallSet, This
        <4>5. Place[q] # Op.reg /\ Place[q] \in RegisterFile
          BY <4>4, PlaceType DEF BitsOf, Kept
        <4> QED BY <1>0, <2>5, <3>2, <3>4, <4>1, <4>5 DEF TypeInv
      <3> QED BY <2>4, <3>3, <3>4 DEF StatusAgrees
    <2>9. CASE IsReading(This)
      <3>1. PICK s \in Status : IsReadOf(Op, s)
        BY <1>1, <2>9 DEF IsReading, Op, CallOK, CallSet, This
      <3>2. /\ regs' = regs
            /\ sensorStatus' = (sensorStatus \ {s}) \cup (regs[Place[s]] \cap {s})
        BY <1>0, <2>1, <3>1 DEF Transferred, IsReadOf
      <3>3. RegsClean'
        BY <2>2, <3>2 DEF RegsClean
      <3>4. ASSUME NEW q \in Kept, ~ToBeRead(script', q)
            PROVE  q \in sensorStatus' <=> q \in regs'[Place[q]]
        <4>1. CASE q = s
          BY <3>2, <4>1
        <4>2. CASE q # s
          BY <2>5, <3>1, <3>2, <3>4, <4>2 DEF IsReadOf
        <4> QED BY <4>1, <4>2
      <3> QED BY <2>4, <3>3, <3>4 DEF StatusAgrees
    <2> QED BY <1>1, <2>6, <2>7, <2>8, <2>9 DEF CallOK, This
  <1> QED BY <1>4, <1>5

\* Between the calls nothing is left to be read, and a new call changes nothing yet.
LEMMA IdleKeeps ==
    ASSUME IInv, Faultless, script = <<>>, UNCHANGED <<busVars, sensorStatus>>
    PROVE  BankKnown' /\ RegsClean' /\ StatusAgrees'
  <1>1. /\ regBank = chipBank /\ \A r \in RegisterFile : regs[r] \subseteq BitsOf(r)
        /\ \A s \in Kept : s \in sensorStatus <=> s \in regs[Place[s]]
    BY DEF IInv, BankKnown, RegsClean, StatusAgrees, Busy, ToBeRead
  <1> QED BY <1>1 DEF BankKnown, RegsClean, StatusAgrees, busVars

LEMMA NextInv == IInv /\ [Ov2640Next]_ov2640Vars => IInv'
  <1> SUFFICES ASSUME IInv, [Ov2640Next]_ov2640Vars PROVE IInv'
    OBVIOUS
  <1>1. CASE UNCHANGED ov2640Vars
    BY <1>1 DEF IInv, TypeInv, Faultless, BankKnown, RegsClean, StatusAgrees, Busy, Op, Bank,
                This, ov2640Vars, busVars, nvsVars
  <1>2. CASE Ov2640Next
    <2>1. TypeInv' /\ ScriptOK(script')
      BY <1>2, StepType DEF IInv
    <2>2. ASSUME Faultless' PROVE BankKnown' /\ RegsClean' /\ StatusAgrees'
      <3>1. CASE Succeed
        <4>1. Faultless
          BY <2>2, <3>1 DEF Succeed, Faultless
        <4> QED BY <3>1, <4>1, SucceedKeeps
      <3>2. CASE ReadFails \/ WriteFails
        <4>1. busFaults' = busFaults + 1 /\ busFaults \in Nat /\ busFaults' = 0
          BY <2>2, <3>2 DEF ReadFails, WriteFails, IInv, TypeInv, Faultless
        <4> QED BY <4>1
      <3>3. CASE Start
        <4>1. script' = StartScript
          BY <3>3 DEF Start
        <4> QED BY <4>1, StartScriptOK
              DEF BankKnown, RegsClean, StatusAgrees, Busy, Op, This
      <3>4. CASE Stop
        BY <2>2, <3>4 DEF Stop, Faultless
      <3>5. CASE \/ ChangeFramesize \/ Save \/ Load
                 \/ \E s \in Settings : \E on \in SUBSET {s} : Set(s, on)
        <4>1. /\ script = <<>> /\ UNCHANGED <<busVars, sensorStatus>>
              /\ UNCHANGED <<stage, busFaults>>
          BY <3>5 DEF ChangeFramesize, Save, Load, Set
        <4>2. Faultless
          BY <2>2, <4>1 DEF Faultless
        <4> QED BY <4>1, <4>2, IdleKeeps
      <3> QED BY <1>2, <3>1, <3>2, <3>3, <3>4, <3>5 DEF Ov2640Next
    <2> QED BY <2>1, <2>2 DEF IInv
  <1> QED BY <1>1, <1>2

LEMMA InvImpliesStatus == IInv => StatusIsTrue
  <1> SUFFICES ASSUME IInv, Idle, busFaults = 0
               PROVE  /\ regBank = chipBank
                      /\ (sensorStatus \ (Overwritten \cup Inverted))
                         = (On \ (Overwritten \cup Inverted))
                      /\ \A r \in RegisterFile : regs[r] \subseteq BitsOf(r)
    BY DEF StatusIsTrue
  <1>1. /\ regBank = chipBank /\ \A r \in RegisterFile : regs[r] \subseteq BitsOf(r)
        /\ \A s \in Kept : s \in sensorStatus <=> s \in regs[Place[s]]
    BY DEF IInv, Faultless, Idle, BankKnown, RegsClean, StatusAgrees, Busy, ToBeRead
  <1>2. sensorStatus \subseteq Status
    BY DEF IInv, TypeInv
  <1>3. (sensorStatus \ (Overwritten \cup Inverted)) = (On \ (Overwritten \cup Inverted))
    BY <1>1, <1>2 DEF Kept, On
  <1> QED BY <1>1, <1>3

\* The driver's caches of the bank and of the settings follow the chip, whatever calls
\* the application makes and however long, as long as no transfer fails.
THEOREM Ov2640InvTheorem == Ov2640Spec => []IInv
  <1> QED BY InitInv, NextInv, PTL DEF Ov2640Spec

\* StatusIsTrue: between two calls, none of which failed, the status that
\* esp_camera_save_to_nvs would save is what the chip has.
THEOREM StatusTheorem == Ov2640Spec => []StatusIsTrue
  BY Ov2640InvTheorem, InvImpliesStatus, PTL
=============================================================================
