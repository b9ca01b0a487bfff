---------------------------- MODULE SensorWindow ----------------------------
(***************************************************************************)
(* What a sensor is told by its driver's set_framesize (esp32-camera,      *)
(* sensors/): which part of its array to read, what to leave at the edges, *)
(* how to make it smaller and how large a picture to send.  Every driver   *)
(* has tables and arithmetic of its own; the camera driver above believes  *)
(* that the picture has the size of the frame.  A window is                *)
(*   array   the columns and rows the sensor has,                          *)
(*   left, top, width, height   what it reads of them,                     *)
(*   room    the picture that makes, once skipped and trimmed,             *)
(*   scaled  whether the sensor scales that to what it sends,              *)
(*   out     what it sends.                                                *)
(***************************************************************************)
EXTENDS Integers, FiniteSets, FiniteSetsExt, Sequences

Size(w, h, aspect) == [width |-> w, height |-> h, ratio |-> aspect]

\* framesize_t counts from 0, this sequence from 1.
resolution == <<
    Size(96, 96, "1x1"),      Size(160, 120, "4x3"),    Size(176, 144, "5x4"),
    Size(240, 176, "4x3"),    Size(240, 240, "1x1"),    Size(320, 240, "4x3"),
    Size(400, 296, "4x3"),    Size(480, 320, "3x2"),    Size(640, 480, "4x3"),
    Size(800, 600, "4x3"),    Size(1024, 768, "4x3"),   Size(1280, 720, "16x9"),
    Size(1280, 1024, "5x4"),  Size(1600, 1200, "4x3"),  Size(1920, 1080, "16x9"),
    Size(720, 1280, "9x16"),  Size(864, 1536, "9x16"),  Size(2048, 1536, "4x3"),
    Size(2560, 1440, "16x9"), Size(2560, 1600, "16x10"), Size(1088, 1920, "9x16"),
    Size(2560, 1920, "4x3")>>
QQVGA == 2
QVGA == 6
CIF == 7
VGA == 9
SVGA == 10
HD == 12
UXGA == 14
QXGA == 18
QSXGA == 22

Frame(size) == <<resolution[size].width, resolution[size].height>>

Read(array, left, top, width, height, room, scaled, out) ==
    [array |-> array, left |-> left, top |-> top, width |-> width, height |-> height,
     room |-> room, scaled |-> scaled, out |-> out]

\* Bits lowest .. lowest + count - 1 of n, as the drivers spread them over registers.
Bits(n, lowest, count) == (n \div 2^lowest) % 2^count

-----------------------------------------------------------------------------
(* The OV2640: a window of the array skipped by 4, 2 or 1, then a scaler. *)

ratio_table ==
    [x \in {"4x3", "3x2", "16x10", "16x9", "5x4", "1x1", "9x16"} |->
        CASE x = "4x3" -> <<0, 0, 1600, 1200>>
          [] x = "3x2" -> <<8, 72, 1584, 1056>>
          [] x = "16x10" -> <<0, 100, 1600, 1000>>
          [] x = "16x9" -> <<0, 150, 1600, 900>>
          [] x = "5x4" -> <<50, 0, 1500, 1200>>
          [] x = "1x1" -> <<200, 0, 1200, 1200>>
          [] x = "9x16" -> <<462, 0, 676, 1200>>]

\* set_framesize's mode, as the divisor of the array, with the array it reads out
\* (HSIZE8 and VSIZE8 of ov2640_settings_to_cif, _svga and _uxga).
WindowMode(size) ==
    CASE size <= CIF -> [by |-> 4, array |-> <<400, 296>>]
      [] size > CIF /\ size <= SVGA -> [by |-> 2, array |-> <<800, 600>>]
      [] OTHER -> [by |-> 1, array |-> <<1600, 1200>>]

CappedHeight_Not(y, mode) == y
CappedHeight(y, mode) == IF mode.by = 4 /\ y > 296 THEN 296 ELSE y

\* set_window: the registers, each of 8 bits.
Registers(offsetX, offsetY, maxX, maxY, w, h) ==
    [HSIZE |-> Bits(maxX, 0, 8), VSIZE |-> Bits(maxY, 0, 8),
     XOFFL |-> Bits(offsetX, 0, 8), YOFFL |-> Bits(offsetY, 0, 8),
     VHYX |-> 128 * Bits(maxY, 8, 1) + 16 * Bits(offsetY, 8, 3)
              + 8 * Bits(maxX, 8, 1) + Bits(offsetX, 8, 3),
     TEST |-> 128 * Bits(maxX, 9, 1),
     ZMOW |-> Bits(w, 0, 8), ZMOH |-> Bits(h, 0, 8),
     ZMHH |-> 4 * Bits(h, 8, 1) + Bits(w, 8, 2)]

SetWindow(size) ==
    LET t == ratio_table[resolution[size].ratio]
        mode == WindowMode(size)
    IN Registers(t[1] \div mode.by, t[2] \div mode.by,
                 (t[3] \div mode.by) \div 4, CappedHeight(t[4] \div mode.by, mode) \div 4,
                 resolution[size].width \div 4, resolution[size].height \div 4)

\* What the sensor makes of its registers.
Window(reg) ==
    [left |-> reg.XOFFL + 256 * (reg.VHYX % 8),
     top |-> reg.YOFFL + 256 * ((reg.VHYX \div 16) % 8),
     width |-> 4 * (reg.HSIZE + 256 * ((reg.VHYX \div 8) % 2) + 512 * (reg.TEST \div 128)),
     height |-> 4 * (reg.VSIZE + 256 * (reg.VHYX \div 128)),
     out |-> <<4 * (reg.ZMOW + 256 * (reg.ZMHH % 4)), 4 * (reg.ZMOH + 256 * (reg.ZMHH \div 4))>>]

Ov2640Window(size) ==
    LET read == Window(SetWindow(size))
    IN Read(WindowMode(size).array, read.left, read.top, read.width, read.height,
            <<read.width, read.height>>, TRUE, read.out)

-----------------------------------------------------------------------------
(* OV3660 and OV5640: a window of the whole array, halved by binning when   *)
(* the frame is at most half as large, less its margins, then a scaler.     *)

Area(max, start, end) == [max |-> max, start |-> start, end |-> end]
ov3660_ratio_table ==
    [x \in DOMAIN ratio_table |->
        CASE x = "4x3" -> Area(<<2048, 1536>>, <<0, 0>>, <<2079, 1547>>)
          [] x = "3x2" -> Area(<<1920, 1280>>, <<64, 128>>, <<2015, 1419>>)
          [] x = "16x10" -> Area(<<2048, 1280>>, <<0, 128>>, <<2079, 1419>>)
          [] x = "16x9" -> Area(<<1920, 1080>>, <<64, 242>>, <<2015, 1333>>)
          [] x = "5x4" -> Area(<<1920, 1536>>, <<64, 0>>, <<2015, 1547>>)
          [] x = "1x1" -> Area(<<1536, 1536>>, <<256, 0>>, <<1823, 1547>>)
          [] x = "9x16" -> Area(<<864, 1536>>, <<592, 0>>, <<1487, 1547>>)]
ov5640_ratio_table ==
    [x \in DOMAIN ratio_table |->
        CASE x = "4x3" -> Area(<<2560, 1920>>, <<0, 0>>, <<2623, 1951>>)
          [] x = "3x2" -> Area(<<2560, 1704>>, <<0, 110>>, <<2623, 1843>>)
          [] x = "16x10" -> Area(<<2560, 1600>>, <<0, 160>>, <<2623, 1791>>)
          [] x = "16x9" -> Area(<<2560, 1440>>, <<0, 240>>, <<2623, 1711>>)
          [] x = "5x4" -> Area(<<2400, 1920>>, <<80, 0>>, <<2543, 1951>>)
          [] x = "1x1" -> Area(<<1920, 1920>>, <<320, 0>>, <<2543, 1951>>)
          [] x = "9x16" -> Area(<<1088, 1920>>, <<736, 0>>, <<1887, 1951>>)]

Binned(size, area) ==
    Frame(size)[1] <= area.max[1] \div 2 /\ Frame(size)[2] <= area.max[2] \div 2
Scaled(size, area) ==
    Frame(size) \notin {area.max, <<area.max[1] \div 2, area.max[2] \div 2>>}

AreaWindow(size, array, area, margin) ==
    LET width == area.end[1] - area.start[1] + 1
        height == area.end[2] - area.start[2] + 1
        by == IF Binned(size, area) THEN 2 ELSE 1
    IN Read(array, area.start[1], area.start[2], width, height,
            <<width \div by - 2 * margin[1], height \div by - 2 * margin[2]>>,
            Scaled(size, area), Frame(size))

Ov3660Window(size) ==
    LET area == ov3660_ratio_table[resolution[size].ratio]
    IN AreaWindow(size, <<2080, 1548>>, area,
                  IF Binned(size, area) THEN <<8, 2>> ELSE <<16, 6>>)
Ov5640Window(size) ==
    LET area == ov5640_ratio_table[resolution[size].ratio]
    IN AreaWindow(size, <<2624, 1952>>, area,
                  IF Binned(size, area) THEN <<16, 8>> ELSE <<32, 16>>)

-----------------------------------------------------------------------------
(* GalaxyCore: a window in the middle of the array.  The GC2145 and GC0308  *)
(* read more of it and skip some (CONFIG_GC_SENSOR_SUBSAMPLE_MODE).         *)

Centred(full, part) == (full - part) \div 2

\* subsample_cfgs: the numerators of what is kept, over 420.
gc2145_subsample_cfgs == <<140, 210, 240, 252, 280, 420>>
gc0308_subsample_cfgs == <<84, 105, 140, 210, 240, 252, 280, 420>>

SubsampledWindow(size, full, array, margin, cfgs, first) ==
    LET kept == cfgs[Min({i \in first .. Len(cfgs) :
                            \A d \in 1 .. 2 : (full[d] * cfgs[i]) \div 420 >= Frame(size)[d]})]
        win == [d \in 1 .. 2 |-> (Frame(size)[d] * 420) \div kept]
        read == [d \in 1 .. 2 |-> win[d] + margin[d]]
    IN Read(array, Centred(full[1], win[1]), Centred(full[2], win[2]), read[1], read[2],
            [d \in 1 .. 2 |-> (read[d] * kept) \div 420], FALSE, Frame(size))

Gc2145Window(size) ==
    SubsampledWindow(size, Frame(UXGA), <<1618, 1216>>, <<16, 8>>,
                     gc2145_subsample_cfgs, IF size >= QVGA THEN 2 ELSE 1)
Gc0308Window(size) ==
    SubsampledWindow(size, Frame(VGA), <<648, 488>>, <<8, 8>>, gc0308_subsample_cfgs, 1)
Gc032aWindow(size) ==
    LET read == [d \in 1 .. 2 |-> Frame(size)[d] + 8]
    IN Read(<<648, 488>>, Centred(640, Frame(size)[1]), Centred(480, Frame(size)[2]),
            read[1], read[2], read, FALSE, Frame(size))

-----------------------------------------------------------------------------
(* BYD and SmartSens: a window in the middle, in registers of 8 bits.       *)

\* The BF3005 counts in 160 columns and 120 rows, of 2 pixels when it skips every
\* other one (bit 4 of register 0x12) and of 4 when it does not.
Bf3005Window(size) ==
    LET skips == Frame(size)[1] <= 320 /\ Frame(size)[2] <= 240
        unit == IF skips THEN 2 ELSE 4
        half == [d \in 1 .. 2 |-> Frame(size)[d] \div (2 * unit)]
        sent == [d \in 1 .. 2 |-> unit * (2 * half[d])]
    IN Read(<<160 * unit, 120 * unit>>, unit * (80 - half[1]), unit * (60 - half[2]),
            sent[1], sent[2], sent, FALSE, sent)

\* set_window: where it starts and ends, each with its upper bits in half a register.
ScSpan(offset, length, upper) ==
    LET ByRegisters(n) == Bits(n, 0, 8) + 256 * Bits(n, 8, upper)
    IN [from |-> ByRegisters(offset), length |-> ByRegisters(offset + length) - ByRegisters(offset)]

ScWindow(size, array, upper) ==
    LET x == ScSpan(Centred(array[1], Frame(size)[1]), Frame(size)[1], upper)
        y == ScSpan(Centred(array[2], Frame(size)[2]), Frame(size)[2], upper)
    IN Read(array, x.from, y.from, x.length, y.length, <<x.length, y.length>>, FALSE,
            <<x.length, y.length>>)

Sc030iotWindow(size) == ScWindow(size, <<640, 480>>, 2)
Sc101iotWindow(size) == ScWindow(size, <<1280, 720>>, 4)

-----------------------------------------------------------------------------
\* The sizes set_framesize does not refuse, of those up to the sensor's largest.
AcceptsSize(sensor, size) ==
    CASE sensor = "OV7670" -> size \in {QQVGA, QVGA, VGA}
      [] sensor = "SC030IOT" -> Frame(size)[1] <= 640 /\ Frame(size)[2] <= 480
      [] sensor = "SC101IOT" -> Frame(size)[1] <= 1280 /\ Frame(size)[2] <= 720
      [] sensor = "SC031GS" -> Frame(size) = <<200, 200>>
      [] OTHER -> TRUE

\* The sensors whose driver says in its source what it asks for.
Windowed == {"OV2640", "OV3660", "OV5640", "GC2145", "GC0308", "GC032A", "BF3005",
             "SC030IOT", "SC101IOT"}
SensorWindow(sensor, size) ==
    CASE sensor = "OV2640" -> Ov2640Window(size)
      [] sensor = "OV3660" -> Ov3660Window(size)
      [] sensor = "OV5640" -> Ov5640Window(size)
      [] sensor = "GC2145" -> Gc2145Window(size)
      [] sensor = "GC0308" -> Gc0308Window(size)
      [] sensor = "GC032A" -> Gc032aWindow(size)
      [] sensor = "BF3005" -> Bf3005Window(size)
      [] sensor = "SC030IOT" -> Sc030iotWindow(size)
      [] sensor = "SC101IOT" -> Sc101iotWindow(size)
=============================================================================
