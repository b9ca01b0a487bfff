---------------------------- MODULE CameraConfig ----------------------------
(***************************************************************************)
(* The sizes esp_camera_init computes (esp32-camera/driver/esp_camera.c,   *)
(* cam_hal.c and target/esp32/ll_cam.c): from the sensor, the format, the  *)
(* clock and the frame size it derives how samples come out of the I2S     *)
(* unit, how the DMA's buffer is cut into halves and nodes, and how long a *)
(* frame is, and the sensor is told what to send (SensorWindow).  cam_task *)
(* later adds up half buffers and believes that they make a frame.         *)
(***************************************************************************)
EXTENDS SensorWindow

CONSTANTS
    DmaBufferMax, \* CONFIG_CAMERA_DMA_BUFFER_SIZE_MAX
    NoCamera      \* no camera is running

ASSUME ConfigAssumption == DmaBufferMax \in Nat

VARIABLES
    request, \* the configuration, and the sensor that was found
    sizes    \* what esp_camera_init made of it

configVars == <<request, sizes>>

\* The largest frame of each sensor, and the sensors that compress.
camera_sensor ==
    [OV7725 |-> VGA, OV2640 |-> UXGA, OV3660 |-> QXGA, OV5640 |-> QSXGA, OV7670 |-> VGA,
     NT99141 |-> HD, GC2145 |-> UXGA, GC032A |-> VGA, GC0308 |-> VGA, BF3005 |-> VGA,
     BF20A6 |-> VGA, SC101IOT |-> HD, SC030IOT |-> VGA, SC031GS |-> VGA]
SupportsJpeg == {"OV2640", "OV3660", "OV5640", "NT99141"}
SendsY8 == {"OV3660", "OV5640", "NT99141", "SC031GS"}

\* esp_camera.h: the formats a configuration may name.
Formats == {"RGB565", "YUV422", "GRAYSCALE", "JPEG"}

-----------------------------------------------------------------------------
(* Samples.  fast: the clock is above 10 MHz.                               *)

\* ll_cam_set_sample_mode: bytes per pixel from the camera and in the frame, bytes
\* of the DMA per byte from the camera (ll_cam_bytes_per_sample), and the filter.
Mode(in, fb, item, filter) == [in |-> in, fb |-> fb, item |-> item, filter |-> filter]
SampleMode(r) ==
    LET fast == r.fast /\ r.sensor # "OV7725"
    IN CASE r.format = "JPEG" -> Mode(1, 1, 4, "jpeg")
         [] r.format = "GRAYSCALE" /\ r.sensor \in SendsY8 ->
                IF r.fast THEN Mode(1, 1, 4, "yuyv_highspeed") ELSE Mode(1, 1, 2, "yuyv")
         [] r.format = "GRAYSCALE" /\ r.sensor \notin SendsY8 ->
                IF fast THEN Mode(2, 1, 4, "grayscale_highspeed")
                        ELSE Mode(2, 1, 2, "grayscale")
         [] OTHER ->
                IF fast THEN Mode(2, 2, 4, "yuyv_highspeed") ELSE Mode(2, 2, 2, "yuyv")

\* The bytes a filter says it wrote, of len bytes of the DMA's 4-byte elements.
Filtered(filter, len) ==
    LET elements == len \div 4
        odd == elements % 8 # 0
    IN CASE filter \in {"jpeg", "grayscale"} -> elements
         [] filter = "grayscale_highspeed" -> (IF odd THEN elements + 1 ELSE elements) \div 2
         [] filter = "yuyv" -> elements * 2
         [] filter = "yuyv_highspeed" -> IF odd THEN elements + 4 ELSE elements

\* The bytes its unrolled loop writes, and those of the rest it handles.
Written(filter, len) ==
    LET elements == len \div 4
        odd == elements % 8 # 0
    IN CASE filter \in {"jpeg", "grayscale"} -> 4 * (elements \div 4)
         [] filter = "grayscale_highspeed" -> 4 * (elements \div 8) + (IF odd THEN 2 ELSE 0)
         [] filter = "yuyv" -> 8 * (elements \div 4)
         [] filter = "yuyv_highspeed" -> 8 * (elements \div 8) + (IF odd THEN 4 ELSE 0)

-----------------------------------------------------------------------------
(* The DMA's buffer.                                                        *)

Divides(d, n) == n % d = 0

\* ll_cam_calc_rgb_dma, in bytes from the camera until its last lines.  A node is
\* a part of a line or a number of lines, and so is a half buffer.
LinesFit_AnyNumber(height, lines) == TRUE
LinesFit(height, lines) == Divides(lines, height)

HalfMax(m) == (DmaBufferMax \div 2) \div m.item
LineFits(width, height, m) ==
    /\ width * m.in <= HalfMax(m)
    /\ height * width * m.in <= 4 * 1024 * 1024

RgbDma(width, height, m) ==
    LET nodeMax == 4092 \div m.item
        line == width * m.in
        linesPerNode == Max({k \in 1 .. nodeMax \div line : LinesFit(height, k)})
        node == IF line >= nodeMax THEN Max({k \in 1 .. nodeMax : Divides(k, line)})
                                   ELSE linesPerNode * line
        least == IF line >= nodeMax THEN line ELSE node
        half == least * Max({k \in 1 .. HalfMax(m) \div least :
                                LinesFit(height, (least * k) \div line)})
    IN [node |-> node * m.item,
        half |-> half * m.item,
        buffer |-> ((2 * HalfMax(m)) \div half) * half * m.item]

\* ll_cam_dma_sizes
JpegDma == [node |-> 2048, half |-> 2 * 2048, buffer |-> 8 * 2 * 2048]

Fits(r, size) ==
    \/ r.format = "JPEG"
    \/ LineFits(resolution[size].width, resolution[size].height, SampleMode(r))

\* cam_config: the frame, and the DMA.
CamConfig(r, size) ==
    LET m == SampleMode(r)
        w == resolution[size].width
        h == resolution[size].height
    IN [mode |-> m, size |-> size, pixels |-> w * h,
        dma |-> IF r.format = "JPEG" THEN JpegDma ELSE RgbDma(w, h, m),
        fbSize |-> IF r.format = "JPEG" THEN (w * h) \div 5 ELSE w * h * m.fb]

\* cam_task's pixels_per_dma
PixelsPerDma(c) == (c.dma.half * c.mode.fb) \div (c.mode.item * c.mode.in)

-----------------------------------------------------------------------------
ConfigInit == request = NoCamera /\ sizes = NoCamera

\* esp_camera_init takes the largest frame of the sensor when more is asked for.
Clamped(r) == IF r.size > camera_sensor[r.sensor] THEN camera_sensor[r.sensor] ELSE r.size

Requests ==
    {r \in [sensor : DOMAIN camera_sensor, format : Formats, fast : BOOLEAN,
            size : DOMAIN resolution] :
        r.format = "JPEG" => r.sensor \in SupportsJpeg}

\* A resolution too high for the DMA is refused, and so is one that the sensor's
\* set_framesize does not take.
InitCamera ==
    /\ sizes = NoCamera
    /\ \E r \in Requests :
        IF Fits(r, Clamped(r)) /\ AcceptsSize(r.sensor, Clamped(r))
          THEN request' = r /\ sizes' = CamConfig(r, Clamped(r))
          ELSE UNCHANGED configVars

\* esp_camera_deinit
DeinitCamera ==
    /\ sizes # NoCamera
    /\ request' = NoCamera /\ sizes' = NoCamera

ConfigNext == InitCamera \/ DeinitCamera
ConfigSpec == ConfigInit /\ [][ConfigNext]_configVars

Running == sizes # NoCamera

-----------------------------------------------------------------------------
\* The half buffers make exactly the frame cam_task expects: as many bytes in each
\* as the check for room supposes and as the filter writes, nodes that the DMA can
\* take and that fill the buffer, at least two halves to alternate between; and an
\* uncompressed picture is a whole number of them, its frame filled to the byte.
\* Of a compressed one at least the first fits.
PictureFits ==
    Running =>
        LET half == sizes.dma.half
            copied == Filtered(sizes.mode.filter, half)
        IN /\ copied = PixelsPerDma(sizes) /\ copied = Written(sizes.mode.filter, half)
           /\ sizes.dma.node <= 4092 /\ Divides(sizes.dma.node, half)
           /\ sizes.dma.buffer >= 2 * half /\ Divides(half, sizes.dma.buffer)
           /\ sizes.dma.buffer <= DmaBufferMax
           /\ IF request.format = "JPEG"
                THEN copied <= sizes.fbSize
                ELSE LET bytes == sizes.pixels * sizes.mode.in * sizes.mode.item
                     IN Divides(half, bytes) /\ (bytes \div half) * copied = sizes.fbSize

\* The window a sensor is told lies in its array, and the picture it is told to
\* send is the frame's: it fits in what the sensor has left of the window after
\* skipping and trimming, and fills that but for 16 pixels unless it is scaled.
WindowFits ==
    Running /\ request.sensor \in Windowed =>
        LET win == SensorWindow(request.sensor, sizes.size)
        IN /\ win.out = Frame(sizes.size)
           /\ win.left >= 0 /\ win.left + win.width <= win.array[1]
           /\ win.top >= 0 /\ win.top + win.height <= win.array[2]
           /\ \A d \in 1 .. 2 :
                 /\ win.out[d] <= win.room[d]
                 /\ ~win.scaled => win.room[d] <= win.out[d] + 16
=============================================================================
