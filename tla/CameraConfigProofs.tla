------------------------- MODULE CameraConfigProofs -------------------------
(***************************************************************************)
(* Proofs about CameraConfig and SensorWindow.  What runs is what          *)
(* cam_config makes of a request that it takes (Configured); the rest is   *)
(* arithmetic.                                                             *)
(*                                                                         *)
(* PictureFits, for every maximum of the DMA's buffer: ll_cam_calc_rgb_dma *)
(* makes half buffers of whole lines that divide the picture, cut into     *)
(* nodes (DmaShape), and whole lines are a multiple of 16 bytes, of which  *)
(* each filter writes what it says it writes (FilteredIs).                 *)
(*                                                                         *)
(* WindowFits: three families of drivers, each with one lemma on where its *)
(* windows lie (LeavesRoom for areas with margins, SubsampledPlaced and    *)
(* ScPlaced for windows in the middle), and the OV2640's registers, which  *)
(* say what they were told (RegistersRead).                                *)
(***************************************************************************)
EXTENDS CameraConfig, TLAPS, WellFoundedInduction, NaturalsInduction

-----------------------------------------------------------------------------
\* Division, for divisors that are not known.
LEMMA QuotientOf ==
    ASSUME NEW d \in Nat \ {0}, NEW q \in Nat
    PROVE  (d * q) \div d = q /\ (d * q) % d = 0
  OBVIOUS

LEMMA Reordered ==
    ASSUME NEW a \in Nat, NEW b \in Nat, NEW c \in Nat, NEW e \in Nat
    PROVE  (a * b) * c = (a * c) * b /\ ((a * c) * b) * e = c * ((a * b) * e)
  OBVIOUS

LEMMA DividedBy == ASSUME NEW d \in Nat \ {0}, NEW n \in Nat, n % d = 0
                   PROVE  n \div d \in Nat /\ n = d * (n \div d)
  OBVIOUS

LEMMA QuotientBounds ==
    ASSUME NEW d \in Nat \ {0}, NEW n \in Nat
    PROVE  n \div d \in Nat /\ d * (n \div d) <= n
  OBVIOUS

LEMMA ProductMonotone ==
    ASSUME NEW d \in Nat, NEW a \in Nat, NEW b \in Nat, a <= b
    PROVE  d * a <= d * b
  OBVIOUS

LEMMA QuotientAtLeast ==
    ASSUME NEW d \in Nat \ {0}, NEW n \in Nat, NEW k \in Nat, k * d <= n
    PROVE  k <= n \div d
  OBVIOUS

\* The largest of some numbers is one of them, and they are no larger.
LEMMA MaxIs ==
    ASSUME NEW top \in Nat, NEW S \in SUBSET (1 .. top), S # {}
    PROVE  Max(S) \in S
  <1> DEFINE R == OpToRel(<, Nat)
             T == {top - x : x \in S}
  <1>1. T \in SUBSET Nat /\ T # {}
    <2>1. \A x \in S : top - x \in Nat
      OBVIOUS
    <2> QED BY <2>1
  <1>2. IsWellFoundedOn(R, Nat)
    BY NatLessThanWellFounded
  <1>3. PICK n \in T : \A m \in T : <<m, n>> \notin R
    <2> HIDE DEF R, T
    <2> QED BY <1>1, <1>2, WFMin
  <1>4. PICK x \in S : n = top - x
    BY <1>3
  <1>5. ASSUME NEW y \in S PROVE x >= y
    <2>1. top - y \in T /\ top - y \in Nat /\ n \in Nat
      BY <1>1, <1>3
    <2>2. ~(top - y < n)
      BY <1>3, <2>1 DEF OpToRel
    <2> QED BY <1>4, <2>1, <2>2
  <1>6. \E z \in S : \A y \in S : z >= y
    BY <1>5
  <1> QED BY <1>6, Zenon DEF Max
-----------------------------------------------------------------------------
\* Samples.  What a filter says it wrote, it wrote, and it is what cam_task expects,
\* when it is given whole lines: each is a multiple of 16 bytes from the camera.
UncompressedModes ==
    {Mode(1, 1, 4, "yuyv_highspeed"), Mode(1, 1, 2, "yuyv"),
     Mode(2, 1, 4, "grayscale_highspeed"), Mode(2, 1, 2, "grayscale"),
     Mode(2, 2, 4, "yuyv_highspeed"), Mode(2, 2, 2, "yuyv")}

LEMMA ModeOf ==
    ASSUME NEW r \in Requests
    PROVE  IF r.format = "JPEG" THEN SampleMode(r) = Mode(1, 1, 4, "jpeg")
                                ELSE SampleMode(r) \in UncompressedModes
  BY DEF SampleMode, UncompressedModes

LEMMA ModeFields ==
    ASSUME NEW m \in UncompressedModes
    PROVE  m.in \in {1, 2} /\ m.fb \in {1, 2} /\ m.item \in {2, 4} /\ m.fb <= m.in
  BY DEF UncompressedModes, Mode

LEMMA FilteredIs ==
    ASSUME NEW m \in UncompressedModes, NEW q \in Nat
    PROVE  LET len == 16 * q * m.item
               copied == (16 * q * m.fb) \div m.in
           IN /\ Filtered(m.filter, len) = copied /\ Written(m.filter, len) = copied
              /\ (len * m.fb) \div (m.item * m.in) = copied
              /\ copied * m.in = 16 * q * m.fb
  <1>1. CASE m = Mode(1, 1, 4, "yuyv_highspeed")
    BY <1>1 DEF Mode, Filtered, Written
  <1>2. CASE m = Mode(1, 1, 2, "yuyv")
    BY <1>2 DEF Mode, Filtered, Written
  <1>3. CASE m = Mode(2, 1, 4, "grayscale_highspeed")
    <2>1. /\ m.in = 2 /\ m.fb = 1 /\ m.item = 4 /\ m.filter = "grayscale_highspeed"
      BY <1>3 DEF Mode
    <2>2. (64 * q) \div 4 = 16 * q /\ (16 * q) % 8 = 0 /\ (16 * q) \div 8 = 2 * q
          /\ (16 * q) \div 2 = 8 * q /\ (64 * q) \div 8 = 8 * q
      OBVIOUS
    <2>3. Filtered("grayscale_highspeed", 64 * q) = 8 * q
      BY <2>2 DEF Filtered
    <2>4. Written("grayscale_highspeed", 64 * q) = 8 * q
      BY <2>2 DEF Written
    <2> QED BY <2>1, <2>2, <2>3, <2>4
  <1>4. CASE m = Mode(2, 1, 2, "grayscale")
    <2>1. /\ m.in = 2 /\ m.fb = 1 /\ m.item = 2 /\ m.filter = "grayscale"
      BY <1>4 DEF Mode
    <2>2. (32 * q) \div 4 = 8 * q /\ (8 * q) \div 4 = 2 * q /\ (16 * q) \div 2 = 8 * q
      OBVIOUS
    <2>3. Filtered("grayscale", 32 * q) = 8 * q
      BY <2>2 DEF Filtered
    <2>4. Written("grayscale", 32 * q) = 8 * q
      BY <2>2 DEF Written
    <2> QED BY <2>1, <2>2, <2>3, <2>4
  <1>5. CASE m = Mode(2, 2, 4, "yuyv_highspeed")
    BY <1>5 DEF Mode, Filtered, Written
  <1>6. CASE m = Mode(2, 2, 2, "yuyv")
    BY <1>6 DEF Mode, Filtered, Written
  <1> QED BY <1>1, <1>2, <1>3, <1>4, <1>5, <1>6 DEF UncompressedModes
-----------------------------------------------------------------------------
\* The DMA's buffer: nodes of at most 4092 bytes divide the half buffers, which are whole
\* lines and divide the picture, and two of them fit.
LEMMA DividesSelf == \A n \in Nat \ {0} : n \div n = 1 /\ n % 1 = 0 /\ n % n = 0
  OBVIOUS

\* The largest size of a node's part of a line, and the largest number of lines.
LEMMA LargestDivisor ==
    ASSUME NEW n \in Nat \ {0}, NEW top \in Nat \ {0}
    PROVE  LET k == Max({x \in 1 .. top : Divides(x, n)}) IN k \in 1 .. top /\ n % k = 0
  <1> DEFINE S == {x \in 1 .. top : Divides(x, n)}
  <1>1. S \in SUBSET (1 .. top) /\ 1 \in S
    BY DividesSelf DEF Divides
  <1>2. Max(S) \in S
    <2> HIDE DEF S
    <2> QED BY <1>1, MaxIs
  <1> QED BY <1>2 DEF Divides

LEMMA LargestLines ==
    ASSUME NEW height \in Nat \ {0}, NEW top \in Nat \ {0}
    PROVE  LET k == Max({x \in 1 .. top : LinesFit(height, x)})
           IN k \in 1 .. top /\ height % k = 0
  BY LargestDivisor DEF LinesFit

LargestFor(height, line, least, top) ==
    Max({x \in 1 .. top : LinesFit(height, (least * x) \div line)})
LargestIs(height, line, lines, top) ==
    LET k == LargestFor(height, line, lines * line, top)
    IN k \in 1 .. top /\ height % (lines * k) = 0

LEMMA LargestHalf ==
    ASSUME NEW height \in Nat \ {0}, NEW line \in Nat \ {0}, NEW lines \in Nat \ {0},
           NEW top \in Nat \ {0}, height % lines = 0
    PROVE  LargestIs(height, line, lines, top)
  <1> DEFINE least == lines * line
             S == {x \in 1 .. top : LinesFit(height, (least * x) \div line)}
             k == LargestFor(height, line, least, top)
  <1>1. ASSUME NEW x \in 1 .. top PROVE (least * x) \div line = lines * x
    <2>1. least * x = line * (lines * x) /\ lines * x \in Nat
      OBVIOUS
    <2> QED BY <2>1, QuotientOf
  <1>2. S \in SUBSET (1 .. top) /\ 1 \in S
    BY <1>1 DEF LinesFit, Divides
  <1>3. k \in S
    <2> HIDE DEF S
    <2>1. Max(S) \in S
      BY <1>2, MaxIs
    <2> QED BY <2>1, Zenon DEF LargestFor, S
  <1>4. k \in 1 .. top /\ LinesFit(height, (least * k) \div line)
    BY <1>3
  <1> HIDE DEF S, least, k
  <1>5. height % (lines * k) = 0
    BY <1>1, <1>4 DEF LinesFit, Divides
  <1> QED BY <1>4, <1>5, Zenon DEF least, k, LargestIs

\* The least that the maximum of the buffer can be configured to be (Kconfig).
HoldsTwoNodes == DmaBufferMax \in Nat /\ DmaBufferMax >= 8192

LEMMA HalfMaxIs ==
    ASSUME NEW m \in UncompressedModes, HoldsTwoNodes
    PROVE  /\ HalfMax(m) \in Nat /\ 4092 \div m.item <= HalfMax(m)
           /\ 4092 \div m.item \in {1023, 2046} /\ m.item * (4092 \div m.item) = 4092
           /\ 2 * HalfMax(m) * m.item <= DmaBufferMax
  <1>1. CASE m.item = 2
    BY <1>1 DEF HalfMax, HoldsTwoNodes
  <1>2. CASE m.item = 4
    BY <1>2 DEF HalfMax, HoldsTwoNodes
  <1> QED BY <1>1, <1>2, ModeFields

DmaShape(d, line, height, m, node, perHalf, lines, groups, count) ==
    /\ d.node = node * m.item /\ d.half = line * lines * m.item
    /\ d.buffer = count * (line * lines) * m.item
    /\ node <= 4092 \div m.item /\ line * lines = node * perHalf
    /\ height = lines * groups
    /\ count >= 2 /\ count * (line * lines) <= 2 * HalfMax(m)

\* A node, and the least a half buffer holds: a line that is no longer than a node
\* makes several of them to a node, and a longer one is cut.
NodeOf(height, line, top) ==
    IF line >= top THEN Max({k \in 1 .. top : Divides(k, line)})
                   ELSE Max({k \in 1 .. top \div line : LinesFit(height, k)}) * line
LeastOf(height, line, top) == IF line >= top THEN line ELSE NodeOf(height, line, top)
LeastShape(height, line, top, node, least, lines, per) ==
    /\ least = lines * line /\ least = node * per /\ height % lines = 0
    /\ node <= top /\ (least <= line \/ least <= top)
HasLeast(height, line, top, node, least) ==
    \E lines \in Nat \ {0} : \E per \in Nat \ {0} :
        LeastShape(height, line, top, node, least, lines, per)

LEMMA LeastIs ==
    ASSUME NEW height \in Nat \ {0}, NEW line \in Nat \ {0}, NEW top \in Nat \ {0}
    PROVE  /\ NodeOf(height, line, top) \in Nat \ {0}
           /\ HasLeast(height, line, top, NodeOf(height, line, top),
                       LeastOf(height, line, top))
  <1> DEFINE node == NodeOf(height, line, top)
             least == LeastOf(height, line, top)
  <1>1. CASE line >= top
    <2>1. node \in 1 .. top /\ line % node = 0 /\ least = line
      BY <1>1, LargestDivisor DEF NodeOf, LeastOf
    <2> HIDE DEF node, least
    <2>2. line \div node \in Nat /\ line = node * (line \div node)
      BY <2>1, DividedBy
    <2>3. line \div node \in Nat \ {0}
      BY <2>1, <2>2
    <2>4. 1 \in Nat \ {0} /\ height % 1 = 0 /\ line = 1 * line
      OBVIOUS
    <2>5. LeastShape(height, line, top, node, least, 1, line \div node)
      BY <2>1, <2>2, <2>4 DEF LeastShape
    <2>6. node \in Nat \ {0}
      BY <2>1
    <2> QED BY <2>3, <2>4, <2>5, <2>6, Zenon DEF HasLeast, node, least
  <1>2. CASE ~(line >= top)
    <2> DEFINE k == Max({x \in 1 .. top \div line : LinesFit(height, x)})
    <2>1. node = k * line /\ least = node
      BY <1>2 DEF NodeOf, LeastOf
    <2>2. 1 * line <= top
      BY <1>2
    <2>3. top \div line \in Nat /\ line * (top \div line) <= top
      BY QuotientBounds
    <2>4. 1 <= top \div line
      BY <2>2, QuotientAtLeast
    <2>5. top \div line \in Nat \ {0}
      BY <2>3, <2>4
    <2>6. k \in 1 .. top \div line /\ height % k = 0
      BY <2>5, LargestLines
    <2> HIDE DEF k, node, least
    <2>7. k \in Nat \ {0} /\ k <= top \div line
      BY <2>5, <2>6
    <2>8. line * k <= line * (top \div line)
      BY <2>3, <2>7, ProductMonotone
    <2>9. node \in Nat \ {0} /\ node <= top /\ node = node * 1 /\ 1 \in Nat \ {0}
      BY <2>1, <2>3, <2>7, <2>8
    <2>10. LeastShape(height, line, top, node, least, k, 1)
      BY <2>1, <2>6, <2>9 DEF LeastShape
    <2> QED BY <2>7, <2>9, <2>10, Zenon DEF HasLeast, node, least
  <1> QED BY <1>1, <1>2

HasShape(d, line, height, m) ==
    \E node \in Nat \ {0} : \E perHalf \in Nat \ {0} : \E lines \in Nat \ {0} :
    \E groups \in Nat \ {0} : \E count \in Nat \ {0} :
        DmaShape(d, line, height, m, node, perHalf, lines, groups, count)

LEMMA RgbDmaIs ==
    ASSUME HoldsTwoNodes, NEW m \in UncompressedModes,
           NEW width \in Nat \ {0}, NEW height \in Nat \ {0}, LineFits(width, height, m)
    PROVE  HasShape(RgbDma(width, height, m), width * m.in, height, m)
  <1> DEFINE top == 4092 \div m.item
             line == width * m.in
             node == NodeOf(height, line, top)
             least == LeastOf(height, line, top)
             largest == LargestFor(height, line, least, HalfMax(m) \div least)
             half == least * largest
             count == (2 * HalfMax(m)) \div half
  <1>1. RgbDma(width, height, m) = [node |-> node * m.item, half |-> half * m.item,
                                    buffer |-> count * half * m.item]
    BY DEF RgbDma, NodeOf, LeastOf, LargestFor
  <1>2. line \in Nat \ {0} /\ line <= HalfMax(m) /\ m.item \in {2, 4}
    BY ModeFields DEF LineFits
  <1>3. top \in Nat \ {0} /\ HalfMax(m) \in Nat /\ top <= HalfMax(m)
    BY HalfMaxIs
  <1> HIDE DEF top, line
  <1>4. node \in Nat \ {0} /\ HasLeast(height, line, top, node, least)
    BY <1>2, <1>3, LeastIs
  <1> HIDE DEF node, least
  <1>5. PICK lines0 \in Nat \ {0} : \E per \in Nat \ {0} :
                                  LeastShape(height, line, top, node, least, lines0, per)
    BY <1>4, Zenon DEF HasLeast
  <1>6. PICK per \in Nat \ {0} : LeastShape(height, line, top, node, least, lines0, per)
    BY <1>5, Zenon
  <1>7. /\ least = lines0 * line /\ least = node * per /\ height % lines0 = 0
        /\ node <= top /\ least <= HalfMax(m)
    BY <1>2, <1>3, <1>4, <1>6 DEF LeastShape
  <1>8. least \in Nat \ {0}
    BY <1>2, <1>7
  <1> DEFINE most == HalfMax(m) \div least
  <1>9. most \in Nat /\ least * most <= HalfMax(m)
    BY <1>3, <1>8, QuotientBounds
  <1>10. 1 <= most
    <2>1. 1 * least <= HalfMax(m)
      BY <1>7, <1>8
    <2> QED BY <1>3, <1>8, <2>1, QuotientAtLeast
  <1>11. largest \in 1 .. most /\ height % (lines0 * largest) = 0
    <2> HIDE DEF most
    <2>1. most \in Nat \ {0}
      BY <1>9, <1>10
    <2>2. LargestIs(height, line, lines0, most)
      BY <1>2, <1>7, <2>1, LargestHalf
    <2>3. lines0 * line = least
      BY <1>7
    <2> QED BY <2>2, <2>3, Zenon DEF LargestIs, LargestFor, most
  <1> HIDE DEF largest, most
  <1>12. largest \in Nat \ {0} /\ largest <= most
    BY <1>9, <1>11
  <1> DEFINE lines == lines0 * largest
             perHalf == per * largest
  <1>13. lines \in Nat \ {0} /\ perHalf \in Nat \ {0}
    BY <1>12
  <1>14. half = line * lines
    BY <1>2, <1>7, <1>12
  <1>15. half = node * perHalf
    BY <1>4, <1>7, <1>12
  <1>2a. half \in Nat \ {0}
    BY <1>8, <1>12
  <1>17. half <= HalfMax(m)
    <2>1. least * largest <= least * most
      BY <1>8, <1>9, <1>12, ProductMonotone
    <2> QED BY <1>3, <1>8, <1>9, <1>2a, <2>1
  <1>18. height % lines = 0
    BY <1>11
  <1> HIDE DEF half, lines, perHalf
  <1> DEFINE groups == height \div lines
  <1>19. groups \in Nat /\ height = lines * groups
    BY <1>13, <1>18, DividedBy
  <1>20. groups \in Nat \ {0}
    <2> HIDE DEF groups
    <2> QED BY <1>13, <1>19
  <1> DEFINE halves == 2 * HalfMax(m)
  <1>21. halves \in Nat /\ 2 * half <= halves
    BY <1>3, <1>2a, <1>17
  <1>22. count = halves \div half
    OBVIOUS
  <1> HIDE DEF count, groups, halves
  <1>23. count \in Nat /\ half * count <= halves
    BY <1>2a, <1>21, <1>22, QuotientBounds
  <1>24. 2 <= count
    BY <1>2a, <1>21, <1>22, QuotientAtLeast
  <1>25. count \in Nat \ {0} /\ count * half <= halves
    BY <1>2a, <1>23, <1>24
  <1> DEFINE d == RgbDma(width, height, m)
  <1>26. d.node = node * m.item /\ d.half = half * m.item
         /\ d.buffer = count * half * m.item
    BY <1>1
  <1> HIDE DEF d
  <1>27. DmaShape(d, line, height, m, node, perHalf, lines, groups, count)
    BY <1>7, <1>14, <1>15, <1>19, <1>24, <1>25, <1>26 DEF DmaShape, top, halves
  <1>28. RgbDma(width, height, m) = d /\ width * m.in = line
    BY DEF d, line
  <1>29. HasShape(d, line, height, m)
    BY <1>4, <1>13, <1>20, <1>25, <1>27, Zenon DEF HasShape
  <1> QED BY <1>28, <1>29

-----------------------------------------------------------------------------
\* Pictures.
LEMMA ResolutionIs ==
    ASSUME NEW s \in DOMAIN resolution
    PROVE  LET w == resolution[s].width
               h == resolution[s].height
           IN w \in Nat \ {0} /\ h \in Nat \ {0} /\ w % 16 = 0 /\ 1024 <= (w * h) \div 5
  BY DEF resolution, Size

\* An uncompressed picture, of d's half buffers.
UncompressedFits(d, m, pixels, fbSize) ==
    LET copied == Filtered(m.filter, d.half)
        bytes == pixels * m.in * m.item
    IN /\ copied = (d.half * m.fb) \div (m.item * m.in)
       /\ copied = Written(m.filter, d.half)
       /\ d.node <= 4092 /\ Divides(d.node, d.half)
       /\ d.buffer >= 2 * d.half /\ Divides(d.half, d.buffer) /\ d.buffer <= DmaBufferMax
       /\ Divides(d.half, bytes) /\ (bytes \div d.half) * copied = fbSize

LEMMA UncompressedPicture ==
    ASSUME HoldsTwoNodes, NEW m \in UncompressedModes, NEW d,
           NEW width \in Nat \ {0}, NEW height \in Nat \ {0}, width % 16 = 0,
           HasShape(d, width * m.in, height, m)
    PROVE  UncompressedFits(d, m, width * height, width * height * m.fb)
  <1> DEFINE line == width * m.in
             in == m.in
             fb == m.fb
             item == m.item
  <1>1. PICK node \in Nat \ {0}, perHalf \in Nat \ {0}, lines \in Nat \ {0},
             groups \in Nat \ {0}, count \in Nat \ {0} :
               DmaShape(d, line, height, m, node, perHalf, lines, groups, count)
    BY Zenon DEF HasShape
  <1>2. in \in Nat \ {0} /\ fb \in Nat \ {0} /\ item \in Nat \ {0} /\ line \in Nat \ {0}
    BY ModeFields
  <1> DEFINE half == line * lines
             top == 4092 \div item
  <1>2a. line = width * in
    OBVIOUS
  <1>3. /\ d.node = node * item /\ d.half = half * item /\ d.buffer = count * half * item
        /\ node <= top /\ half = node * perHalf /\ height = lines * groups
        /\ count >= 2 /\ count * half <= 2 * HalfMax(m)
    BY <1>1 DEF DmaShape
  <1>4. half \in Nat \ {0}
    BY <1>2
  <1>5. top \in Nat /\ item * top = 4092 /\ 2 * HalfMax(m) * item <= DmaBufferMax
        /\ HalfMax(m) \in Nat /\ DmaBufferMax \in Nat
    BY HalfMaxIs DEF HoldsTwoNodes
  <1> HIDE DEF top
  <1> DEFINE q == (width \div 16) * (in * lines)
  <1>6. q \in Nat /\ half = 16 * q
    <2> DEFINE u == width \div 16
    <2>1. u \in Nat /\ width = 16 * u
      OBVIOUS
    <2> HIDE DEF u
    <2>2. line * lines = (16 * u) * (in * lines)
      BY <1>2, <2>1
    <2>3. (16 * u) * (in * lines) = 16 * (u * (in * lines))
      BY <1>2, <2>1
    <2> QED BY <1>2, <2>1, <2>2, <2>3 DEF u
  <1> HIDE DEF q, half, line
  <1> DEFINE copied == (16 * q * fb) \div in
  <1>7. /\ Filtered(m.filter, d.half) = copied /\ Written(m.filter, d.half) = copied
        /\ (d.half * fb) \div (item * in) = copied /\ copied * in = 16 * q * fb
    <2>1. d.half = 16 * q * item
      BY <1>2, <1>3, <1>6
    <2> QED BY <1>6, <2>1, FilteredIs
  <1>8. copied \in Nat
    <2>1. 16 * q * fb \in Nat
      BY <1>2, <1>6
    <2> QED BY <1>2, <2>1, QuotientBounds
  <1> HIDE DEF copied
  <1>9. d.node <= 4092 /\ d.node \in Nat \ {0} /\ Divides(d.node, d.half)
    <2>1. item * node <= item * top
      BY <1>2, <1>3, <1>5, ProductMonotone
    <2>2. d.node \in Nat \ {0} /\ d.node <= 4092
      BY <1>2, <1>3, <1>5, <2>1
    <2>3. d.half = d.node * perHalf
      BY <1>2, <1>3
    <2> QED BY <2>2, <2>3, QuotientOf DEF Divides
  <1>10. d.half \in Nat \ {0}
    BY <1>2, <1>3, <1>4
  <1>11. d.buffer >= 2 * d.half /\ Divides(d.half, d.buffer)
    <2>1. d.buffer = d.half * count
      BY <1>2, <1>3, <1>4
    <2>2. Divides(d.half, d.buffer)
      BY <1>10, <2>1, QuotientOf DEF Divides
    <2>3. d.half * 2 <= d.half * count
      BY <1>3, <1>10, ProductMonotone
    <2> QED BY <1>10, <2>1, <2>2, <2>3
  <1>12. d.buffer <= DmaBufferMax
    <2> DEFINE all == count * half
               most == 2 * HalfMax(m)
    <2>1. all \in Nat /\ most \in Nat /\ all <= most
      BY <1>3, <1>4, <1>5
    <2>2. most * item <= DmaBufferMax /\ d.buffer = all * item
      BY <1>3, <1>5
    <2> HIDE DEF all, most
    <2>3. item * all <= item * most
      BY <1>2, <2>1, ProductMonotone
    <2> QED BY <1>2, <1>5, <2>1, <2>2, <2>3
  <1> DEFINE pixels == width * height
             bytes == pixels * in * item
  <1>13. bytes = d.half * groups
    <2> HIDE DEF in, item
    <2>1. bytes = (line * height) * item
      BY <1>2, <1>2a, Reordered
    <2>2. line * height = half * groups
      BY <1>2, <1>3 DEF half
    <2>3. (half * groups) * item = (half * item) * groups
      BY <1>2, <1>4
    <2> QED BY <1>3, <2>1, <2>2, <2>3
  <1>14. Divides(d.half, bytes) /\ bytes \div d.half = groups
    BY <1>10, <1>13, QuotientOf DEF Divides
  <1>15. groups * copied = pixels * fb
    <2>1. in * (groups * copied) = groups * (copied * in)
      BY <1>2, <1>8
    <2>2. groups * (copied * in) = groups * (half * fb)
      BY <1>6, <1>7
    <2>3. groups * (half * fb) = (half * groups) * fb
      BY <1>2, <1>4
    <2>4. half * groups = line * height
      BY <1>2, <1>3 DEF half
    <2> HIDE DEF in, fb
    <2>5. (line * height) * fb = in * (pixels * fb)
      BY <1>2, <1>2a, Reordered
    <2>6. in * (groups * copied) = in * (pixels * fb)
      BY <2>1, <2>2, <2>3, <2>4, <2>5
    <2>7. groups * copied \in Nat /\ pixels * fb \in Nat
      BY <1>2, <1>8
    <2> QED BY <1>2, <2>6, <2>7
  <1> HIDE DEF bytes
  <1> QED BY <1>7, <1>9, <1>11, <1>12, <1>14, <1>15 DEF UncompressedFits, bytes
-----------------------------------------------------------------------------
\* The configuration that runs is what cam_config makes of a request it takes.
Configured ==
    sizes # NoCamera =>
        \E r \in Requests :
            /\ request = r /\ sizes = CamConfig(r, Clamped(r))
            /\ Fits(r, Clamped(r)) /\ AcceptsSize(r.sensor, Clamped(r))

LEMMA ConfigSteps == ConfigSpec => []Configured
  <1>1. ConfigInit => Configured
    BY DEF ConfigInit, Configured
  <1>2. ASSUME Configured, [ConfigNext]_configVars PROVE Configured'
    <2>1. CASE InitCamera
      BY <1>2, <2>1 DEF InitCamera, Configured, configVars
    <2>2. CASE DeinitCamera
      BY <2>2 DEF DeinitCamera, Configured
    <2>3. CASE UNCHANGED configVars
      BY <1>2, <2>3 DEF Configured, configVars
    <2> QED BY <1>2, <2>1, <2>2, <2>3 DEF ConfigNext
  <1> QED BY <1>1, <1>2, PTL DEF ConfigSpec

-----------------------------------------------------------------------------
LEMMA ClampedIs ==
    ASSUME NEW r \in Requests
    PROVE  Clamped(r) \in DOMAIN resolution
  BY DEF Clamped, Requests, camera_sensor, resolution, VGA, UXGA, QXGA, QSXGA, HD

\* A compressed picture: the DMA's buffer is the same whatever its maximum is.
JpegHolds == DmaBufferMax \in Nat /\ DmaBufferMax >= 32768

LEMMA JpegFigures ==
    LET m == Mode(1, 1, 4, "jpeg")
    IN /\ Filtered(m.filter, JpegDma.half) = 1024 /\ Written(m.filter, JpegDma.half) = 1024
       /\ (JpegDma.half * m.fb) \div (m.item * m.in) = 1024
       /\ JpegDma.node <= 4092 /\ Divides(JpegDma.node, JpegDma.half)
       /\ JpegDma.buffer >= 2 * JpegDma.half /\ Divides(JpegDma.half, JpegDma.buffer)
       /\ JpegDma.buffer = 32768
  BY DEF Mode, JpegDma, Divides, Filtered, Written

LEMMA JpegPicture ==
    ASSUME NEW r \in Requests, r.format = "JPEG", JpegHolds,
           request = r, sizes = CamConfig(r, Clamped(r))
    PROVE  PictureFits
  <1>1. sizes.mode = Mode(1, 1, 4, "jpeg") /\ sizes.dma = JpegDma
    BY ModeOf DEF CamConfig
  <1>2. sizes.fbSize >= 1024 /\ request.format = "JPEG"
    BY ClampedIs, ResolutionIs DEF CamConfig
  <1> QED BY <1>1, <1>2, JpegFigures DEF PictureFits, PixelsPerDma, JpegHolds

LEMMA UncompressedConfig ==
    ASSUME NEW r \in Requests, r.format # "JPEG", HoldsTwoNodes, Fits(r, Clamped(r)),
           request = r, sizes = CamConfig(r, Clamped(r))
    PROVE  PictureFits
  <1> DEFINE m == SampleMode(r)
             w == resolution[Clamped(r)].width
             h == resolution[Clamped(r)].height
  <1>1. m \in UncompressedModes
    BY ModeOf
  <1>2. w \in Nat \ {0} /\ h \in Nat \ {0} /\ w % 16 = 0 /\ LineFits(w, h, m)
    BY ClampedIs, ResolutionIs DEF Fits
  <1>3. /\ sizes.mode = m /\ sizes.pixels = w * h /\ sizes.dma = RgbDma(w, h, m)
        /\ sizes.fbSize = w * h * m.fb /\ request.format # "JPEG"
    BY DEF CamConfig
  <1> HIDE DEF m, w, h
  <1>4. UncompressedFits(sizes.dma, m, w * h, w * h * m.fb)
    BY <1>1, <1>2, <1>3, RgbDmaIs, UncompressedPicture
  <1> QED BY <1>3, <1>4 DEF PictureFits, PixelsPerDma, UncompressedFits
-----------------------------------------------------------------------------
\* PictureFits, whatever the sensor, the format, the clock, the size and the maximum of
\* the buffer are, provided this holds the buffer of a compressed picture.
THEOREM PictureTheorem == ASSUME JpegHolds PROVE ConfigSpec => []PictureFits
  <1>1. Configured => PictureFits
    <2>1. HoldsTwoNodes
      BY DEF JpegHolds, HoldsTwoNodes
    <2>2. ~Running => PictureFits
      BY DEF PictureFits
    <2> QED BY <2>1, <2>2, JpegPicture, UncompressedConfig DEF Running, Configured
  <1> QED BY <1>1, ConfigSteps, PTL

\* An uncompressed picture fits with every maximum that can be configured.
THEOREM UncompressedTheorem ==
    ASSUME HoldsTwoNodes
    PROVE  ConfigSpec => [](Running /\ request.format # "JPEG" => PictureFits)
  <1>1. Configured => (Running /\ request.format # "JPEG" => PictureFits)
    BY UncompressedConfig DEF Running, Configured
  <1> QED BY <1>1, ConfigSteps, PTL

-----------------------------------------------------------------------------
(* Windows.                                                                *)

\* The frames, by their aspect.
LEMMA Frames ==
    /\ Frame(1) = <<96, 96>> /\ Frame(2) = <<160, 120>> /\ Frame(3) = <<176, 144>>
    /\ Frame(4) = <<240, 176>> /\ Frame(5) = <<240, 240>> /\ Frame(6) = <<320, 240>>
    /\ Frame(7) = <<400, 296>> /\ Frame(8) = <<480, 320>> /\ Frame(9) = <<640, 480>>
    /\ Frame(10) = <<800, 600>> /\ Frame(11) = <<1024, 768>> /\ Frame(12) = <<1280, 720>>
    /\ Frame(13) = <<1280, 1024>> /\ Frame(14) = <<1600, 1200>> /\ Frame(15) = <<1920, 1080>>
    /\ Frame(16) = <<720, 1280>> /\ Frame(17) = <<864, 1536>> /\ Frame(18) = <<2048, 1536>>
    /\ Frame(19) = <<2560, 1440>> /\ Frame(20) = <<2560, 1600>> /\ Frame(21) = <<1088, 1920>>
    /\ Frame(22) = <<2560, 1920>>
  BY DEF Frame, resolution, Size

LEMMA Ratios ==
    /\ \A s \in {2, 4, 6, 7, 9, 10, 11, 14, 18, 22} : resolution[s].ratio = "4x3"
    /\ \A s \in {1, 5} : resolution[s].ratio = "1x1"
    /\ \A s \in {3, 13} : resolution[s].ratio = "5x4"
    /\ resolution[8].ratio = "3x2"
    /\ \A s \in {12, 15, 19} : resolution[s].ratio = "16x9"
    /\ \A s \in {16, 17, 21} : resolution[s].ratio = "9x16"
    /\ resolution[20].ratio = "16x10"
  BY DEF resolution, Size

LEMMA Ov3660Areas ==
    /\ ov3660_ratio_table["4x3"] = Area(<<2048, 1536>>, <<0, 0>>, <<2079, 1547>>)
    /\ ov3660_ratio_table["3x2"] = Area(<<1920, 1280>>, <<64, 128>>, <<2015, 1419>>)
    /\ ov3660_ratio_table["16x9"] = Area(<<1920, 1080>>, <<64, 242>>, <<2015, 1333>>)
    /\ ov3660_ratio_table["5x4"] = Area(<<1920, 1536>>, <<64, 0>>, <<2015, 1547>>)
    /\ ov3660_ratio_table["1x1"] = Area(<<1536, 1536>>, <<256, 0>>, <<1823, 1547>>)
    /\ ov3660_ratio_table["9x16"] = Area(<<864, 1536>>, <<592, 0>>, <<1487, 1547>>)
  BY DEF ov3660_ratio_table, ratio_table

\* What WindowFits asks of a window.
Placed(win, size) ==
    /\ win.out = Frame(size)
    /\ win.left >= 0 /\ win.left + win.width <= win.array[1]
    /\ win.top >= 0 /\ win.top + win.height <= win.array[2]
    /\ \A d \in 1 .. 2 : /\ win.out[d] <= win.room[d]
                         /\ ~win.scaled => win.room[d] <= win.out[d] + 16

LEMMA FrameIs ==
    ASSUME NEW s \in DOMAIN resolution
    PROVE  /\ Frame(s) = <<Frame(s)[1], Frame(s)[2]>>
           /\ Frame(s)[1] \in Nat \ {0} /\ Frame(s)[2] \in Nat \ {0}
  BY ResolutionIs DEF Frame

IsPair(p) == p = <<p[1], p[2]>> /\ p[1] \in Nat /\ p[2] \in Nat
IsArea(a) ==
    a = Area(a.max, a.start, a.end) /\ IsPair(a.max) /\ IsPair(a.start) /\ IsPair(a.end)

\* What is left of an area once it is halved and trimmed.
Left(s, area, margin, d) ==
    (area.end[d] - area.start[d] + 1) \div (IF Binned(s, area) THEN 2 ELSE 1) - 2 * margin[d]

Roomy(s, array, area, margin) ==
    \A d \in 1 .. 2 : /\ area.end[d] < array[d]
                      /\ Frame(s)[d] <= Left(s, area, margin, d)
                      /\ ~Scaled(s, area) => Left(s, area, margin, d) <= Frame(s)[d] + 16

LEMMA AreaPlaced ==
    ASSUME NEW s \in DOMAIN resolution, NEW array, NEW area, NEW margin,
           IsPair(array), IsArea(area), IsPair(margin), Roomy(s, array, area, margin)
    PROVE  Placed(AreaWindow(s, array, area, margin), s)
  <1> DEFINE win == AreaWindow(s, array, area, margin)
             width == area.end[1] - area.start[1] + 1
             height == area.end[2] - area.start[2] + 1
             rx == Left(s, area, margin, 1)
             ry == Left(s, area, margin, 2)
  <1>1. /\ win.out = Frame(s) /\ win.array = array
        /\ win.left = area.start[1] /\ win.top = area.start[2]
        /\ win.width = width /\ win.height = height
        /\ win.scaled = Scaled(s, area) /\ win.room = <<rx, ry>>
    BY DEF AreaWindow, Read, Left
  <1>2. /\ area.start[1] \in Nat /\ area.start[2] \in Nat /\ area.end[1] \in Nat
        /\ area.end[2] \in Nat /\ array[1] \in Nat /\ array[2] \in Nat
    BY DEF IsArea, IsPair
  <1>3. /\ area.end[1] < array[1] /\ area.end[2] < array[2]
        /\ Frame(s)[1] <= rx /\ Frame(s)[2] <= ry
        /\ ~Scaled(s, area) => rx <= Frame(s)[1] + 16 /\ ry <= Frame(s)[2] + 16
    BY DEF Roomy
  <1> HIDE DEF win, rx, ry
  <1>4. /\ win.left >= 0 /\ win.left + win.width <= win.array[1]
        /\ win.top >= 0 /\ win.top + win.height <= win.array[2]
    BY <1>1, <1>2, <1>3
  <1>5. ASSUME NEW d \in 1 .. 2
        PROVE  win.out[d] <= win.room[d] /\ (~win.scaled => win.room[d] <= win.out[d] + 16)
    <2>1. CASE d = 1
      BY <1>1, <1>3, <2>1
    <2>2. CASE d = 2
      BY <1>1, <1>3, <2>2
    <2> QED BY <2>1, <2>2
  <1> QED BY <1>1, <1>4, <1>5 DEF win, Placed

\* An area that, trimmed by these margins, leaves its largest picture or half of it.
Leaves(area, binned, full, d) ==
    LET length == area.end[d] - area.start[d] + 1
    IN /\ area.max[d] % 2 = 0 /\ area.start[d] <= area.end[d]
       /\ area.max[d] <= length - 2 * full[d]
       /\ area.max[d] \div 2 <= length \div 2 - 2 * binned[d]
\* And not much more.
Tight(area, binned, full, d) ==
    LET length == area.end[d] - area.start[d] + 1
    IN /\ length - 2 * full[d] <= area.max[d] + 16
       /\ length \div 2 - 2 * binned[d] <= area.max[d] \div 2 + 16

LEMMA LeavesRoom ==
    ASSUME NEW s \in DOMAIN resolution, NEW array, NEW area, NEW binned, NEW full,
           IsPair(array), IsArea(area), IsPair(binned), IsPair(full),
           \A d \in 1 .. 2 : Leaves(area, binned, full, d) /\ area.end[d] < array[d],
           \A d \in 1 .. 2 : Frame(s)[d] <= area.max[d],
           Scaled(s, area) \/ \A d \in 1 .. 2 : Tight(area, binned, full, d)
    PROVE  Placed(AreaWindow(s, array, area, IF Binned(s, area) THEN binned ELSE full), s)
  <1> DEFINE margin == IF Binned(s, area) THEN binned ELSE full
  <1>1. \A d \in 1 .. 2 : d = 1 \/ d = 2
    OBVIOUS
  <1>2. \A d \in 1 .. 2 : area.start[d] \in Nat /\ area.end[d] \in Nat /\ area.max[d] \in Nat
                          /\ array[d] \in Nat /\ binned[d] \in Nat /\ full[d] \in Nat
                          /\ Frame(s)[d] \in Nat
    BY <1>1, FrameIs DEF IsArea, IsPair
  <1>3. area.max = <<area.max[1], area.max[2]>> /\ Frame(s) = <<Frame(s)[1], Frame(s)[2]>>
    BY FrameIs DEF IsArea, IsPair
  <1>4. CASE Binned(s, area)
    <2>1. \A d \in 1 .. 2 : Frame(s)[d] <= area.max[d] \div 2
      BY <1>1, <1>4 DEF Binned
    <2>2. ~Scaled(s, area) => \A d \in 1 .. 2 : Frame(s)[d] >= area.max[d] \div 2
      <3>1. ASSUME ~Scaled(s, area), NEW d \in 1 .. 2 PROVE Frame(s)[d] >= area.max[d] \div 2
        <4>1. \/ Frame(s) = area.max
              \/ Frame(s) = <<area.max[1] \div 2, area.max[2] \div 2>>
          BY <3>1 DEF Scaled
        <4>2. area.max[d] >= area.max[d] \div 2 /\ (d = 1 \/ d = 2)
          BY <1>1, <1>2
        <4> QED BY <1>2, <4>1, <4>2
      <3> QED BY <3>1
    <2>3. \A d \in 1 .. 2 : Left(s, area, margin, d)
                            = (area.end[d] - area.start[d] + 1) \div 2 - 2 * binned[d]
      BY <1>4 DEF Left
    <2> HIDE DEF margin
    <2>4. ASSUME NEW d \in 1 .. 2
          PROVE  /\ area.end[d] < array[d]
                 /\ Frame(s)[d] <= Left(s, area, margin, d)
                 /\ ~Scaled(s, area) => Left(s, area, margin, d) <= Frame(s)[d] + 16
      <3> DEFINE whole == (area.end[d] - area.start[d] + 1) \div 2
      <3>1. whole \in Int /\ Left(s, area, margin, d) = whole - 2 * binned[d]
            /\ area.max[d] \div 2 \in Nat /\ area.max[d] \div 2 <= whole - 2 * binned[d]
        BY <1>2, <2>3 DEF Leaves
      <3>2. ~Scaled(s, area) => whole - 2 * binned[d] <= area.max[d] \div 2 + 16
        BY DEF Tight
      <3> HIDE DEF whole
      <3> QED BY <1>2, <2>1, <2>2, <3>1, <3>2
    <2>5. IsPair(margin) /\ Roomy(s, array, area, margin)
      BY <1>4, <2>4 DEF Roomy, margin
    <2>6. Placed(AreaWindow(s, array, area, margin), s)
      BY <2>5, AreaPlaced
    <2> QED BY <2>6 DEF margin
  <1>5. CASE ~Binned(s, area)
    <2>1. ~Scaled(s, area) => \A d \in 1 .. 2 : Frame(s)[d] = area.max[d]
      <3>1. Frame(s) # <<area.max[1] \div 2, area.max[2] \div 2>>
        <4>1. ~(Frame(s)[1] <= area.max[1] \div 2 /\ Frame(s)[2] <= area.max[2] \div 2)
          BY <1>5 DEF Binned
        <4>2. area.max[1] \div 2 \in Int /\ area.max[2] \div 2 \in Int
          BY <1>1, <1>2
        <4> QED BY <4>1, <4>2
      <3> QED BY <3>1 DEF Scaled
    <2>2. \A d \in 1 .. 2 : Left(s, area, margin, d)
                            = area.end[d] - area.start[d] + 1 - 2 * full[d]
      BY <1>2, <1>5 DEF Left
    <2> HIDE DEF margin
    <2>3. ASSUME NEW d \in 1 .. 2
          PROVE  /\ area.end[d] < array[d]
                 /\ Frame(s)[d] <= Left(s, area, margin, d)
                 /\ ~Scaled(s, area) => Left(s, area, margin, d) <= Frame(s)[d] + 16
      BY <1>2, <2>1, <2>2 DEF Leaves, Tight
    <2>4. IsPair(margin) /\ Roomy(s, array, area, margin)
      BY <1>5, <2>3 DEF Roomy, margin
    <2>5. Placed(AreaWindow(s, array, area, margin), s)
      BY <2>4, AreaPlaced
    <2> QED BY <2>5 DEF margin
  <1> QED BY <1>4, <1>5
-----------------------------------------------------------------------------
\* An area that a sensor of that array can take the frame from.
Suits(s, array, area, binned, full) ==
    /\ IsArea(area)
    /\ \A d \in 1 .. 2 : Leaves(area, binned, full, d) /\ area.end[d] < array[d]
    /\ \A d \in 1 .. 2 : Frame(s)[d] <= area.max[d]
    /\ Scaled(s, area) \/ \A d \in 1 .. 2 : Tight(area, binned, full, d)

LEMMA SuitsIs ==
    ASSUME NEW s \in DOMAIN resolution, NEW array, NEW area, NEW binned, NEW full,
           IsPair(array), IsPair(binned), IsPair(full), Suits(s, array, area, binned, full)
    PROVE  Placed(AreaWindow(s, array, area, IF Binned(s, area) THEN binned ELSE full), s)
  BY LeavesRoom DEF Suits

LEMMA Ov3660Placed == ASSUME NEW s \in 1 .. QXGA PROVE Placed(Ov3660Window(s), s)
  <1> DEFINE area == ov3660_ratio_table[resolution[s].ratio]
             array == <<2080, 1548>>
             binned == <<8, 2>>
             full == <<16, 6>>
             Good == Suits(s, array, area, binned, full)
  <1>1. ASSUME s \in {2, 4, 6, 7, 9, 10, 11, 14, 18} PROVE Good
    <2>1. area = Area(<<2048, 1536>>, <<0, 0>>, <<2079, 1547>>)
      BY <1>1, Ratios, Ov3660Areas
    <2>2. Frame(s)[1] <= 2048 /\ Frame(s)[2] <= 1536
      BY <1>1, Frames
    <2> QED BY <2>1, <2>2 DEF Suits, IsArea, IsPair, Area, Leaves, Tight
  <1>2. ASSUME s \in {1, 5} PROVE Good
    <2>1. area = Area(<<1536, 1536>>, <<256, 0>>, <<1823, 1547>>)
      BY <1>2, Ratios, Ov3660Areas
    <2>2. Frame(s)[1] <= 1536 /\ Frame(s)[2] <= 1536
      BY <1>2, Frames
    <2> QED BY <2>1, <2>2 DEF Suits, IsArea, IsPair, Area, Leaves, Tight
  <1>3. ASSUME s \in {3, 13} PROVE Good
    <2>1. area = Area(<<1920, 1536>>, <<64, 0>>, <<2015, 1547>>)
      BY <1>3, Ratios, Ov3660Areas
    <2>2. Frame(s)[1] <= 1920 /\ Frame(s)[2] <= 1536
      BY <1>3, Frames
    <2> QED BY <2>1, <2>2 DEF Suits, IsArea, IsPair, Area, Leaves, Tight
  <1>4. ASSUME s \in {8} PROVE Good
    <2>1. area = Area(<<1920, 1280>>, <<64, 128>>, <<2015, 1419>>)
      BY <1>4, Ratios, Ov3660Areas
    <2>2. Frame(s)[1] <= 1920 /\ Frame(s)[2] <= 1280
      BY <1>4, Frames
    <2> QED BY <2>1, <2>2 DEF Suits, IsArea, IsPair, Area, Leaves, Tight
  <1>5. ASSUME s \in {12, 15} PROVE Good
    <2>1. area = Area(<<1920, 1080>>, <<64, 242>>, <<2015, 1333>>)
      BY <1>5, Ratios, Ov3660Areas
    <2>2. Frame(s)[1] <= 1920 /\ Frame(s)[2] <= 1080
      BY <1>5, Frames
    <2> QED BY <2>1, <2>2 DEF Suits, IsArea, IsPair, Area, Leaves, Tight
  <1>6. ASSUME s \in {16, 17} PROVE Good
    <2>1. area = Area(<<864, 1536>>, <<592, 0>>, <<1487, 1547>>)
      BY <1>6, Ratios, Ov3660Areas
    <2>2. Frame(s)[1] <= 864 /\ Frame(s)[2] <= 1536
      BY <1>6, Frames
    <2> QED BY <2>1, <2>2 DEF Suits, IsArea, IsPair, Area, Leaves, Tight
  <1>7. Good
    <2> HIDE DEF Good
    <2> QED BY <1>1, <1>2, <1>3, <1>4, <1>5, <1>6 DEF QXGA
  <1>8. s \in DOMAIN resolution /\ IsPair(array) /\ IsPair(binned) /\ IsPair(full)
    BY DEF resolution, QXGA, IsPair
  <1> QED BY <1>7, <1>8, SuitsIs DEF Ov3660Window

LEMMA Ov5640Areas ==
    /\ ov5640_ratio_table["4x3"] = Area(<<2560, 1920>>, <<0, 0>>, <<2623, 1951>>)
    /\ ov5640_ratio_table["3x2"] = Area(<<2560, 1704>>, <<0, 110>>, <<2623, 1843>>)
    /\ ov5640_ratio_table["16x10"] = Area(<<2560, 1600>>, <<0, 160>>, <<2623, 1791>>)
    /\ ov5640_ratio_table["16x9"] = Area(<<2560, 1440>>, <<0, 240>>, <<2623, 1711>>)
    /\ ov5640_ratio_table["5x4"] = Area(<<2400, 1920>>, <<80, 0>>, <<2543, 1951>>)
    /\ ov5640_ratio_table["1x1"] = Area(<<1920, 1920>>, <<320, 0>>, <<2543, 1951>>)
    /\ ov5640_ratio_table["9x16"] = Area(<<1088, 1920>>, <<736, 0>>, <<1887, 1951>>)
  BY DEF ov5640_ratio_table, ratio_table

\* The area of a square picture is wider than the rest, but no frame is that large or
\* half as large; that of a 3x2 picture is two rows lower, and the only frame is small.
LEMMA Ov5640Placed == ASSUME NEW s \in 1 .. QSXGA PROVE Placed(Ov5640Window(s), s)
  <1> DEFINE area == ov5640_ratio_table[resolution[s].ratio]
             array == <<2624, 1952>>
             binned == <<16, 8>>
             full == <<32, 16>>
             Good == Suits(s, array, area, binned, full)
  <1>1. ASSUME s \in {2, 4, 6, 7, 9, 10, 11, 14, 18, 22} PROVE Good
    <2>1. area = Area(<<2560, 1920>>, <<0, 0>>, <<2623, 1951>>)
      BY <1>1, Ratios, Ov5640Areas
    <2>2. Frame(s)[1] <= 2560 /\ Frame(s)[2] <= 1920
      BY <1>1, Frames
    <2> QED BY <2>1, <2>2 DEF Suits, IsArea, IsPair, Area, Leaves, Tight
  <1>2. ASSUME s \in {3, 13} PROVE Good
    <2>1. area = Area(<<2400, 1920>>, <<80, 0>>, <<2543, 1951>>)
      BY <1>2, Ratios, Ov5640Areas
    <2>2. Frame(s)[1] <= 2400 /\ Frame(s)[2] <= 1920
      BY <1>2, Frames
    <2> QED BY <2>1, <2>2 DEF Suits, IsArea, IsPair, Area, Leaves, Tight
  <1>3. ASSUME s \in {12, 15, 19} PROVE Good
    <2>1. area = Area(<<2560, 1440>>, <<0, 240>>, <<2623, 1711>>)
      BY <1>3, Ratios, Ov5640Areas
    <2>2. Frame(s)[1] <= 2560 /\ Frame(s)[2] <= 1440
      BY <1>3, Frames
    <2> QED BY <2>1, <2>2 DEF Suits, IsArea, IsPair, Area, Leaves, Tight
  <1>4. ASSUME s \in {16, 17, 21} PROVE Good
    <2>1. area = Area(<<1088, 1920>>, <<736, 0>>, <<1887, 1951>>)
      BY <1>4, Ratios, Ov5640Areas
    <2>2. Frame(s)[1] <= 1088 /\ Frame(s)[2] <= 1920
      BY <1>4, Frames
    <2> QED BY <2>1, <2>2 DEF Suits, IsArea, IsPair, Area, Leaves, Tight
  <1>5. ASSUME s \in {20} PROVE Good
    <2>1. area = Area(<<2560, 1600>>, <<0, 160>>, <<2623, 1791>>)
      BY <1>5, Ratios, Ov5640Areas
    <2>2. Frame(s)[1] <= 2560 /\ Frame(s)[2] <= 1600
      BY <1>5, Frames
    <2> QED BY <2>1, <2>2 DEF Suits, IsArea, IsPair, Area, Leaves, Tight
  <1>6. s \in DOMAIN resolution /\ IsPair(array) /\ IsPair(binned) /\ IsPair(full)
    BY DEF resolution, QSXGA, IsPair
  <1>7. ASSUME s \in {1, 5} PROVE Good
    <2>1. area = Area(<<1920, 1920>>, <<320, 0>>, <<2543, 1951>>)
      BY <1>7, Ratios, Ov5640Areas
    <2>2. Frame(s)[1] <= 240 /\ Frame(s)[2] <= 240
      BY <1>7, Frames
    <2>3. Scaled(s, area)
      BY <2>1, <2>2 DEF Scaled, Area
    <2>4. IsArea(area)
      BY <2>1 DEF IsArea, IsPair, Area
    <2>5. ASSUME NEW d \in 1 .. 2 PROVE Leaves(area, binned, full, d) /\ area.end[d] < array[d]
      BY <2>1 DEF Area, Leaves
    <2>6. ASSUME NEW d \in 1 .. 2 PROVE Frame(s)[d] <= area.max[d]
      <3>1. area.max[d] = 1920
        BY <2>1 DEF Area
      <3>2. Frame(s)[d] <= 240 /\ Frame(s)[d] \in Nat
        BY <1>6, <2>2, FrameIs
      <3> QED BY <3>1, <3>2
    <2> HIDE DEF area, array, binned, full
    <2> QED BY <2>3, <2>4, <2>5, <2>6 DEF Suits
  <1>8. CASE s = 8
    <2>1. area = Area(<<2560, 1704>>, <<0, 110>>, <<2623, 1843>>) /\ Frame(s) = <<480, 320>>
      BY <1>8, Ratios, Frames, Ov5640Areas
    <2>2. Binned(s, area) /\ Scaled(s, area) /\ IsArea(area)
      BY <2>1 DEF Binned, Scaled, Area, IsArea, IsPair
    <2>3. Roomy(s, array, area, binned)
      BY <2>1, <2>2 DEF Roomy, Left, Area
    <2>4. Placed(AreaWindow(s, array, area, binned), s)
      BY <1>6, <2>2, <2>3, AreaPlaced
    <2> QED BY <2>2, <2>4 DEF Ov5640Window
  <1>9. CASE s # 8
    <2>1. Good
      <3> HIDE DEF Good
      <3> QED BY <1>1, <1>2, <1>3, <1>4, <1>5, <1>7, <1>9 DEF QSXGA
    <2> QED BY <1>6, <2>1, SuitsIs DEF Ov5640Window
  <1> QED BY <1>8, <1>9

-----------------------------------------------------------------------------
\* GalaxyCore.  The least of some numbers is one of them.
LEMMA MinIs ==
    ASSUME NEW S \in SUBSET Nat, S # {}
    PROVE  Min(S) \in S
  <1> DEFINE R == OpToRel(<, Nat)
  <1>1. PICK n \in S : \A m \in S : <<m, n>> \notin R
    <2>1. IsWellFoundedOn(R, Nat)
      BY NatLessThanWellFounded
    <2> HIDE DEF R
    <2> QED BY <2>1, WFMin
  <1>2. ASSUME NEW m \in S PROVE n <= m
    <2>1. m \in Nat /\ n \in Nat
      BY <1>1
    <2>2. ~(m < n)
      BY <1>1, <2>1 DEF OpToRel
    <2> QED BY <2>1, <2>2
  <1>3. \E x \in S : \A y \in S : x <= y
    BY <1>2
  <1> QED BY <1>3, Zenon DEF Min

LEMMA Quotients ==
    ASSUME NEW n \in Nat, NEW k \in Nat \ {0}
    PROVE  LET q == n \div k IN q \in Nat /\ k * q <= n /\ n < k * q + k
  OBVIOUS

\* One direction of a window of which kept / 420 is kept: it is in the middle of the
\* array, and what is left of it is the frame and a part of the margin.
WindowOf(frame, kept) == (frame * 420) \div kept
RoomOf(frame, kept, margin) == ((WindowOf(frame, kept) + margin) * kept) \div 420
KeptIs(full, frame, kept, margin) ==
    LET win == WindowOf(frame, kept)
        room == RoomOf(frame, kept, margin)
    IN win \in Nat /\ win <= full /\ frame <= room /\ room <= frame + 16
LEMMA KeptOf ==
    ASSUME NEW full \in Nat, NEW frame \in Nat, NEW kept \in 1 .. 420, NEW margin \in 1 .. 16,
           frame <= (full * kept) \div 420
    PROVE  KeptIs(full, frame, kept, margin)
  <1> DEFINE win == (frame * 420) \div kept
             room == ((win + margin) * kept) \div 420
  <1>1. win \in Nat /\ kept * win <= frame * 420 /\ frame * 420 < kept * win + kept
    BY Quotients
  <1>2. win <= full
    <2>1. 420 * frame <= full * kept
      <3>1. full * kept \in Nat
        OBVIOUS
      <3>2. 420 * ((full * kept) \div 420) <= full * kept
        BY <3>1
      <3> QED BY <3>2
    <2>2. kept * win <= kept * full
      BY <1>1, <2>1
    <2> HIDE DEF win
    <2>3. ASSUME full < win PROVE FALSE
      <3>1. full + 1 <= win /\ win \in Nat
        BY <1>1, <2>3
      <3>2. kept * (full + 1) <= kept * win
        BY <3>1, ProductMonotone
      <3>3. kept * (full + 1) = kept * full + kept
        OBVIOUS
      <3> QED BY <1>1, <2>2, <3>2, <3>3
    <2> QED BY <1>1, <2>3
  <1> HIDE DEF win
  <1> DEFINE all == (win + margin) * kept
  <1>3. all = kept * win + kept * margin /\ all \in Nat
    BY <1>1
  <1>4. kept <= kept * margin /\ kept * margin <= 420 * 16
    <2>1. kept * 1 <= kept * margin /\ margin * kept <= margin * 420
      BY ProductMonotone
    <2> QED BY <2>1
  <1>5. 420 * frame <= all /\ all <= 420 * frame + 420 * 16
    BY <1>1, <1>3, <1>4
  <1> HIDE DEF all
  <1>6. frame <= all \div 420 /\ all \div 420 <= frame + 16
    BY <1>3, <1>5
  <1> QED BY <1>1, <1>2, <1>6 DEF win, all, WindowOf, RoomOf, KeptIs

\* The shares that may be kept, the last of which is all of it, from one on.
Shares(cfgs, first, last) ==
    /\ first \in Nat /\ last \in Nat /\ first <= last /\ cfgs[last] = 420
    /\ \A i \in first .. last : cfgs[i] \in 1 .. 420
Counts(cfgs, last) == Len(cfgs) = last
\* An array with its margins about the largest picture, which holds the frame.
Holds(s, full, array, margin) ==
    \A d \in 1 .. 2 : /\ full[d] \in Nat /\ array[d] \in Nat /\ margin[d] \in 1 .. 16
                      /\ full[d] + margin[d] <= array[d] /\ Frame(s)[d] <= full[d]

LEMMA SubsampledPlaced ==
    ASSUME NEW s \in DOMAIN resolution, NEW full, NEW array, NEW margin, NEW cfgs,
           NEW first, NEW last, Counts(cfgs, last),
           Shares(cfgs, first, last), Holds(s, full, array, margin)
    PROVE  Placed(SubsampledWindow(s, full, array, margin, cfgs, first), s)
  <1> DEFINE S == {i \in first .. Len(cfgs) :
                      \A d \in 1 .. 2 : (full[d] * cfgs[i]) \div 420 >= Frame(s)[d]}
             kept == cfgs[Min(S)]
             win == [d \in 1 .. 2 |-> (Frame(s)[d] * 420) \div kept]
             read == [d \in 1 .. 2 |-> win[d] + margin[d]]
             room == [d \in 1 .. 2 |-> (read[d] * kept) \div 420]
             w == SubsampledWindow(s, full, array, margin, cfgs, first)
  <1>1. w = Read(array, Centred(full[1], win[1]), Centred(full[2], win[2]), read[1], read[2],
                 room, FALSE, Frame(s))
    BY Zenon DEF SubsampledWindow
  <1>2. \A d \in 1 .. 2 : Frame(s)[d] \in Nat
    <2>1. \A d \in 1 .. 2 : d = 1 \/ d = 2
      OBVIOUS
    <2> QED BY <2>1, FrameIs
  <1>3. S = {i \in first .. last :
                \A d \in 1 .. 2 : (full[d] * cfgs[i]) \div 420 >= Frame(s)[d]}
    BY Zenon DEF Counts
  <1> HIDE DEF S
  <1>4. last \in S
    <2>1. ASSUME NEW d \in 1 .. 2 PROVE (full[d] * cfgs[last]) \div 420 >= Frame(s)[d]
      <3>1. full[d] \in Nat /\ cfgs[last] = 420 /\ Frame(s)[d] <= full[d]
        BY DEF Shares, Holds
      <3>2. (full[d] * 420) \div 420 = full[d]
        BY <3>1
      <3> QED BY <1>2, <3>1, <3>2
    <2>2. last \in first .. last
      BY DEF Shares
    <2> QED BY <1>3, <2>1, <2>2
  <1>5. Min(S) \in S
    <2>1. S \in SUBSET Nat /\ S # {}
      BY <1>3, <1>4 DEF Shares
    <2> QED BY <2>1, MinIs
  <1>6. kept \in 1 .. 420 /\ \A d \in 1 .. 2 : Frame(s)[d] <= (full[d] * kept) \div 420
    <2> DEFINE least == Min(S)
    <2> HIDE DEF least
    <2>1. /\ least \in first .. last
          /\ \A d \in 1 .. 2 : (full[d] * cfgs[least]) \div 420 >= Frame(s)[d]
      BY <1>3, <1>5 DEF least
    <2>2. cfgs[least] \in 1 .. 420
      BY <2>1 DEF Shares
    <2>3. ASSUME NEW d \in 1 .. 2 PROVE Frame(s)[d] <= (full[d] * cfgs[least]) \div 420
      <3>1. (full[d] * cfgs[least]) \div 420 \in Int
        BY <2>2 DEF Holds
      <3> QED BY <1>2, <2>1, <3>1
    <2> QED BY <2>2, <2>3 DEF least
  <1> HIDE DEF kept
  <1>7. ASSUME NEW d \in 1 .. 2
        PROVE  /\ win[d] \in Nat /\ win[d] <= full[d] /\ Frame(s)[d] <= room[d]
               /\ room[d] <= Frame(s)[d] + 16 /\ read[d] = win[d] + margin[d]
    <2>1. /\ win[d] = WindowOf(Frame(s)[d], kept) /\ read[d] = win[d] + margin[d]
          /\ room[d] = RoomOf(Frame(s)[d], kept, margin[d])
      BY DEF WindowOf, RoomOf
    <2>2. full[d] \in Nat /\ Frame(s)[d] \in Nat /\ margin[d] \in 1 .. 16
          /\ Frame(s)[d] <= (full[d] * kept) \div 420
      BY <1>2, <1>6 DEF Holds
    <2> HIDE DEF win, read, room
    <2> DEFINE f == Frame(s)[d]
               m == margin[d]
               u == full[d]
    <2>3. /\ kept \in 1 .. 420 /\ u \in Nat /\ f \in Nat /\ m \in 1 .. 16
          /\ f <= (u * kept) \div 420
      BY <1>6, <2>2
    <2> HIDE DEF f, m, u
    <2>4. KeptIs(u, f, kept, m)
      BY <2>3, KeptOf
    <2> QED BY <2>1, <2>4 DEF f, m, u, KeptIs
  <1> HIDE DEF win, read, room, w
  <1>8. ASSUME NEW d \in 1 .. 2
        PROVE  Centred(full[d], win[d]) >= 0 /\ Centred(full[d], win[d]) + read[d] <= array[d]
    <2>1. /\ full[d] \in Nat /\ array[d] \in Nat /\ margin[d] \in Nat
          /\ full[d] + margin[d] <= array[d]
      BY DEF Holds
    <2> QED BY <1>7, <2>1 DEF Centred
  <1>9. /\ w.out = Frame(s) /\ w.array = array /\ w.room = room /\ w.scaled = FALSE
        /\ w.left = Centred(full[1], win[1]) /\ w.width = read[1]
        /\ w.top = Centred(full[2], win[2]) /\ w.height = read[2]
    BY <1>1 DEF Read
  <1>10. Placed(w, s)
    <2>1. 1 \in 1 .. 2 /\ 2 \in 1 .. 2
      OBVIOUS
    <2> QED BY <1>7, <1>8, <1>9, <2>1 DEF Placed
  <1> QED BY <1>10 DEF w

LEMMA UxgaFrames == \A s \in 1 .. UXGA : Frame(s)[1] <= 1600 /\ Frame(s)[2] <= 1200
  BY Frames DEF UXGA
LEMMA VgaFrames == \A s \in 1 .. VGA : Frame(s)[1] <= 640 /\ Frame(s)[2] <= 480
  BY Frames DEF VGA

LEMMA Gc2145Placed == ASSUME NEW s \in 1 .. UXGA PROVE Placed(Gc2145Window(s), s)
  <1> DEFINE full == Frame(UXGA)
             array == <<1618, 1216>>
             margin == <<16, 8>>
             cfgs == gc2145_subsample_cfgs
             first == IF s >= QVGA THEN 2 ELSE 1
  <1>1. Counts(cfgs, 6) /\ cfgs[6] = 420 /\ \A i \in 1 .. 6 : cfgs[i] \in 1 .. 420
    BY DEF Counts, gc2145_subsample_cfgs
  <1>2. full[1] = 1600 /\ full[2] = 1200
    BY Frames DEF UXGA
  <1> HIDE DEF full, cfgs
  <1>3. ASSUME NEW d \in 1 .. 2
        PROVE  /\ full[d] \in Nat /\ array[d] \in Nat /\ margin[d] \in 1 .. 16
               /\ full[d] + margin[d] <= array[d] /\ Frame(s)[d] <= full[d]
    BY <1>2, UxgaFrames
  <1>4. s \in DOMAIN resolution /\ first \in Nat /\ first \in 1 .. 6
    BY DEF resolution, UXGA
  <1>5. \A i \in first .. 6 : cfgs[i] \in 1 .. 420
    BY <1>1, <1>4
  <1> HIDE DEF array, margin, first
  <1>6. Holds(s, full, array, margin) /\ Shares(cfgs, first, 6)
    BY <1>1, <1>3, <1>4, <1>5 DEF Holds, Shares
  <1>7. Placed(SubsampledWindow(s, full, array, margin, cfgs, first), s)
    BY <1>1, <1>4, <1>6, SubsampledPlaced
  <1> QED BY <1>7 DEF Gc2145Window, full, array, margin, cfgs, first

LEMMA Gc0308Placed == ASSUME NEW s \in 1 .. VGA PROVE Placed(Gc0308Window(s), s)
  <1> DEFINE full == Frame(VGA)
             array == <<648, 488>>
             margin == <<8, 8>>
             cfgs == gc0308_subsample_cfgs
  <1>1. Counts(cfgs, 8) /\ cfgs[8] = 420 /\ \A i \in 1 .. 8 : cfgs[i] \in 1 .. 420
    BY DEF Counts, gc0308_subsample_cfgs
  <1>2. full[1] = 640 /\ full[2] = 480
    BY Frames DEF VGA
  <1> HIDE DEF full, cfgs
  <1>3. ASSUME NEW d \in 1 .. 2
        PROVE  /\ full[d] \in Nat /\ array[d] \in Nat /\ margin[d] \in 1 .. 16
               /\ full[d] + margin[d] <= array[d] /\ Frame(s)[d] <= full[d]
    BY <1>2, VgaFrames
  <1>4. s \in DOMAIN resolution
    BY DEF resolution, VGA
  <1> HIDE DEF array, margin
  <1>5. Holds(s, full, array, margin) /\ Shares(cfgs, 1, 8)
    BY <1>1, <1>3 DEF Holds, Shares
  <1>6. Placed(SubsampledWindow(s, full, array, margin, cfgs, 1), s)
    BY <1>1, <1>4, <1>5, SubsampledPlaced
  <1> QED BY <1>6 DEF Gc0308Window, full, array, margin, cfgs

LEMMA Gc032aPlaced == ASSUME NEW s \in 1 .. VGA PROVE Placed(Gc032aWindow(s), s)
  <1>1. /\ Frame(s)[1] \in Nat /\ Frame(s)[2] \in Nat
        /\ Frame(s)[1] <= 640 /\ Frame(s)[2] <= 480
        /\ s \in DOMAIN resolution
    BY FrameIs, VgaFrames DEF resolution, VGA
  <1>2. ASSUME NEW d \in 1 .. 2 PROVE Frame(s)[d] \in Nat
    BY <1>1
  <1> QED BY <1>1, <1>2 DEF Gc032aWindow, Placed, Read, Centred
-----------------------------------------------------------------------------
\* BYD and SmartSens.
LEMMA Bf3005Placed == ASSUME NEW s \in 1 .. VGA PROVE Placed(Bf3005Window(s), s)
  <1> DEFINE skips == Frame(s)[1] <= 320 /\ Frame(s)[2] <= 240
             unit == IF skips THEN 2 ELSE 4
             half == [d \in 1 .. 2 |-> Frame(s)[d] \div (2 * unit)]
             sent == [d \in 1 .. 2 |-> unit * (2 * half[d])]
  <1>1. /\ Frame(s)[1] \in Nat /\ Frame(s)[2] \in Nat
        /\ Frame(s)[1] <= 640 /\ Frame(s)[2] <= 480
        /\ Frame(s)[1] % 8 = 0 /\ Frame(s)[2] % 8 = 0
        /\ Frame(s) = <<Frame(s)[1], Frame(s)[2]>>
    BY Frames DEF VGA
  <1>2. sent = Frame(s)
    BY <1>1
  <1>3. ASSUME NEW d \in 1 .. 2
        PROVE  unit * (half[d] + half[d]) = Frame(s)[d] /\ half[d] \in Nat
               /\ unit * half[d] + unit * half[d] = Frame(s)[d]
    BY <1>1
  <1>4. unit * half[1] <= 320 /\ unit * half[2] <= 240 /\ unit \in {2, 4}
    BY <1>1, <1>3
  <1>5. unit * (80 - half[1]) + Frame(s)[1] <= 160 * unit
    BY <1>1
  <1>6. unit * (60 - half[2]) + Frame(s)[2] <= 120 * unit
    BY <1>1
  <1>7. unit * (80 - half[1]) >= 0 /\ unit * (60 - half[2]) >= 0
    BY <1>1
  <1> QED BY <1>1, <1>2, <1>5, <1>6, <1>7 DEF Bf3005Window, Placed, Read

LEMMA ScSpanIs ==
    ASSUME NEW offset \in Nat, NEW length \in Nat, NEW upper \in {2, 4},
           offset + length < 256 * 2^upper
    PROVE  ScSpan(offset, length, upper) = [from |-> offset, length |-> length]
  <1>1. 2^0 = 1 /\ 2^2 = 4 /\ 2^4 = 16 /\ 2^8 = 256
    OBVIOUS
  <1>2. ASSUME NEW n \in Nat, n < 256 * 2^upper
        PROVE  Bits(n, 0, 8) + 256 * Bits(n, 8, upper) = n
    BY <1>1, <1>2 DEF Bits
  <1> QED BY <1>2 DEF ScSpan

LEMMA ScPlaced ==
    ASSUME NEW s \in DOMAIN resolution, NEW upper \in {2, 4}, NEW array, IsPair(array),
           array[1] < 256 * 2^upper, array[2] < 256 * 2^upper,
           Frame(s)[1] <= array[1], Frame(s)[2] <= array[2]
    PROVE  Placed(ScWindow(s, array, upper), s)
  <1> DEFINE fx == Frame(s)[1]
             fy == Frame(s)[2]
             left == Centred(array[1], fx)
             top == Centred(array[2], fy)
             win == ScWindow(s, array, upper)
  <1>1. /\ fx \in Nat /\ fy \in Nat /\ Frame(s) = <<fx, fy>>
        /\ array[1] \in Nat /\ array[2] \in Nat
    BY FrameIs DEF IsPair
  <1>2. /\ left \in Nat /\ left + fx <= array[1] /\ top \in Nat /\ top + fy <= array[2]
    <2>1. ASSUME NEW full \in Nat, NEW part \in Nat, part <= full
          PROVE  Centred(full, part) \in Nat /\ Centred(full, part) + part <= full
      BY <2>1 DEF Centred
    <2>2. fx <= array[1] /\ fy <= array[2]
      OBVIOUS
    <2> HIDE DEF fx, fy
    <2> QED BY <1>1, <2>1, <2>2
  <1>3. 256 * 2^upper \in {1024, 4096}
    <2>1. CASE upper = 2
      BY <2>1
    <2>2. CASE upper = 4
      BY <2>2
    <2> QED BY <2>1, <2>2
  <1> HIDE DEF fx, fy, left, top
  <1>4. left + fx < 256 * 2^upper /\ top + fy < 256 * 2^upper
    BY <1>1, <1>2, <1>3
  <1>5. /\ ScSpan(left, fx, upper) = [from |-> left, length |-> fx]
        /\ ScSpan(top, fy, upper) = [from |-> top, length |-> fy]
    BY <1>1, <1>2, <1>4, ScSpanIs
  <1>6. win = Read(array, left, top, fx, fy, <<fx, fy>>, FALSE, <<fx, fy>>)
    BY <1>5 DEF ScWindow, left, top, fx, fy
  <1>7. Placed(Read(array, left, top, fx, fy, <<fx, fy>>, FALSE, <<fx, fy>>), s)
    BY <1>1, <1>2 DEF Placed, Read
  <1> QED BY <1>6, <1>7

LEMMA Sc030iotPlaced ==
    ASSUME NEW s \in DOMAIN resolution, AcceptsSize("SC030IOT", s)
    PROVE  Placed(Sc030iotWindow(s), s)
  <1>1. Frame(s)[1] <= 640 /\ Frame(s)[2] <= 480
    BY DEF AcceptsSize
  <1> QED BY <1>1, ScPlaced DEF Sc030iotWindow, IsPair
LEMMA Sc101iotPlaced ==
    ASSUME NEW s \in DOMAIN resolution, AcceptsSize("SC101IOT", s)
    PROVE  Placed(Sc101iotWindow(s), s)
  <1>1. Frame(s)[1] <= 1280 /\ Frame(s)[2] <= 720
    BY DEF AcceptsSize
  <1> QED BY <1>1, ScPlaced DEF Sc101iotWindow, IsPair
-----------------------------------------------------------------------------
\* The OV2640: its registers say what set_window was given, whatever fits in them.
LEMMA Bytes ==
    /\ \A n \in 0 .. 511 : n = (n % 256) + 256 * (n \div 256) /\ n \div 256 \in 0 .. 1
    /\ \A n \in 0 .. 1023 : n = (n % 256) + 256 * (n \div 256) /\ n \div 256 \in 0 .. 3
    /\ \A n \in 0 .. 2047 : n = (n % 256) + 256 * (n \div 256) /\ n \div 256 \in 0 .. 7
  OBVIOUS
LEMMA TenBits ==
    ASSUME NEW n \in 0 .. 1023
    PROVE  /\ (n % 256) + 256 * ((n \div 256) % 2) + 512 * (n \div 512) = n
           /\ n \div 512 \in 0 .. 1 /\ (n \div 256) % 2 \in 0 .. 1
  OBVIOUS
LEMMA PackedIs ==
    ASSUME NEW a \in 0 .. 1, NEW b \in 0 .. 7, NEW c \in 0 .. 1, NEW d \in 0 .. 7
    PROVE  LET v == 128 * a + 16 * b + 8 * c + d
           IN v % 8 = d /\ (v \div 16) % 8 = b /\ (v \div 8) % 2 = c /\ v \div 128 = a
  <1> DEFINE v == 128 * a + 16 * b + 8 * c + d
  <1>1. v % 8 = d /\ v \div 8 = 16 * a + 2 * b + c
    OBVIOUS
  <1>2. v \div 16 = 8 * a + b /\ v \div 128 = a
    OBVIOUS
  <1>3. (16 * a + 2 * b + c) % 2 = c /\ (8 * a + b) % 8 = b
    OBVIOUS
  <1> QED BY <1>1, <1>2, <1>3

ReadBack(x, y, mx, my, w, h) ==
    Window(Registers(x, y, mx, my, w, h))
    = [left |-> x, top |-> y, width |-> 4 * mx, height |-> 4 * my, out |-> <<4 * w, 4 * h>>]

InRegisters(x, y, mx, my, w, h) ==
    /\ x \in 0 .. 2047 /\ y \in 0 .. 2047 /\ mx \in 0 .. 1023 /\ my \in 0 .. 511
    /\ w \in 0 .. 1023 /\ h \in 0 .. 511

LEMMA RegistersRead ==
    ASSUME NEW x, NEW y, NEW mx, NEW my, NEW w, NEW h, InRegisters(x, y, mx, my, w, h)
    PROVE  ReadBack(x, y, mx, my, w, h)
  <1> DEFINE reg == Registers(x, y, mx, my, w, h)
             a == my \div 256
             b == y \div 256
             c == (mx \div 256) % 2
             d == x \div 256
             e == mx \div 512
             f == h \div 256
             g == w \div 256
  <1> USE DEF InRegisters
  <1>1. /\ a \in 0 .. 1 /\ b \in 0 .. 7 /\ c \in 0 .. 1 /\ d \in 0 .. 7 /\ e \in 0 .. 1
        /\ f \in 0 .. 1 /\ g \in 0 .. 3
    <2>1. c \in 0 .. 1
      OBVIOUS
    <2>7. e \in 0 .. 1
      OBVIOUS
    <2>2. a \in 0 .. 1
      OBVIOUS
    <2>3. f \in 0 .. 1
      OBVIOUS
    <2>5. b \in 0 .. 7
      OBVIOUS
    <2>6. d \in 0 .. 7
      OBVIOUS
    <2>4. g \in 0 .. 3
      OBVIOUS
    <2> HIDE DEF a, b, c, d, e, f, g
    <2> QED BY <2>1, <2>2, <2>3, <2>4, <2>5, <2>6, <2>7
  <1>2. /\ (x % 256) + 256 * d = x /\ (y % 256) + 256 * b = y /\ (my % 256) + 256 * a = my
        /\ (w % 256) + 256 * g = w /\ (h % 256) + 256 * f = h
    BY Bytes
  <1>3. (mx % 256) + 256 * c + 512 * e = mx
    BY TenBits
  <1>4. /\ Bits(my, 8, 1) = a /\ Bits(y, 8, 3) = b /\ Bits(mx, 8, 1) = c /\ Bits(x, 8, 3) = d
        /\ Bits(mx, 9, 1) = e /\ Bits(h, 8, 1) = f /\ Bits(w, 8, 2) = g
    <2>1. my \in Nat /\ y \in Nat /\ mx \in Nat /\ x \in Nat /\ h \in Nat /\ w \in Nat
      OBVIOUS
    <2>2. a % 2 = a /\ b % 8 = b /\ d % 8 = d /\ e % 2 = e /\ f % 2 = f /\ g % 4 = g
      <3> HIDE DEF a, b, d, e, f, g
      <3> QED BY <1>1
    <2>3. 2^1 = 2 /\ 2^2 = 4 /\ 2^3 = 8 /\ 2^8 = 256 /\ 2^9 = 512
      OBVIOUS
    <2>4. Bits(my, 8, 1) = a % 2 /\ Bits(y, 8, 3) = b % 8 /\ Bits(mx, 8, 1) = c
      BY <2>1, <2>3 DEF Bits
    <2>5. Bits(x, 8, 3) = d % 8 /\ Bits(mx, 9, 1) = e % 2
      BY <2>1, <2>3 DEF Bits
    <2>6. Bits(h, 8, 1) = f % 2 /\ Bits(w, 8, 2) = g % 4
      BY <2>1, <2>3 DEF Bits
    <2> HIDE DEF a, b, c, d, e, f, g
    <2> QED BY <2>2, <2>4, <2>5, <2>6
  <1>5. /\ reg.HSIZE = mx % 256 /\ reg.VSIZE = my % 256 /\ reg.XOFFL = x % 256
        /\ reg.YOFFL = y % 256 /\ reg.VHYX = 128 * a + 16 * b + 8 * c + d
        /\ reg.TEST = 128 * e /\ reg.ZMOW = w % 256 /\ reg.ZMOH = h % 256
        /\ reg.ZMHH = 4 * f + g
    <2>1. /\ Bits(mx, 0, 8) = mx % 256 /\ Bits(my, 0, 8) = my % 256 /\ Bits(x, 0, 8) = x % 256
          /\ Bits(y, 0, 8) = y % 256 /\ Bits(w, 0, 8) = w % 256 /\ Bits(h, 0, 8) = h % 256
      <3>1. 2^0 = 1 /\ 2^8 = 256
        OBVIOUS
      <3>2. \A n \in Nat : Bits(n, 0, 8) = n % 256
        BY <3>1 DEF Bits
      <3>3. my \in Nat /\ y \in Nat /\ mx \in Nat /\ x \in Nat /\ h \in Nat /\ w \in Nat
        OBVIOUS
      <3> QED BY <3>2, <3>3
    <2> HIDE DEF a, b, c, d, e, f, g
    <2> QED BY <1>4, <2>1 DEF Registers
  <1> HIDE DEF reg, a, b, c, d, e, f, g
  <1> DEFINE v == 128 * a + 16 * b + 8 * c + d
  <1>6. v % 8 = d /\ (v \div 16) % 8 = b /\ (v \div 8) % 2 = c /\ v \div 128 = a
    BY <1>1, PackedIs
  <1>7. (4 * f + g) % 4 = g /\ (4 * f + g) \div 4 = f /\ (128 * e) \div 128 = e
    BY <1>1
  <1> HIDE DEF v
  <1>8. /\ Window(reg).left = x /\ Window(reg).top = y /\ Window(reg).width = 4 * mx
        /\ Window(reg).height = 4 * my /\ Window(reg).out = <<4 * w, 4 * h>>
    <2>1. reg.VHYX = v
      BY <1>5 DEF v
    <2> QED BY <1>2, <1>3, <1>5, <1>6, <1>7, <2>1 DEF Window
  <1>9. Window(reg) = [left |-> Window(reg).left, top |-> Window(reg).top,
                       width |-> Window(reg).width, height |-> Window(reg).height,
                       out |-> Window(reg).out]
    BY DEF Window
  <1> QED BY <1>8, <1>9 DEF reg, ReadBack

LEMMA WindowRatios ==
    /\ ratio_table["4x3"] = <<0, 0, 1600, 1200>> /\ ratio_table["3x2"] = <<8, 72, 1584, 1056>>
    /\ ratio_table["16x9"] = <<0, 150, 1600, 900>>
    /\ ratio_table["5x4"] = <<50, 0, 1500, 1200>>
    /\ ratio_table["1x1"] = <<200, 0, 1200, 1200>>
  BY DEF ratio_table

\* What set_window asks for, and what the frame takes of it.
LEMMA Ov2640Placed == ASSUME NEW s \in 1 .. UXGA PROVE Placed(Ov2640Window(s), s)
  <1> DEFINE Asked(x, y, mx, my) ==
                 SetWindow(s) = Registers(x, y, mx, my, Frame(s)[1] \div 4, Frame(s)[2] \div 4)
             Within(x, y, mx, my, fx, fy) ==
                 /\ x \in 0 .. 2047 /\ y \in 0 .. 2047 /\ mx \in 0 .. 1023 /\ my \in 0 .. 511
                 /\ x + 4 * mx <= WindowMode(s).array[1]
                 /\ y + 4 * my <= WindowMode(s).array[2]
                 /\ fx <= 4 * mx /\ fy <= 4 * my
  <1>1. /\ s \in DOMAIN resolution
        /\ Frame(s) = <<Frame(s)[1], Frame(s)[2]>>
        /\ Frame(s)[1] \in Nat /\ Frame(s)[2] \in Nat
        /\ 4 * (Frame(s)[1] \div 4) = Frame(s)[1] /\ 4 * (Frame(s)[2] \div 4) = Frame(s)[2]
        /\ Frame(s)[1] <= 1600 /\ Frame(s)[2] <= 1200
    BY Frames DEF resolution, UXGA
  <1>2. ASSUME NEW x, NEW y, NEW mx, NEW my, Asked(x, y, mx, my),
               Within(x, y, mx, my, Frame(s)[1], Frame(s)[2])
        PROVE  Placed(Ov2640Window(s), s)
    <2> DEFINE wx == Frame(s)[1] \div 4
               wy == Frame(s)[2] \div 4
               read == Window(SetWindow(s))
               array == WindowMode(s).array
    <2>1. wx \in 0 .. 1023 /\ wy \in 0 .. 511 /\ 4 * wx = Frame(s)[1] /\ 4 * wy = Frame(s)[2]
      BY <1>1
    <2>2. /\ x \in 0 .. 2047 /\ y \in 0 .. 2047 /\ mx \in 0 .. 1023 /\ my \in 0 .. 511
          /\ x + 4 * mx <= array[1] /\ y + 4 * my <= array[2]
          /\ Frame(s)[1] <= 4 * mx /\ Frame(s)[2] <= 4 * my
          /\ SetWindow(s) = Registers(x, y, mx, my, wx, wy)
      BY <1>2
    <2> HIDE DEF wx, wy
    <2>3. read = [left |-> x, top |-> y, width |-> 4 * mx, height |-> 4 * my,
                  out |-> <<4 * wx, 4 * wy>>]
      <3>1. ReadBack(x, y, mx, my, wx, wy)
        BY <2>1, <2>2, RegistersRead DEF InRegisters
      <3> QED BY <2>2, <3>1 DEF ReadBack
    <2> HIDE DEF read, array
    <2>4. /\ read.left = x /\ read.top = y /\ read.width = 4 * mx /\ read.height = 4 * my
          /\ read.out = Frame(s)
      BY <1>1, <2>1, <2>3
    <2>5. Ov2640Window(s)
          = Read(array, x, y, 4 * mx, 4 * my, <<4 * mx, 4 * my>>, TRUE, Frame(s))
      BY <2>4, Zenon DEF Ov2640Window, read, array
    <2> DEFINE win == Read(array, x, y, 4 * mx, 4 * my, <<4 * mx, 4 * my>>, TRUE, Frame(s))
    <2>6. /\ win.out = Frame(s) /\ win.array = array /\ win.left = x /\ win.top = y
          /\ win.width = 4 * mx /\ win.height = 4 * my /\ win.scaled
          /\ win.room[1] = 4 * mx /\ win.room[2] = 4 * my
      BY DEF Read
    <2> HIDE DEF win
    <2>7. ASSUME NEW d \in 1 .. 2 PROVE win.out[d] <= win.room[d]
      <3>1. d = 1 \/ d = 2
        OBVIOUS
      <3> QED BY <2>2, <2>6, <3>1
    <2>8. Placed(win, s)
      BY <2>2, <2>6, <2>7 DEF Placed
    <2> QED BY <2>5, <2>8 DEF win
  <1>3. CASE s \in {1, 5}
    <2>1. WindowMode(s) = [by |-> 4, array |-> <<400, 296>>]
      BY <1>3 DEF WindowMode, CIF, SVGA
    <2>2. ratio_table[resolution[s].ratio] = <<200, 0, 1200, 1200>>
      BY <1>3, Ratios, WindowRatios
    <2>3. Asked(50, 0, 75, 74)
      BY <2>1, <2>2 DEF SetWindow, CappedHeight, Frame
    <2>4. Frame(s)[1] <= 240 /\ Frame(s)[2] <= 240
      BY <1>3, Frames
    <2>5. Within(50, 0, 75, 74, Frame(s)[1], Frame(s)[2])
      BY <1>1, <2>1, <2>4
    <2> QED BY <1>2, <2>3, <2>5
  <1>4. CASE s \in {2, 4, 6, 7}
    <2>1. WindowMode(s) = [by |-> 4, array |-> <<400, 296>>]
      BY <1>4 DEF WindowMode, CIF, SVGA
    <2>2. ratio_table[resolution[s].ratio] = <<0, 0, 1600, 1200>>
      BY <1>4, Ratios, WindowRatios
    <2>3. Asked(0, 0, 100, 74)
      BY <2>1, <2>2 DEF SetWindow, CappedHeight, Frame
    <2>4. Frame(s)[1] <= 400 /\ Frame(s)[2] <= 296
      BY <1>4, Frames
    <2>5. Within(0, 0, 100, 74, Frame(s)[1], Frame(s)[2])
      BY <1>1, <2>1, <2>4
    <2> QED BY <1>2, <2>3, <2>5
  <1>5. CASE s \in {3}
    <2>1. WindowMode(s) = [by |-> 4, array |-> <<400, 296>>]
      BY <1>5 DEF WindowMode, CIF, SVGA
    <2>2. ratio_table[resolution[s].ratio] = <<50, 0, 1500, 1200>>
      BY <1>5, Ratios, WindowRatios
    <2>3. Asked(12, 0, 93, 74)
      BY <2>1, <2>2 DEF SetWindow, CappedHeight, Frame
    <2>4. Frame(s)[1] <= 176 /\ Frame(s)[2] <= 144
      BY <1>5, Frames
    <2>5. Within(12, 0, 93, 74, Frame(s)[1], Frame(s)[2])
      BY <1>1, <2>1, <2>4
    <2> QED BY <1>2, <2>3, <2>5
  <1>6. CASE s \in {8}
    <2>1. WindowMode(s) = [by |-> 2, array |-> <<800, 600>>]
      BY <1>6 DEF WindowMode, CIF, SVGA
    <2>2. ratio_table[resolution[s].ratio] = <<8, 72, 1584, 1056>>
      BY <1>6, Ratios, WindowRatios
    <2>3. Asked(4, 36, 198, 132)
      BY <2>1, <2>2 DEF SetWindow, CappedHeight, Frame
    <2>4. Frame(s)[1] <= 480 /\ Frame(s)[2] <= 320
      BY <1>6, Frames
    <2>5. Within(4, 36, 198, 132, Frame(s)[1], Frame(s)[2])
      BY <1>1, <2>1, <2>4
    <2> QED BY <1>2, <2>3, <2>5
  <1>7. CASE s \in {9, 10}
    <2>1. WindowMode(s) = [by |-> 2, array |-> <<800, 600>>]
      BY <1>7 DEF WindowMode, CIF, SVGA
    <2>2. ratio_table[resolution[s].ratio] = <<0, 0, 1600, 1200>>
      BY <1>7, Ratios, WindowRatios
    <2>3. Asked(0, 0, 200, 150)
      BY <2>1, <2>2 DEF SetWindow, CappedHeight, Frame
    <2>4. Frame(s)[1] <= 800 /\ Frame(s)[2] <= 600
      BY <1>7, Frames
    <2>5. Within(0, 0, 200, 150, Frame(s)[1], Frame(s)[2])
      BY <1>1, <2>1, <2>4
    <2> QED BY <1>2, <2>3, <2>5
  <1>8. CASE s \in {11, 14}
    <2>1. WindowMode(s) = [by |-> 1, array |-> <<1600, 1200>>]
      BY <1>8 DEF WindowMode, CIF, SVGA
    <2>2. ratio_table[resolution[s].ratio] = <<0, 0, 1600, 1200>>
      BY <1>8, Ratios, WindowRatios
    <2>3. Asked(0, 0, 400, 300)
      BY <2>1, <2>2 DEF SetWindow, CappedHeight, Frame
    <2>4. Frame(s)[1] <= 1600 /\ Frame(s)[2] <= 1200
      BY <1>8, Frames
    <2>5. Within(0, 0, 400, 300, Frame(s)[1], Frame(s)[2])
      BY <1>1, <2>1, <2>4
    <2> QED BY <1>2, <2>3, <2>5
  <1>9. CASE s \in {12}
    <2>1. WindowMode(s) = [by |-> 1, array |-> <<1600, 1200>>]
      BY <1>9 DEF WindowMode, CIF, SVGA
    <2>2. ratio_table[resolution[s].ratio] = <<0, 150, 1600, 900>>
      BY <1>9, Ratios, WindowRatios
    <2>3. Asked(0, 150, 400, 225)
      BY <2>1, <2>2 DEF SetWindow, CappedHeight, Frame
    <2>4. Frame(s)[1] <= 1280 /\ Frame(s)[2] <= 720
      BY <1>9, Frames
    <2>5. Within(0, 150, 400, 225, Frame(s)[1], Frame(s)[2])
      BY <1>1, <2>1, <2>4
    <2> QED BY <1>2, <2>3, <2>5
  <1>10. CASE s \in {13}
    <2>1. WindowMode(s) = [by |-> 1, array |-> <<1600, 1200>>]
      BY <1>10 DEF WindowMode, CIF, SVGA
    <2>2. ratio_table[resolution[s].ratio] = <<50, 0, 1500, 1200>>
      BY <1>10, Ratios, WindowRatios
    <2>3. Asked(50, 0, 375, 300)
      BY <2>1, <2>2 DEF SetWindow, CappedHeight, Frame
    <2>4. Frame(s)[1] <= 1280 /\ Frame(s)[2] <= 1024
      BY <1>10, Frames
    <2>5. Within(50, 0, 375, 300, Frame(s)[1], Frame(s)[2])
      BY <1>1, <2>1, <2>4
    <2> QED BY <1>2, <2>3, <2>5
  <1> QED BY <1>3, <1>4, <1>5, <1>6, <1>7, <1>8, <1>9, <1>10 DEF UXGA

-----------------------------------------------------------------------------
\* Every window, of every size that is taken.
LEMMA SensorPlaced ==
    ASSUME NEW sensor \in Windowed, NEW s \in 1 .. camera_sensor[sensor],
           AcceptsSize(sensor, s)
    PROVE  Placed(SensorWindow(sensor, s), s)
  <1>1. CASE sensor \in {"OV2640", "GC2145"}
    <2>1. camera_sensor[sensor] = UXGA
      BY <1>1 DEF camera_sensor
    <2> QED BY <1>1, <2>1, Ov2640Placed, Gc2145Placed DEF SensorWindow
  <1>2. CASE sensor \in {"GC0308", "GC032A", "BF3005"}
    <2>1. camera_sensor[sensor] = VGA
      BY <1>2 DEF camera_sensor
    <2> QED BY <1>2, <2>1, Gc0308Placed, Gc032aPlaced, Bf3005Placed DEF SensorWindow
  <1>3. CASE sensor = "OV3660"
    <2>1. camera_sensor[sensor] = QXGA
      BY <1>3 DEF camera_sensor
    <2> QED BY <1>3, <2>1, Ov3660Placed DEF SensorWindow
  <1>4. CASE sensor = "OV5640"
    <2>1. camera_sensor[sensor] = QSXGA
      BY <1>4 DEF camera_sensor
    <2> QED BY <1>4, <2>1, Ov5640Placed DEF SensorWindow
  <1>5. CASE sensor \in {"SC030IOT", "SC101IOT"}
    <2>1. s \in DOMAIN resolution
      BY <1>5 DEF camera_sensor, resolution, VGA, HD
    <2>2. CASE sensor = "SC030IOT"
      BY <2>1, <2>2, Sc030iotPlaced DEF SensorWindow
    <2>3. CASE sensor = "SC101IOT"
      BY <2>1, <2>3, Sc101iotPlaced DEF SensorWindow
    <2> QED BY <1>5, <2>2, <2>3
  <1> QED BY <1>1, <1>2, <1>3, <1>4, <1>5 DEF Windowed

LEMMA ClampedWithin ==
    ASSUME NEW r \in Requests
    PROVE  Clamped(r) \in 1 .. camera_sensor[r.sensor]
  BY DEF Clamped, Requests, camera_sensor, resolution, VGA, UXGA, QXGA, QSXGA, HD

\* WindowFits, of every sensor whose driver says what it asks for, at every size it takes.
THEOREM WindowTheorem == ConfigSpec => []WindowFits
  <1>1. Configured => WindowFits
    <2> SUFFICES ASSUME Configured, Running, request.sensor \in Windowed
                 PROVE  Placed(SensorWindow(request.sensor, sizes.size), sizes.size)
      BY Zenon DEF WindowFits, Placed
    <2>1. PICK r \in Requests : /\ request = r /\ sizes = CamConfig(r, Clamped(r))
                                /\ AcceptsSize(r.sensor, Clamped(r))
      BY DEF Configured, Running
    <2>2. sizes.size = Clamped(r)
      BY <2>1 DEF CamConfig
    <2> QED BY <2>1, <2>2, ClampedWithin, SensorPlaced
  <1> QED BY <1>1, ConfigSteps, PTL
=============================================================================
