------------------------ MODULE JpegDecoder_proofs ------------------------
EXTENDS JpegDecoder, FiniteSetTheorems, TLAPS
(***************************************************************************)
(* What JpegDecDecode and the interrupt loop keep, for pictures of every   *)
(* size the build decodes, in every order, for every answer of the         *)
(* hardware.                                                               *)
(*                                                                         *)
(* The invariant is PictureInv.  It says, for the calls no flag of an      *)
(* earlier picture reaches, what the fields of JpegDecContainer are at the *)
(* four places a picture can be at: before its headers are read (Opened),  *)
(* while the hardware works on a scan or waits for its output to be taken  *)
(* (Decoding) and between two scans (Between).  Residue, which holds for   *)
(* all calls, is what the next picture relies on: a flag that is set when  *)
(* a call is over is named by LeftBehind, so that a call no flag reaches   *)
(* begins with a clean container.  SliceInv adds how many rows the slices  *)
(* started before have taken.                                              *)
(***************************************************************************)

(***************************************************************************)
(* Numbers.                                                                *)
(***************************************************************************)
LEMMA Monotone ==
    ASSUME NEW a \in Nat, NEW b \in Nat, NEW c \in Nat, a <= b
    PROVE  a * c \in Nat /\ a * c <= b * c
<1>1. (b - a) * c >= 0 /\ (b - a) * c = b * c - a * c
  OBVIOUS
<1> QED
  BY <1>1

LEMMA Rounding16 ==
    ASSUME NEW x \in Nat
    PROVE  \E a \in Nat : RoundUp(x, 16) = 16 * a /\ x <= 16 * a /\ 16 * a <= x + 15
<1>1. (x + 16 - 1) \div 16 \in Nat /\ x <= 16 * ((x + 16 - 1) \div 16)
      /\ 16 * ((x + 16 - 1) \div 16) <= x + 15
  OBVIOUS
<1> QED
  BY <1>1 DEF RoundUp

LEMMA Rounding32 ==
    ASSUME NEW x \in Nat
    PROVE  \E a \in Nat : RoundUp(x, 32) = 32 * a /\ x <= 32 * a /\ 32 * a <= x + 31
<1>1. (x + 32 - 1) \div 32 \in Nat /\ x <= 32 * ((x + 32 - 1) \div 32)
      /\ 32 * ((x + 32 - 1) \div 32) <= x + 31
  OBVIOUS
<1> QED
  BY <1>1 DEF RoundUp

\* More pixels than are decoded at once, and not too high: wide.
LEMMA Wide ==
    ASSUME NEW x \in Nat, NEW y \in Nat, y <= JPEGDEC_MAX_HEIGHT_8190,
           ~(x * y <= JPEGDEC_MAX_PIXEL_AMOUNT)
    PROVE  x > 2002
<1> SUFFICES ASSUME x <= 2002
             PROVE  FALSE
  OBVIOUS
<1> DEFINE z == x * y
<1>1. z \in Nat /\ z <= 2002 * y /\ ~(z <= 16370688)
  BY Monotone, SMT DEF JPEGDEC_MAX_PIXEL_AMOUNT
<1> HIDE DEF z
<1> QED
  BY <1>1, SMT DEF JPEGDEC_MAX_HEIGHT_8190

LEMMA HwYFacts ==
    ASSUME NEW p, p.h \in Nat, 1 <= p.h, p.h <= 8176
    PROVE  \E b \in Nat : HwY(p) = 16 * b /\ 1 <= b /\ b <= 511
<1>1. PICK b \in Nat : RoundUp(p.h, 16) = 16 * b /\ p.h <= 16 * b /\ 16 * b <= p.h + 15
  BY Rounding16
<1>2. 1 <= b /\ b <= 511
  BY <1>1
<1> QED
  BY <1>1, <1>2 DEF HwY

LEMMA HwXFacts ==
    ASSUME NEW p, p.w \in Nat, 1 <= p.w, p.w <= 8176, Known(p)
    PROVE  \E r \in Nat : /\ InRow(p) = r /\ 1 <= r /\ r <= 512
                          /\ HwX(p) = IF p.sampling = "411" THEN 32 * r ELSE 16 * r
<1>1. CASE p.sampling = "411"
  <2>1. PICK a \in Nat : RoundUp(p.w, 32) = 32 * a /\ p.w <= 32 * a /\ 32 * a <= p.w + 31
    BY Rounding32
  <2>2. 1 <= a /\ a <= 512
    BY <2>1
  <2>3. HwX(p) = 32 * a
    BY <1>1, <2>1 DEF HwX
  <2>4. InRow(p) = ((32 * a) \div 32) \div 1
    BY <1>1, <2>3 DEF InRow, McuWidth
  <2>5. InRow(p) = a
    BY <2>4
  <2> QED
    BY <1>1, <2>2, <2>3, <2>5
<1>2. CASE p.sampling # "411"
  <2>1. PICK a \in Nat : RoundUp(p.w, 16) = 16 * a /\ p.w <= 16 * a /\ 16 * a <= p.w + 15
    BY Rounding16
  <2>2. 1 <= a /\ a <= 512
    BY <2>1
  <2>3. HwX(p) = 16 * a
    BY <1>2, <2>1 DEF HwX
  <2>4. CASE p.sampling \in {"420", "422"}
    <3>1. InRow(p) = ((16 * a) \div 16) \div 1
      BY <2>4, <2>3 DEF InRow, McuWidth
    <3>2. InRow(p) = a
      BY <3>1
    <3> QED
      BY <1>2, <2>2, <2>3, <3>2
  <2>5. CASE p.sampling \in {"400", "440", "444"}
    <3>1. InRow(p) = ((16 * a) \div 8) \div 2
      BY <2>5, <2>3 DEF InRow, McuWidth
    <3>2. InRow(p) = a
      BY <3>1
    <3> QED
      BY <1>2, <2>2, <2>3, <3>2
  <2> QED
    BY <2>4, <2>5, <1>2 DEF Known, Samplings
<1> QED
  BY <1>1, <1>2

LEMMA InRange ==
    ASSUME NEW a \in Nat, NEW b \in Nat, NEW x \in a .. b
    PROVE  x \in Nat /\ a <= x /\ x <= b
OBVIOUS

LEMMA PictureNumbers ==
    ASSUME NEW p, IsPicture(p)
    PROVE  /\ p.w \in Nat /\ 1 <= p.w /\ p.w <= 8176
           /\ p.h \in Nat /\ 1 <= p.h /\ p.h <= 8176
           /\ p.size \in Nat
<1>1. /\ p.w \in 1 .. JPEGDEC_MAX_WIDTH_8190
      /\ p.h \in 1 .. JPEGDEC_MAX_HEIGHT_8190
      /\ p.size \in JPEGDEC_RK70_MIN_BUFFER .. JPEGDEC_RK70_MAX_BUFFER
  BY DEF IsPicture
<1>2. /\ 1 \in Nat
      /\ JPEGDEC_MAX_WIDTH_8190 \in Nat /\ JPEGDEC_MAX_HEIGHT_8190 \in Nat
      /\ JPEGDEC_RK70_MIN_BUFFER \in Nat /\ JPEGDEC_RK70_MAX_BUFFER \in Nat
  BY SMT DEF JPEGDEC_MAX_WIDTH_8190, JPEGDEC_MAX_HEIGHT_8190, JPEGDEC_RK70_MIN_BUFFER,
             JPEGDEC_RK70_MAX_BUFFER
<1>3. /\ p.w \in Nat /\ 1 <= p.w /\ p.w <= JPEGDEC_MAX_WIDTH_8190
      /\ p.h \in Nat /\ 1 <= p.h /\ p.h <= JPEGDEC_MAX_HEIGHT_8190
      /\ p.size \in Nat
  BY <1>1, <1>2, InRange, Zenon
<1> QED
  BY <1>3 DEF JPEGDEC_MAX_WIDTH_8190, JPEGDEC_MAX_HEIGHT_8190

\* The rows a slice can hold.
LEMMA Quotient ==
    ASSUME NEW p, NEW r \in Nat, InRow(p) = r, 63 <= r, r <= 512
    PROVE  \E k \in 1 .. JPEGDEC_MAX_SLICE_SIZE_8190 : Full(k, p) /\ \A j \in 1 .. k - 1 : ~Full(j, p)
<1> DEFINE k == 8099 \div r
<1>1. k \in Nat /\ 8099 = r * k + (8099 % r) /\ 8099 % r \in 0 .. r - 1
  OBVIOUS
<1> HIDE DEF k
<1>2. k \in Nat /\ 1 <= k /\ k <= 8100 /\ k * r < 8100 /\ (k + 1) * r >= 8100
  BY <1>1
<1>3. ASSUME NEW j \in Nat, 1 <= j, j <= k - 1
      PROVE  ~Full(j, p)
  <2>1. (j + 1) * r <= k * r /\ (j + 1) * r \in Nat /\ k * r \in Nat
    BY <1>2, <1>3, Monotone
  <2> QED
    BY <1>2, <2>1 DEF Full, JPEGDEC_MAX_SLICE_SIZE_8190
<1>4. k \in 1 .. JPEGDEC_MAX_SLICE_SIZE_8190
  BY <1>2 DEF JPEGDEC_MAX_SLICE_SIZE_8190
<1>5. \A j \in 1 .. k - 1 : ~Full(j, p)
  <2>1. \A j \in 1 .. k - 1 : j \in Nat /\ 1 <= j /\ j <= k - 1
    BY <1>2
  <2> QED
    BY <1>3, <2>1, Zenon
<1>6. Full(k, p)
  BY <1>2 DEF Full, JPEGDEC_MAX_SLICE_SIZE_8190
<1> QED
  BY <1>4, <1>5, <1>6, Zenon

\* A slice is at most 128 rows of macroblocks high, and not too large.
LEMMA SliceSetFacts ==
    ASSUME NEW p, IsPicture(p), Known(p)
    PROVE  /\ SliceSet(p) \in Nat /\ SliceSet(p) <= 128
           /\ SliceSet(p) * InRow(p) <= 8100
<1>1. PICK r \in Nat : /\ InRow(p) = r /\ 1 <= r /\ r <= 512
                       /\ HwX(p) = IF p.sampling = "411" THEN 32 * r ELSE 16 * r
  BY PictureNumbers, HwXFacts
<1>2. CASE HwX(p) * HwY(p) <= JPEGDEC_MAX_PIXEL_AMOUNT
  <2>1. SliceSet(p) = 0
    BY <1>2 DEF SliceSet
  <2> QED
    BY <1>1, <2>1
<1>3. CASE ~(HwX(p) * HwY(p) <= JPEGDEC_MAX_PIXEL_AMOUNT)
  <2>1. HwX(p) = 32 * r \/ HwX(p) = 16 * r
    BY <1>1
  <2>2. PICK b \in Nat : HwY(p) = 16 * b /\ 1 <= b /\ b <= 511
    BY PictureNumbers, HwYFacts
  <2>3. HwX(p) \in Nat /\ HwY(p) \in Nat /\ HwY(p) <= JPEGDEC_MAX_HEIGHT_8190
    BY <2>1, <2>2 DEF JPEGDEC_MAX_HEIGHT_8190
  <2>4. HwX(p) > 2002
    BY <1>3, <2>3, Wide
  <2>5. 63 <= r
    BY <2>1, <2>4
  <2> DEFINE s == SliceSet(p)
  <2>6. s \in 1 .. JPEGDEC_MAX_SLICE_SIZE_8190 /\ Full(s, p) /\ \A j \in 1 .. s - 1 : ~Full(j, p)
    <3>1. \E k \in 1 .. JPEGDEC_MAX_SLICE_SIZE_8190 : Full(k, p) /\ \A j \in 1 .. k - 1 : ~Full(j, p)
      BY <1>1, <2>5, Quotient
    <3> QED
      BY <1>3, <3>1, Zenon DEF SliceSet
  <2> HIDE DEF s
  <2>7. s \in Nat /\ 1 <= s
    BY <2>6 DEF JPEGDEC_MAX_SLICE_SIZE_8190
  <2>8. ASSUME s > 128
        PROVE  FALSE
    <3>1. 128 \in 1 .. s - 1
      BY <2>7, <2>8
    <3>2. ~Full(128, p)
      BY <2>6, <3>1, Zenon
    <3>3. ~((128 + 1) * r >= 8100)
      BY <1>1, <3>2 DEF Full, JPEGDEC_MAX_SLICE_SIZE_8190
    <3> QED
      BY <2>5, <3>3
  <2>9. s * r <= 8100
    <3>1. CASE s = 1
      BY <3>1, <1>1
    <3>2. CASE s > 1
      <4>1. s - 1 \in 1 .. s - 1
        BY <3>2, <2>7
      <4>2. ~Full(s - 1, p)
        BY <4>1, <2>6, Zenon
      <4>3. ~(((s - 1) + 1) * r >= 8100)
        BY <4>2, <1>1 DEF Full, JPEGDEC_MAX_SLICE_SIZE_8190
      <4>4. (s - 1) + 1 = s
        BY <2>7
      <4> QED
        BY <4>3, <4>4, <1>1, <2>7
    <3> QED
      BY <3>1, <3>2, <2>7
  <2> QED
    BY <1>1, <2>7, <2>8, <2>9 DEF s
<1> QED
  BY <1>2, <1>3

-----------------------------------------------------------------------------
(***************************************************************************)
(* The container.                                                          *)
(***************************************************************************)
LEMMA FramesArePictures ==
    ASSUME NEW p \in Pictures \union {NoPicture}
    PROVE  IsPicture(p)
<1>1. CASE p \in Pictures
  BY <1>1, DecoderAssumption
<1>2. CASE p = NoPicture
  <2>1. <<{0}>> \in Seq({{0}, {1}, {2}, All}) /\ Len(<<{0}>>) = 1 /\ <<{0}>>[1] = {0}
    OBVIOUS
  <2>2. /\ 16 \in 1 .. JPEGDEC_MAX_WIDTH_8190 /\ 16 \in 1 .. JPEGDEC_MAX_HEIGHT_8190
        /\ 256 \in JPEGDEC_RK70_MIN_BUFFER .. JPEGDEC_RK70_MAX_BUFFER
    <3>1. 16 \in 1 .. JPEGDEC_MAX_WIDTH_8190
      BY SMT DEF JPEGDEC_MAX_WIDTH_8190
    <3>2. 16 \in 1 .. JPEGDEC_MAX_HEIGHT_8190
      BY SMT DEF JPEGDEC_MAX_HEIGHT_8190
    <3>3. 256 \in JPEGDEC_RK70_MIN_BUFFER .. JPEGDEC_RK70_MAX_BUFFER
      <4>1. \A x, a, b \in Nat : a <= x /\ x <= b => x \in a .. b
        OBVIOUS
      <4>2. /\ 256 \in Nat /\ JPEGDEC_RK70_MIN_BUFFER \in Nat /\ JPEGDEC_RK70_MAX_BUFFER \in Nat
            /\ JPEGDEC_RK70_MIN_BUFFER <= 256 /\ 256 <= JPEGDEC_RK70_MAX_BUFFER
        BY SMT DEF JPEGDEC_RK70_MIN_BUFFER, JPEGDEC_RK70_MAX_BUFFER
      <4> QED
        BY <4>1, <4>2, Zenon
    <3> QED
      BY <3>1, <3>2, <3>3
  <2>3. \A k \in 1 .. Len(<<{0}>>) : <<100>>[k] \in 1 .. 256
    BY <2>1
  <2> QED
    BY <1>2, <2>1, <2>2, <2>3 DEF NoPicture, IsPicture, Samplings
<1> QED
  BY <1>1, <1>2

LEMMA HeightInBits ==
    ASSUME NEW d, d.count \in Nat, d.height \in Nat, NEW p \in Frames
    PROVE  SliceHeight(d, p) \in 0 .. 255
<1>1. PICK b \in Nat : HwY(p) = 16 * b
  BY FramesArePictures, PictureNumbers, HwYFacts DEF Frames
<1>2. SliceSet(p) \in Nat
  BY FramesArePictures, SliceSetFacts DEF Frames
<1>3. HwY(p) \div 16 - d.count * d.height \in Int
  <2>1. HwY(p) \div 16 \in Int
    BY <1>1
  <2> QED
    BY <2>1
<1>4. \A x \in Int : x % 256 \in 0 .. 255
  OBVIOUS
<1> QED
  BY <1>2, <1>3, <1>4 DEF SliceHeight

LEMMA StreamParameters ==
    ASSUME NEW d \in Container, pic \in Pictures \union {NoPicture}
    PROVE  HwStrmParams(d) \in StreamStart
<1>1. d.strm.pos \in Nat /\ pic.size \in Nat
  BY FramesArePictures, PictureNumbers DEF Container, StreamStorage
<1>2. /\ d.strm.pos - (d.strm.pos % 8) \in Nat
      /\ 8 * (d.strm.pos % 8) \in Nat
  BY <1>1
<1>3. \A x \in Nat : x % AddressField \in Nat
  BY SMT DEF AddressField
<1> QED
  BY <1>1, <1>2, <1>3 DEF HwStrmParams, StreamStart

\* A field at a time, then as the operations set them.
LEMMA FieldUpdates ==
    ASSUME NEW d \in Container
    PROVE  /\ \A x \in BOOLEAN : /\ [d EXCEPT !.header = x] \in Container
                                 /\ [d EXCEPT !.scanReady = x] \in Container
                                 /\ [d EXCEPT !.pause = x] \in Container
                                 /\ [d EXCEPT !.right = x] \in Container
                                 /\ [d EXCEPT !.bottom = x] \in Container
                                 /\ [d EXCEPT !.empty = x] \in Container
           /\ \A x \in 0 .. 255 : [d EXCEPT !.height = x] \in Container
           /\ \A x \in Nat : /\ [d EXCEPT !.count = x] \in Container
                             /\ [d EXCEPT !.ri = x] \in Container
                             /\ [d EXCEPT !.out = x] \in Container
           /\ \A x \in SUBSET All : [d EXCEPT !.needed = x] \in Container
           /\ \A x \in StreamStorage : [d EXCEPT !.strm = x] \in Container
           /\ \A x \in StreamStart : [d EXCEPT !.start = x] \in Container
<1>1. \A x \in BOOLEAN : [d EXCEPT !.header = x] \in Container
  BY DEF Container
<1>2. \A x \in BOOLEAN : [d EXCEPT !.scanReady = x] \in Container
  BY DEF Container
<1>3. \A x \in BOOLEAN : [d EXCEPT !.pause = x] \in Container
  BY DEF Container
<1>4. \A x \in BOOLEAN : [d EXCEPT !.right = x] \in Container
  BY DEF Container
<1>5. \A x \in BOOLEAN : [d EXCEPT !.bottom = x] \in Container
  BY DEF Container
<1>6. \A x \in 0 .. 255 : [d EXCEPT !.height = x] \in Container
  BY DEF Container
<1>7. \A x \in Nat : [d EXCEPT !.count = x] \in Container
  BY DEF Container
<1>8. \A x \in Nat : [d EXCEPT !.ri = x] \in Container
  BY DEF Container
<1>9. \A x \in Nat : [d EXCEPT !.out = x] \in Container
  BY DEF Container
<1>10. \A x \in StreamStorage : [d EXCEPT !.strm = x] \in Container
  BY DEF Container
<1>11. \A x \in StreamStart : [d EXCEPT !.start = x] \in Container
  BY DEF Container
<1>12. \A x \in SUBSET All : [d EXCEPT !.needed = x] \in Container
  BY DEF Container
<1>13. \A x \in BOOLEAN : [d EXCEPT !.empty = x] \in Container
  BY DEF Container
<1> QED
  BY <1>1, <1>2, <1>3, <1>4, <1>5, <1>6, <1>7, <1>8, <1>9, <1>10, <1>11,
     <1>12, <1>13, Zenon

LEMMA BooleanUpdates ==
    ASSUME NEW d \in Container, NEW x \in BOOLEAN, NEW y \in BOOLEAN
    PROVE  [d EXCEPT !.right = x, !.bottom = y] \in Container
<1> DEFINE e == [d EXCEPT !.right = x]
<1>1. e \in Container
  BY FieldUpdates
<1>2. [d EXCEPT !.right = x, !.bottom = y] = [e EXCEPT !.bottom = y]
  BY Zenon
<1> HIDE DEF e
<1> QED
  BY <1>1, <1>2, FieldUpdates

LEMMA ScanUpdates ==
    ASSUME NEW d \in Container, NEW x \in BOOLEAN, NEW y \in StreamStorage
    PROVE  [d EXCEPT !.scanReady = x, !.strm = y] \in Container
<1> DEFINE e == [d EXCEPT !.scanReady = x]
<1>1. e \in Container
  BY FieldUpdates
<1>2. [d EXCEPT !.scanReady = x, !.strm = y] = [e EXCEPT !.strm = y]
  BY Zenon
<1> HIDE DEF e
<1> QED
  BY <1>1, <1>2, FieldUpdates

LEMMA StartUpdates ==
    ASSUME NEW d \in Container, NEW x \in StreamStart, NEW y \in StreamStorage, NEW z \in Nat
    PROVE  [d EXCEPT !.start = x, !.strm = y, !.count = z] \in Container
<1> DEFINE e == [d EXCEPT !.start = x]
           f == [e EXCEPT !.strm = y]
<1>1. e \in Container
  BY FieldUpdates
<1>2. f \in Container
  <2> HIDE DEF e
  <2> QED
    BY <1>1, FieldUpdates
<1>3. [d EXCEPT !.start = x, !.strm = y, !.count = z] = [f EXCEPT !.count = z]
  BY Zenon
<1> HIDE DEF f
<1> QED
  BY <1>2, <1>3, FieldUpdates

LEMMA RefilledContainer ==
    ASSUME NEW d \in Container, pic \in Frames
    PROVE  Refilled(d) \in Container
<1> DEFINE e == [d EXCEPT !.empty = FALSE]
           x == [addr |-> 0, bit |-> 0, len |-> pic.size]
<1>1. e \in Container
  BY FieldUpdates
<1>2. x \in StreamStart
  BY FramesArePictures, PictureNumbers DEF StreamStart, Frames
<1>3. Refilled(d) = [e EXCEPT !.start = x]
  BY Zenon DEF Refilled
<1> HIDE DEF e, x
<1> QED
  BY <1>1, <1>2, <1>3, FieldUpdates

LEMMA OutputUpdates ==
    ASSUME NEW d \in Container, NEW x \in Nat, NEW y \in 0 .. 255
    PROVE  [d EXCEPT !.out = x, !.height = y] \in Container
<1> DEFINE e == [d EXCEPT !.out = x]
<1>1. e \in Container
  BY FieldUpdates
<1>2. [d EXCEPT !.out = x, !.height = y] = [e EXCEPT !.height = y]
  BY Zenon
<1> HIDE DEF e
<1> QED
  BY <1>1, <1>2, FieldUpdates

LEMMA StartedContainer ==
    ASSUME NEW d \in Container, pic \in Frames
    PROVE  Started(d) \in Container
<1> USE DEF Frames
<1>1. HwStrmParams(d) \in StreamStart
  BY StreamParameters
<1>2. SliceHeight(d, pic) \in 0 .. 255
  BY HeightInBits DEF Container
<1>3. d.strm.pos \in Nat /\ d.strm.pos - (d.strm.pos % 8) \in Nat /\ d.count + 1 \in Nat
  BY DEF Container, StreamStorage
<1> DEFINE height == IF SliceSet(pic) # 0 /\ ~pp THEN SliceHeight(d, pic) ELSE d.height
           scanReady == d.scanReady /\ d.pause
           start == IF d.pause THEN d.start ELSE HwStrmParams(d)
           pos == IF d.pause THEN d.strm.pos ELSE d.strm.pos - (d.strm.pos % 8)
           strm == [d.strm EXCEPT !.pos = pos]
           count == d.count + 1
<1>4. scanReady \in BOOLEAN
  BY Zenon
<1>5. /\ height \in 0 .. 255 /\ start \in StreamStart /\ count \in Nat
      /\ pos \in Nat
  BY <1>1, <1>2, <1>3 DEF Container
<1>6. strm \in StreamStorage
  <2> HIDE DEF pos
  <2> QED
    BY <1>5 DEF Container, StreamStorage
<1>7. Started(d) = [d EXCEPT !.height = height, !.scanReady = scanReady, !.start = start,
                             !.strm = strm, !.count = count]
  BY DEF Started, Container
<1> HIDE DEF height, scanReady, start, pos, strm, count
<1> DEFINE e == [d EXCEPT !.height = height, !.scanReady = scanReady]
<1>8. e \in Container
  BY <1>4, <1>5 DEF Container
<1>9. Started(d) = [e EXCEPT !.start = start, !.strm = strm, !.count = count]
  BY <1>7, Zenon
<1> HIDE DEF e
<1>10. [e EXCEPT !.start = start, !.strm = strm, !.count = count] \in Container
  BY <1>5, <1>6, <1>8, StartUpdates
<1> QED
  BY <1>9, <1>10, Zenon

Components == {{0}, {1}, {2}, All}

LEMMA ScanFacts ==
    ASSUME NEW p \in Pictures \union {NoPicture}, NEW k \in 1 .. Len(p.scans)
    PROVE  p.scans[k] \in Components /\ p.ends[k] \in Nat /\ p.ends[k] # 0
<1>1. IsPicture(p)
  BY FramesArePictures
<1>2. p.scans[k] \in Components
  BY <1>1 DEF IsPicture, Components
<1>3. p.size \in Nat /\ p.ends[k] \in 1 .. p.size
  BY <1>1, PictureNumbers DEF IsPicture
<1>4. p.ends[k] \in Nat /\ p.ends[k] # 0
  <2>1. \A z \in Nat : \A x \in 1 .. z : x \in Nat /\ x # 0
    OBVIOUS
  <2> QED
    BY <1>3, <2>1, Zenon
<1> QED
  BY <1>2, <1>4

LEMMA SizeFacts ==
    ASSUME NEW p \in Frames, pp \in BOOLEAN
    PROVE  /\ OutputWidth(p) \in Nat /\ OutputHeight(p) \in Nat
           /\ OutputWidth(p) \div 16 \in Nat /\ OutputHeight(p) \div 16 \in Nat
           /\ Width(p) \in Nat /\ Height(p) \in Nat /\ Width(p) * Height(p) \in Nat
<1>1. p.w \in Nat /\ p.h \in Nat
  BY FramesArePictures, PictureNumbers DEF Frames
<1>2. \A x \in Nat : RoundUp(x, 16) \in Nat /\ RoundUp(x, 8) \in Nat /\ RoundUp(x, 2) \in Nat
                     /\ x \div 16 \in Nat
  BY DEF RoundUp
<1>3. OutputWidth(p) \in Nat /\ OutputHeight(p) \in Nat
  <2>1. RoundUp(p.w, 16) \in Nat /\ RoundUp(p.w, 16) + 16 \in Nat
    BY <1>1, <1>2
  <2> QED
    BY <1>1, <1>2, <2>1 DEF OutputWidth, OutputHeight
<1>4. Width(p) \in Nat
  BY <1>2, <1>3 DEF Width
<1>5. Height(p) \in Nat
  BY <1>2, <1>3 DEF Height
<1>6. \A x, y \in Nat : x * y \in Nat
  OBVIOUS
<1> QED
  BY <1>2, <1>3, <1>4, <1>5, <1>6

LEMMA ImageInfoContainer ==
    ASSUME NEW d \in Container, NEW p \in Frames, n \in Nat
    PROVE  ImageInfo(d, p) \in Container
<1>1. p.sampling \in Samplings /\ FirstScan(p) \in Codings
  BY FramesArePictures DEF Frames, Known, FirstScan, IsPicture, Codings
<1>2. (IF p.ri THEN n + 1 ELSE d.ri) \in Nat
  BY DEF Container
<1> QED
  BY <1>1, <1>2 DEF ImageInfo, Container

LEMMA PostProcessorContainer ==
    ASSUME NEW d \in Container, NEW p \in Frames, n \in Nat, pp \in BOOLEAN
    PROVE  PostProcessor(d, p) \in Container
<1>1. p.sampling \in Samplings
  BY DEF Frames, Known
<1>2. \A x, y : Scaling(x, y) \in {"none", "up", "down"}
  BY DEF Scaling
<1>3. [of |-> n + 1, w |-> OutputWidth(p) \div 16,
       h |-> OutputHeight(p) \div 16, format |-> p.sampling,
       across |-> Scaling(OutputWidth(p), Width(p)),
       down |-> Scaling(OutputHeight(p), Height(p)),
       chroma |-> Width(p) * Height(p)]
      \in PpSetUp
  BY <1>1, <1>2, SizeFacts DEF PpSetUp
<1> QED
  BY <1>3 DEF PostProcessor, Container

LEMMA FrameHeaderContainer ==
    ASSUME NEW d \in Container, pic \in Frames, n \in Nat
    PROVE  FrameHeader(d) \in Container
<1>1. pic.sampling \in Samplings /\ pic.op \in Codings
  BY FramesArePictures DEF Frames, Known, IsPicture, Codings
<1>2. (IF pic.ri THEN n ELSE d.ri) \in Nat
  BY DEF Container
<1>3. [of |-> n, is |-> pic] \in [of : Nat, is : Frames]
  OBVIOUS
<1> DEFINE right == d.right \/ (pic.sampling \in {"440", "444", "400"} /\ Over(pic.w))
           bottom == d.bottom \/ (pic.sampling \notin {"420", "440"} /\ Over(pic.h))
           ri == IF pic.ri THEN n ELSE d.ri
           frame == [of |-> n, is |-> pic]
<1>4. right \in BOOLEAN /\ bottom \in BOOLEAN
  BY Zenon
<1>5. FrameHeader(d) = [d EXCEPT !.frame = frame, !.op = pic.op, !.mode = pic.sampling,
                                 !.right = right, !.bottom = bottom, !.ri = ri]
  BY DEF FrameHeader, Container
<1> HIDE DEF right, bottom, ri, frame
<1>6. ri \in Nat /\ frame \in [of : Nat, is : Frames]
  BY <1>2, <1>3 DEF ri, frame
<1> DEFINE e == [d EXCEPT !.frame = frame, !.op = pic.op, !.mode = pic.sampling]
           g == [e EXCEPT !.right = right, !.bottom = bottom]
<1>7. e \in Container
  BY <1>1, <1>6 DEF Container
<1>8. FrameHeader(d) = [g EXCEPT !.ri = ri]
  BY <1>5, Zenon
<1> HIDE DEF e
<1>9. g \in Container
  BY <1>4, <1>7, BooleanUpdates
<1> HIDE DEF g
<1>10. [g EXCEPT !.ri = ri] \in Container
  BY <1>6, <1>9, FieldUpdates, Zenon
<1> QED
  BY <1>8, <1>10, Zenon

LEMMA OneComponentContainer ==
    ASSUME NEW d \in Container, NEW p, NEW c \in All
    PROVE  OneComponent(d, p, c) \in Container
<1> DEFINE right == (c = 0 \/ p.sampling = "440") /\ Over(p.w)
           bottom == (c = 0 \/ p.sampling = "422") /\ Over(p.h)
           op == IF d.op = "baseline" /\ d.mode # "400" THEN "nonInterleaved" ELSE d.op
           needed == d.needed \ {c}
<1>1. right \in BOOLEAN /\ bottom \in BOOLEAN
  BY Zenon
<1>2. op \in Codings /\ needed \in SUBSET All
  BY DEF Container, Codings
<1>3. OneComponent(d, p, c) =
        [d EXCEPT !.op = op, !.mode = "400", !.comp = c, !.needed = needed,
                  !.right = right, !.bottom = bottom]
  BY DEF OneComponent, Container
<1>4. "400" \in Samplings
  BY DEF Samplings
<1> HIDE DEF right, bottom, op, needed
<1> DEFINE e == [d EXCEPT !.op = op, !.mode = "400", !.comp = c]
<1>5. e \in Container
  BY <1>2, <1>4 DEF Container
<1> DEFINE g == [e EXCEPT !.needed = needed]
<1>6. OneComponent(d, p, c) = [g EXCEPT !.right = right, !.bottom = bottom]
  BY <1>3, Zenon
<1> HIDE DEF e
<1>7. g \in Container
  BY <1>2, <1>5, FieldUpdates
<1> HIDE DEF g
<1> QED
  BY <1>1, <1>6, <1>7, BooleanUpdates

LEMMA ScanHeaderContainer ==
    ASSUME NEW d \in Container, NEW s \in Components, n \in Nat
    PROVE  ScanHeader(d, s) \in Container
<1>1. d.frame.is.sampling \in Samplings
  BY DEF Container, Frames, Known
<1>2. (CHOOSE c \in s : TRUE) \in All
  <2>1. 0 \in All /\ 1 \in All /\ 2 \in All
    BY DEF All
  <2>2. (\E c \in s : TRUE) /\ s \subseteq All
    BY <2>1 DEF Components
  <2>3. (CHOOSE c \in s : TRUE) \in s
    BY <2>2
  <2> QED
    BY <2>2, <2>3
<1>3. \A c \in All : OneComponent(d, d.frame.is, c) \in Container
  BY OneComponentContainer
<1>4. [d EXCEPT !.comp = 0] \in Container
  BY DEF Container, All
<1>5. [d EXCEPT !.needed = All, !.mode = d.frame.is.sampling] \in Container
  BY <1>1 DEF Container
<1>6. \A h \in Container : [h EXCEPT !.header = TRUE] \in Container
  BY DEF Container
<1>7. \A h \in Container : ToBuffer(h) \in Container
  BY DEF ToBuffer, Container
<1> QED
  BY <1>2, <1>3, <1>4, <1>5, <1>6, <1>7, Zenon DEF ScanHeader

LEMMA FieldsOfContainer ==
    ASSUME NEW d \in Container
    PROVE  /\ d.header \in BOOLEAN /\ d.scanReady \in BOOLEAN /\ d.pause \in BOOLEAN
           /\ d.count \in Nat /\ d.height \in Nat /\ d.height <= 255
           /\ d.comps \subseteq All /\ d.comp \in All
           /\ d.frame.is \in Frames /\ d.strm \in StreamStorage /\ d.strm.pos \in Nat
           /\ d.strm.next \in Nat \ {0}
<1>1. \A x \in 0 .. 255 : x \in Nat /\ x <= 255
  OBVIOUS
<1> QED
  BY <1>1 DEF Container, StreamStorage

LEMMA ResetContainer ==
    ASSUME NEW d \in Container
    PROVE  Reset(d) \in Container
BY DEF Reset, Container

LEMMA StoredContainer ==
    ASSUME dec \in Container, n \in Nat
    PROVE  Stored \in Container
<1>1. [dec EXCEPT !.header = FALSE] \in Container
  BY DEF Container
<1>2. [of |-> n, next |-> 1, pos |-> 0] \in StreamStorage
  BY DEF StreamStorage
<1>3. [dec EXCEPT !.strm = [of |-> n, next |-> 1, pos |-> 0]] \in Container
  BY <1>2, Zenon DEF Container
<1> QED
  BY <1>1, <1>3 DEF Stored

LEMMA AtScanContainer ==
    ASSUME NEW d \in Container, NEW k \in Nat \ {0}, NEW x \in Nat
    PROVE  /\ [d EXCEPT !.strm.next = k, !.strm.pos = x] \in Container
           /\ [d EXCEPT !.strm.pos = x] \in Container
<1>1. /\ [d.strm EXCEPT !.next = k, !.pos = x] \in StreamStorage
      /\ [d.strm EXCEPT !.pos = x] \in StreamStorage
  BY DEF Container, StreamStorage
<1> DEFINE s == [d.strm EXCEPT !.next = k, !.pos = x]
           t == [d.strm EXCEPT !.pos = x]
<1>2. /\ [d EXCEPT !.strm.next = k, !.strm.pos = x] = [d EXCEPT !.strm = s]
      /\ [d EXCEPT !.strm.pos = x] = [d EXCEPT !.strm = t]
  BY DEF Container
<1> HIDE DEF s, t
<1> QED
  BY <1>1, <1>2 DEF Container, s, t

LEMMA PositionsOfScans ==
    ASSUME dec \in Container, pic \in Pictures \union {NoPicture}
    PROVE  NextPositions(dec) \subseteq Nat \ {0}
<1>1. Len(pic.scans) \in Nat
  BY FramesArePictures DEF IsPicture
<1>2. dec.strm.next \in Nat \ {0}
  BY FieldsOfContainer
<1>3. 1 .. Len(pic.scans) + 1 \subseteq Nat \ {0}
  BY <1>1
<1>4. dec.strm.next + 1 \in Nat \ {0}
  BY <1>2
<1> QED
  BY <1>3, <1>4 DEF NextPositions, NextPosition

LEMMA AfterScanContainer ==
    ASSUME dec \in Container, NEW k \in Nat \ {0}, NEW more \in BOOLEAN
    PROVE  [dec EXCEPT !.comps = @ \union {dec.comp}, !.count = 0,
                       !.pause = FALSE, !.scanReady = @ \/ more, !.strm.next = k]
               \in Container
<1> DEFINE comps == dec.comps \union {dec.comp}
           ready == dec.scanReady \/ more
           strm == [dec.strm EXCEPT !.next = k]
           d == [dec EXCEPT !.comps = @ \union {dec.comp}, !.count = 0,
                            !.pause = FALSE, !.scanReady = @ \/ more, !.strm.next = k]
<1>1. comps \in SUBSET All
  BY FieldsOfContainer
<1>2. ready \in BOOLEAN
  BY Zenon
<1>3. strm \in StreamStorage
  BY FieldsOfContainer DEF StreamStorage
<1>4. d = [dec EXCEPT !.comps = comps, !.count = 0, !.pause = FALSE,
                      !.scanReady = ready, !.strm = strm]
  BY DEF Container
<1> HIDE DEF comps, ready, d, strm
<1> DEFINE e == [dec EXCEPT !.comps = comps, !.count = 0, !.pause = FALSE]
<1>5. e \in Container
  BY <1>1 DEF Container
<1>6. d = [e EXCEPT !.scanReady = ready, !.strm = strm]
  BY <1>4, Zenon
<1> HIDE DEF e
<1>7. d \in Container
  BY <1>2, <1>3, <1>5, <1>6, ScanUpdates
<1> QED
  BY <1>7 DEF d

Returns == {"none", "refused", "header", "error", "system", "bus", "stream",
            "shown", "frame", "next"}

LEMMA KnownFrame ==
    ASSUME TypeOK, at \in {"call", "wait", "next", "empty"}
    PROVE  pic \in Frames
BY DEF TypeOK, Frames

LEMMA ReturnType ==
    ASSUME TypeOK, NEW how \in Returns, NEW d \in Container, Return(how, d),
           done' \in SUBSET All
    PROVE  TypeOK'
BY DEF TypeOK, Return, Returns, input

LEMMA StartType ==
    ASSUME TypeOK, pic \in Frames, NEW d \in Container, Start(d), UNCHANGED done
    PROVE  TypeOK'
<1>1. Started(d) \in Container /\ Refilled(d) \in Container
  BY StartedContainer, RefilledContainer
<1>2. Continued(dec') \in Container
  <2>1. dec' \in Container /\ hw \in Container
    BY <1>1 DEF TypeOK, Start
  <2>2. dec'.out \in Nat /\ dec'.height \in 0 .. 255
    BY <2>1 DEF Container
  <2> DEFINE x == dec'.out
             y == dec'.height
  <2> HIDE DEF x, y
  <2>3. [hw EXCEPT !.out = x, !.height = y] \in Container
    BY <2>1, <2>2, OutputUpdates DEF x, y
  <2> QED
    BY <2>3 DEF Continued, x, y
<1>3. d.empty => [hw EXCEPT !.start = dec'.start, !.frame = d.frame] \in Container
  <2> SUFFICES ASSUME d.empty
               PROVE  [hw EXCEPT !.start = dec'.start, !.frame = d.frame] \in Container
    OBVIOUS
  <2>1. hw \in Container /\ dec' \in Container
    BY <1>1 DEF TypeOK, Start
  <2>2. dec'.start \in StreamStart /\ d.frame \in [of : Nat, is : Frames]
    BY <2>1 DEF Container
  <2> DEFINE x == dec'.start
             y == d.frame
             e == [hw EXCEPT !.start = x]
  <2> HIDE DEF x, y
  <2>3. e \in Container
    BY <2>1, <2>2, FieldUpdates DEF x
  <2>4. [hw EXCEPT !.start = x, !.frame = y] = [e EXCEPT !.frame = y]
    BY Zenon
  <2> HIDE DEF e
  <2>5. y \in [of : Nat, is : Frames]
    BY <2>2 DEF y
  <2>6. [e EXCEPT !.frame = y] \in Container
    BY <2>3, <2>5 DEF Container
  <2> QED
    BY <2>4, <2>6 DEF x, y
<1>4. dec' \in Container /\ hw' \in Container /\ rows' \in Nat
  BY <1>1, <1>2, <1>3 DEF TypeOK, Start
<1> QED
  BY <1>4 DEF TypeOK, Start, input, Frames

LEMMA FoundType ==
    ASSUME TypeOK, at = "call", NEW d \in Container, NEW k \in 1 .. Len(pic.scans),
           Found(d, k), UNCHANGED done
    PROVE  TypeOK'
<1>1. pic \in Frames /\ pic \in Pictures \union {NoPicture}
  BY KnownFrame DEF Frames
<1>2. pic.scans[k] \in Components /\ pic.ends[k] \in Nat
  BY <1>1, ScanFacts
<1> DEFINE h == ScanHeader(d, pic.scans[k])
<1>3. h \in Container
  BY <1>2, ScanHeaderContainer DEF TypeOK
<1>4. k \in Nat \ {0}
  <2>1. Len(pic.scans) \in Nat
    BY <1>1, FramesArePictures DEF IsPicture
  <2> QED
    BY <2>1
<1>5. [h EXCEPT !.strm.next = k, !.strm.pos = pic.ends[k]] \in Container
  <2> HIDE DEF h
  <2> QED
    BY <1>2, <1>3, <1>4, AtScanContainer
<1>6. Return("header", h) \/ Start([h EXCEPT !.strm.next = k, !.strm.pos = pic.ends[k]])
  BY DEF Found
<1> HIDE DEF h
<1>7. CASE Return("header", h)
  BY <1>3, <1>7, ReturnType DEF Returns, TypeOK
<1>8. CASE Start([h EXCEPT !.strm.next = k, !.strm.pos = pic.ends[k]])
  BY <1>1, <1>5, <1>8, StartType
<1> QED
  BY <1>6, <1>7, <1>8

LEMMA InitType ==
    Init => TypeOK
<1> SUFFICES ASSUME Init
             PROVE  TypeOK
  OBVIOUS
<1>1. NoPicture \in Frames
  BY DEF Frames, NoPicture, Known, Samplings
<1>2. Cleared \in Container
  <2>1. 0 \in 0 .. 255 /\ 0 \in All
    BY DEF All
  <2>2. /\ "baseline" \in Codings /\ "400" \in Samplings
        /\ [of |-> 0, next |-> 1, pos |-> 0] \in StreamStorage
        /\ [addr |-> 0, bit |-> 0, len |-> 0] \in StreamStart
        /\ [of |-> 0, w |-> 0, h |-> 0, format |-> "400", across |-> "none",
            down |-> "none", chroma |-> 0] \in PpSetUp
        /\ [of |-> 0, is |-> NoPicture] \in [of : Nat, is : Frames]
    BY <1>1 DEF Codings, Samplings, StreamStorage, StreamStart, PpSetUp
  <2> QED
    BY <2>1, <2>2 DEF Cleared, Container
<1>3. pp \in BOOLEAN /\ 512000 \in Nat
  BY DecoderAssumption DEF Init
<1> QED
  BY <1>2, <1>3 DEF Init, TypeOK

LEMMA NextType ==
    TypeOK /\ [Next]_vars => TypeOK'
<1> SUFFICES ASSUME TypeOK, [Next]_vars
             PROVE  TypeOK'
  OBVIOUS
<1>0. dec \in Container /\ hw \in Container /\ n \in Nat /\ pp \in BOOLEAN
      /\ done \subseteq All /\ rows \in Nat
  BY DEF TypeOK
<1>1. ASSUME NEW p \in Pictures, OneFrame(p)
      PROVE  TypeOK'
  <2>1. p.size \in Nat /\ IsPicture(p)
    BY PictureNumbers, FramesArePictures
  <2>2. mem' \in Nat
    <3>1. RoundUp(p.size, 256) + 4096 \in Nat
      BY <2>1 DEF RoundUp
    <3> QED
      BY <1>1, <3>1 DEF OneFrame, TypeOK
  <2>3. past' \subseteq Marks /\ old' \subseteq All
    <3>1. dec.comps \subseteq All
      BY <1>0, FieldsOfContainer
    <3>2. past' = LeftBehind /\ old' = dec.comps
      BY <1>1 DEF OneFrame
    <3>3. LeftBehind \subseteq Marks
      BY Zenon DEF LeftBehind
    <3> QED
      BY <3>1, <3>2, <3>3
  <2>4. CASE Known(p)
    <3>1. p \in Frames
      BY <2>4 DEF Frames
    <3>2. PostProcessor(ImageInfo(dec, p), p) \in Container
      BY <1>0, <3>1, ImageInfoContainer, PostProcessorContainer
    <3> QED
      BY <1>0, <1>1, <2>2, <2>3, <2>4, <3>2 DEF OneFrame, TypeOK
  <2>5. CASE ~Known(p)
    <3>1. [dec EXCEPT !.op = p.op] \in Container
      BY <1>0, <2>1 DEF IsPicture, Container, Codings
    <3> QED
      BY <1>0, <1>1, <2>2, <2>3, <2>5, <3>1 DEF OneFrame, TypeOK
  <2> QED
    BY <2>4, <2>5
<1>2. CASE Refuse
  BY <1>0, <1>2, StoredContainer, ReturnType DEF Refuse, Returns
<1>3. CASE ReadHeaders
  <2>1. Stored \in Container /\ pic \in Frames /\ at = "call" /\ UNCHANGED done
    BY <1>0, <1>3, StoredContainer, KnownFrame DEF ReadHeaders
  <2>2. CASE Start(Stored)
    BY <2>1, <2>2, StartType
  <2>3. CASE Found(FrameHeader(Stored), 1)
    <3>1. FrameHeader(Stored) \in Container
      BY <1>0, <2>1, FrameHeaderContainer
    <3>2. 1 \in 1 .. Len(pic.scans)
      <4>1. Len(pic.scans) \in Nat /\ Len(pic.scans) > 0
        BY <2>1, FramesArePictures DEF Frames, IsPicture
      <4> QED
        BY <4>1
    <3> QED
      BY <2>1, <2>3, <3>1, <3>2, FoundType
  <2>4. CASE \E k \in 1 .. Len(pic.scans) : Found(Stored, k)
    BY <2>1, <2>4, FoundType
  <2>5. CASE Return("error", Stored)
    BY <1>0, <2>1, <2>5, ReturnType DEF Returns
  <2> QED
    BY <1>3, <2>2, <2>3, <2>4, <2>5 DEF ReadHeaders
<1>4. CASE NextScan
  <2> DEFINE d == Reset(dec)
             k == d.strm.next
             h == ScanHeader(d, pic.scans[k])
             e == [d EXCEPT !.strm.pos = pic.ends[k]]
  <2>1. /\ d \in Container /\ pic \in Frames /\ pic \in Pictures \union {NoPicture}
        /\ k \in Nat \ {0} /\ UNCHANGED done
    BY <1>0, <1>4, ResetContainer, KnownFrame, FieldsOfContainer DEF NextScan, Frames
  <2>2. \/ Return("error", d)
        \/ k <= Len(pic.scans) /\ Return("next", h)
        \/ k <= Len(pic.scans) /\ Start(ScanHeader(e, pic.scans[k]))
    <3>1. Len(pic.scans) \in Nat
      BY <2>1, FramesArePictures DEF IsPicture
    <3>2. ~(k > Len(pic.scans)) => k <= Len(pic.scans)
      <4> HIDE DEF k
      <4> QED
        BY <2>1, <3>1
    <3> QED
      BY <1>4, <3>2, Zenon DEF NextScan
  <2> HIDE DEF d
  <2>3. CASE Return("error", d)
    BY <1>0, <2>1, <2>3, ReturnType DEF Returns
  <2>4. CASE k <= Len(pic.scans) /\ (Return("next", h) \/ Start(ScanHeader(e, pic.scans[k])))
    <3>1. k \in 1 .. Len(pic.scans)
      <4>1. Len(pic.scans) \in Nat
        BY <2>1, FramesArePictures DEF IsPicture
      <4> HIDE DEF k
      <4> QED
        BY <2>1, <2>4, <4>1
    <3>2. pic.scans[k] \in Components /\ pic.ends[k] \in Nat
      BY <2>1, <3>1, ScanFacts, Zenon
    <3>3. h \in Container
      BY <1>0, <2>1, <3>2, ScanHeaderContainer, Zenon
    <3>4. e \in Container
      BY <2>1, <3>2, AtScanContainer, Zenon
    <3> HIDE DEF e, k
    <3>5. ScanHeader(e, pic.scans[k]) \in Container
      BY <1>0, <3>2, <3>4, ScanHeaderContainer
    <3> HIDE DEF h
    <3>6. CASE Return("next", h)
      BY <1>0, <2>1, <3>3, <3>6, ReturnType DEF Returns
    <3>7. CASE Start(ScanHeader(e, pic.scans[k]))
      BY <2>1, <3>5, <3>7, StartType
    <3> QED
      BY <2>4, <3>6, <3>7
  <2> QED
    BY <2>2, <2>3, <2>4
<1>5. CASE EmptyScan \/ ScanFaults
  BY <1>5 DEF EmptyScan, ScanFaults, TypeOK, input
<1>6. CASE WaitFails \/ BusError \/ StreamError
  <2>1. Reset(dec) \in Container /\ dec \in Container /\ UNCHANGED done
    BY <1>0, <1>6, ResetContainer DEF WaitFails, BusError, StreamError
  <2>2. \E how \in Returns : \E d \in Container : Return(how, d)
    BY <1>6, <2>1, Zenon DEF WaitFails, BusError, StreamError, Returns
  <2> QED
    BY <1>0, <2>1, <2>2, ReturnType
<1>7. CASE SliceReady
  <2>1. [dec EXCEPT !.pause = Pause] \in Container
    <3>1. Pause \in BOOLEAN
      BY Zenon DEF Pause
    <3> QED
      BY <1>0, <3>1 DEF Container
  <2>2. rows + hw.height \in Nat
    BY <1>0, FieldsOfContainer
  <2> QED
    BY <1>7, <2>1, <2>2 DEF SliceReady, TypeOK, input
<1>8. CASE FrameReady
  <2>1. done' \in SUBSET All
    BY <1>0, <1>8 DEF FrameReady
  <2>2. Return("frame", Reset(dec))
    BY <1>8 DEF FrameReady
  <2> QED
    BY <1>0, <2>1, <2>2, ResetContainer, ReturnType DEF Returns
<1>9. CASE ScanReady
  <2>1. PICK k \in NextPositions(dec) : AfterScan(k)
    BY <1>9 DEF ScanReady
  <2> DEFINE more == k <= Len(pic.scans)
             d == [dec EXCEPT !.comps = @ \union {dec.comp}, !.count = 0,
                              !.pause = FALSE, !.scanReady = @ \/ more,
                              !.strm.next = k]
  <2>2. d \in Container
    <3>1. pic \in Pictures \union {NoPicture}
      BY DEF TypeOK
    <3>2. k \in Nat \ {0} /\ more \in BOOLEAN
      BY <1>0, <2>1, <3>1, PositionsOfScans
    <3> HIDE DEF more
    <3> QED
      BY <1>0, <3>2, AfterScanContainer
  <2>3. done' \in SUBSET All
    BY <1>0, <1>9, FieldsOfContainer DEF ScanReady
  <2>4. \/ at' = "next" /\ dec' = d /\ UNCHANGED <<pp, input, ret, hw, rows>>
        \/ Return("frame", Reset(d))
        \/ at' = "empty" /\ dec' = Reset(d) /\ UNCHANGED <<pp, input, ret, hw, rows>>
    BY <2>1, Zenon DEF AfterScan
  <2> HIDE DEF d
  <2>5. Reset(d) \in Container
    BY <2>2, ResetContainer
  <2>6. at = "wait"
    BY <1>9 DEF ScanReady
  <2> QED
    BY <2>2, <2>3, <2>4, <2>5, <2>6, ReturnType DEF Returns, TypeOK, input
<1>10. CASE BufferEmpty
  <2>1. [dec EXCEPT !.empty = TRUE] \in Container
    BY <1>0, FieldUpdates
  <2>2. "refill" \in Marks
    BY DEF Marks
  <2>3. at' = "call" /\ pic' = pic /\ Known(pic)
    BY <1>10 DEF BufferEmpty, TypeOK
  <2> QED
    BY <1>0, <1>10, <2>1, <2>2, <2>3 DEF BufferEmpty, TypeOK
<1>11. CASE UNCHANGED vars
  BY <1>11 DEF vars, TypeOK, input
<1> QED
  BY <1>1, <1>2, <1>3, <1>4, <1>5, <1>6, <1>7, <1>8, <1>9, <1>10, <1>11
     DEF Next, Running, Answer

\* Each field of JpegDecContainer keeps its range: the height of a slice fits
\* the eight bits of its register, the start address its word.
THEOREM TypeCorrect == Spec => []TypeOK
<1> QED
  BY InitType, NextType, PTL DEF Spec

-----------------------------------------------------------------------------
(***************************************************************************)
(* What the flags of the instance say.                                     *)
(***************************************************************************)

\* Nothing of an earlier picture, but what is in left, can be seen in d.
Clean(d, left) ==
    /\ ~d.header /\ ~d.scanReady /\ ~d.pause /\ d.height = 0 /\ ~d.empty
    /\ d.right => "right" \in left
    /\ d.bottom => "bottom" \in left

OwnInterval(d, p, m, left) == d.ri = (IF p.ri THEN m ELSE 0) \/ "ri" \in left

RightOf(d, p) ==
    IF d.op = "nonInterleaved"
    THEN (d.comp = 0 \/ p.sampling = "440") /\ Over(p.w)
    ELSE p.sampling \in {"440", "444", "400"} /\ Over(p.w)
BottomOf(d, p) ==
    IF d.op = "nonInterleaved"
    THEN (d.comp = 0 \/ p.sampling = "422") /\ Over(p.h)
    ELSE p.sampling \notin {"420", "440"} /\ Over(p.h)

\* d has the headers of a scan of p, the m-th picture.
HeadersOf(d, p, m, left) ==
    /\ d.frame = [of |-> m, is |-> p] /\ d.strm.of = m /\ d.out = m
    /\ d.strm.next \in 1 .. Len(p.scans)
    /\ d.op = FirstScan(p)
    /\ d.mode = IF d.op = "nonInterleaved" THEN "400" ELSE p.sampling
    /\ d.op = "nonInterleaved" => p.scans[d.strm.next] = {d.comp}
    /\ d.op = "baseline" => d.strm.next = 1
    /\ OwnInterval(d, p, m, left)
    /\ d.right = RightOf(d, p) \/ "right" \in left
    /\ d.bottom = BottomOf(d, p) \/ "bottom" \in left

\* The hardware is started where that scan begins.
StartsAt(d, p) ==
    p.ends[d.strm.next] < AddressField =>
        /\ 8 * d.start.addr + d.start.bit = 8 * p.ends[d.strm.next]
        /\ p.size <= d.start.addr + d.start.len
        /\ d.start.addr + d.start.len <= p.size + 100

LEMMA StartedFields ==
    ASSUME NEW d \in Container, pic \in Frames
    PROVE  LET e == Started(d)
           IN /\ e.header = d.header /\ e.pause = d.pause /\ e.op = d.op /\ e.mode = d.mode
              /\ e.comp = d.comp /\ e.comps = d.comps /\ e.needed = d.needed /\ e.ri = d.ri
              /\ e.right = d.right /\ e.bottom = d.bottom /\ e.post = d.post
              /\ e.frame = d.frame /\ e.out = d.out
              /\ e.strm.of = d.strm.of /\ e.strm.next = d.strm.next
              /\ e.scanReady = (d.scanReady /\ d.pause)
              /\ e.count = d.count + 1 /\ e.empty = d.empty
              /\ e.strm.pos = (IF d.pause THEN d.strm.pos ELSE d.strm.pos - (d.strm.pos % 8))
              /\ e.height = (IF SliceSet(pic) # 0 /\ ~pp THEN SliceHeight(d, pic) ELSE d.height)
              /\ e.start = (IF d.pause THEN d.start ELSE HwStrmParams(d))
BY DEF Started, Container, StreamStorage

LEMMA RefilledFields ==
    ASSUME NEW d \in Container
    PROVE  LET e == Refilled(d)
           IN /\ e.header = d.header /\ e.scanReady = d.scanReady /\ e.pause = d.pause
              /\ e.op = d.op /\ e.ri = d.ri /\ e.right = d.right /\ e.bottom = d.bottom
              /\ e.frame = d.frame /\ e.height = d.height /\ ~e.empty
BY DEF Refilled, Container

LEMMA StartedHeaders ==
    ASSUME NEW d \in Container, pic \in Frames, NEW p, NEW m, NEW left,
           HeadersOf(d, p, m, left)
    PROVE  HeadersOf(Started(d), p, m, left)
BY StartedFields DEF HeadersOf, OwnInterval, RightOf, BottomOf

\* The hardware starts at the scan whose end of header is the position.
LEMMA StartsThere ==
    ASSUME NEW d \in Container, pic \in Frames, d.frame.is = pic, ~d.pause,
           d.strm.next \in 1 .. Len(pic.scans), d.strm.pos = pic.ends[d.strm.next]
    PROVE  StartsAt(Started(d), pic)
<1> DEFINE x == d.strm.pos
           first == x - (x % 8)
<1>1. x \in Nat /\ pic.size \in Nat
  BY FramesArePictures, PictureNumbers DEF Container, StreamStorage, Frames
<1>2. first \in Nat /\ first <= x /\ 8 * first + 8 * (x % 8) = 8 * x
  BY <1>1
<1>3. ASSUME x < AddressField
      PROVE  first % AddressField = first
  <2>1. \A a, b \in Nat : a < b => a % b = a
    OBVIOUS
  <2>2. AddressField \in Nat
    BY SMT DEF AddressField
  <2>3. first < AddressField
    BY <1>1, <1>2, <1>3, <2>2
  <2> QED
    BY <1>2, <2>1, <2>2, <2>3
<1>4. Started(d).start = HwStrmParams(d) /\ Started(d).strm.next = d.strm.next
  BY StartedFields
<1>5. PICK more \in {0, 100} :
          HwStrmParams(d) = [addr |-> first % AddressField, bit |-> 8 * (x % 8),
                             len |-> pic.size - first + more]
  BY Zenon DEF HwStrmParams
<1>6. ASSUME x < AddressField
      PROVE  LET s == Started(d).start
             IN /\ 8 * s.addr + s.bit = 8 * x
                /\ pic.size <= s.addr + s.len /\ s.addr + s.len <= pic.size + 100
  <2>1. /\ Started(d).start.addr = first /\ Started(d).start.bit = 8 * (x % 8)
        /\ Started(d).start.len = pic.size - first + more
    <3> HIDE DEF first
    <3> QED
      BY <1>3, <1>4, <1>5, <1>6
  <2>2. first \in Nat /\ pic.size \in Nat /\ more \in Nat /\ 0 <= more /\ more <= 100
        /\ 8 * first + 8 * (x % 8) = 8 * x
    BY <1>1, <1>2
  <2> HIDE DEF x, first
  <2>3. pic.size <= first + (pic.size - first + more)
        /\ first + (pic.size - first + more) <= pic.size + 100
    BY <2>2
  <2> QED
    BY <2>1, <2>2, <2>3
<1> QED
  BY <1>4, <1>6 DEF StartsAt
LEMMA Singles ==
    /\ \A c : Single({c})
    /\ ~Single(All)
<1>1. \A c : Single({c})
  BY FS_Singleton DEF Single
<1>2. ~Single(All)
  <2> SUFFICES ASSUME Single(All)
               PROVE  FALSE
    OBVIOUS
  <2>1. IsFiniteSet(All)
    <3>1. IsFiniteSet({0})
      BY FS_Singleton
    <3>2. IsFiniteSet(({0} \union {1}) \union {2})
      BY <3>1, FS_AddElement, Zenon
    <3>3. All = ({0} \union {1}) \union {2}
      BY DEF All
    <3> QED
      BY <3>2, <3>3
  <2>2. \E x : All = {x}
    BY <2>1, FS_Singleton DEF Single
  <2> QED
    BY <2>2 DEF All
<1> QED
  BY <1>1, <1>2

\* What reading headers leaves alone.
Kept(e, d) ==
    /\ e.scanReady = d.scanReady /\ e.pause = d.pause /\ e.empty = d.empty
    /\ e.count = d.count /\ e.height = d.height /\ e.comps = d.comps
    /\ e.strm = d.strm /\ e.start = d.start /\ e.post = d.post

LEMMA FrameHeaderFields ==
    ASSUME NEW d \in Container, pic \in Frames, n \in Nat
    PROVE  LET e == FrameHeader(d)
           IN /\ Kept(e, d) /\ e.header = d.header
              /\ e.frame = [of |-> n, is |-> pic] /\ e.frame.is = pic
              /\ e.op = pic.op /\ e.mode = pic.sampling
              /\ e.ri = (IF pic.ri THEN n ELSE d.ri)
              /\ e.right = (d.right \/ (pic.sampling \in {"440", "444", "400"} /\ Over(pic.w)))
              /\ e.bottom = (d.bottom \/ (pic.sampling \notin {"420", "440"} /\ Over(pic.h)))
BY DEF FrameHeader, Container, Kept

LEMMA OneComponentFields ==
    ASSUME NEW d \in Container, NEW p, NEW c
    PROVE  LET e == OneComponent(d, p, c)
           IN /\ Kept(e, d) /\ e.frame = d.frame /\ e.ri = d.ri
              /\ e.op = (IF d.op = "baseline" /\ d.mode # "400" THEN "nonInterleaved" ELSE d.op)
              /\ e.mode = "400" /\ e.comp = c
              /\ e.right = ((c = 0 \/ p.sampling = "440") /\ Over(p.w))
              /\ e.bottom = ((c = 0 \/ p.sampling = "422") /\ Over(p.h))
BY DEF OneComponent, Container, Kept

LEMMA WholeFields ==
    ASSUME NEW d \in Container, NEW mode
    PROVE  LET e == [d EXCEPT !.needed = All, !.mode = mode]
           IN /\ Kept(e, d) /\ e.frame = d.frame /\ e.ri = d.ri /\ e.op = d.op
              /\ e.mode = mode /\ e.right = d.right /\ e.bottom = d.bottom
BY DEF Container, Kept

LEMMA ComponentFields ==
    ASSUME NEW d \in Container
    PROVE  LET e == [d EXCEPT !.comp = 0]
           IN /\ Kept(e, d) /\ e.frame = d.frame /\ e.ri = d.ri /\ e.op = d.op
              /\ e.mode = d.mode /\ e.right = d.right /\ e.bottom = d.bottom
BY DEF Container, Kept

LEMMA ReadyFields ==
    ASSUME NEW d \in Container
    PROVE  LET e == ToBuffer([d EXCEPT !.header = TRUE])
           IN /\ Kept(e, d) /\ e.header /\ e.out = n
              /\ e.frame = d.frame /\ e.ri = d.ri /\ e.op = d.op /\ e.mode = d.mode
              /\ e.comp = d.comp /\ e.right = d.right /\ e.bottom = d.bottom
BY DEF ToBuffer, Container, Kept

LEMMA ReadFields ==
    ASSUME NEW d \in Container
    PROVE  LET e == [d EXCEPT !.header = TRUE]
           IN /\ Kept(e, d) /\ e.frame = d.frame /\ e.ri = d.ri
              /\ e.right = d.right /\ e.bottom = d.bottom
BY DEF Container, Kept

\* Any scan header, refused or not.
LEMMA ScanHeaderLeaves ==
    ASSUME NEW d \in Container, NEW s \in Components
    PROVE  LET e == ScanHeader(d, s)
           IN /\ Kept(e, d) /\ e.frame = d.frame /\ e.ri = d.ri
              /\ e.right => d.right \/ Over(d.frame.is.w)
              /\ e.bottom => d.bottom \/ Over(d.frame.is.h)
<1> DEFINE p == d.frame.is
           c == CHOOSE x \in s : TRUE
           a == OneComponent(d, p, c)
           b == [d EXCEPT !.comp = 0]
           w == [d EXCEPT !.needed = All, !.mode = p.sampling]
           g == IF Single(s) /\ Colour(p) THEN a ELSE IF Single(s) THEN b ELSE w
           e == ScanHeader(d, s)
<1>1. e \in {[g EXCEPT !.header = TRUE], ToBuffer([g EXCEPT !.header = TRUE])}
  BY Zenon DEF ScanHeader
<1>2. c \in All
  <2>1. 0 \in All /\ 1 \in All /\ 2 \in All
    BY DEF All
  <2>2. (\E x \in s : TRUE) /\ s \subseteq All
    BY <2>1 DEF Components
  <2> QED
    BY <2>2
<1>3. a \in Container /\ b \in Container /\ w \in Container
  <2>1. a \in Container
    BY <1>2, OneComponentContainer
  <2>2. b \in Container
    BY DEF Container, All
  <2>3. w \in Container
    BY DEF Container, Frames, Known
  <2> QED
    BY <2>1, <2>2, <2>3
<1> HIDE DEF c
<1>4. /\ Kept(a, d) /\ a.frame = d.frame /\ a.ri = d.ri
      /\ a.right = ((c = 0 \/ p.sampling = "440") /\ Over(p.w))
      /\ a.bottom = ((c = 0 \/ p.sampling = "422") /\ Over(p.h))
  BY OneComponentFields
<1>5. /\ Kept(b, d) /\ b.frame = d.frame /\ b.ri = d.ri
      /\ b.right = d.right /\ b.bottom = d.bottom
  BY ComponentFields
<1>6. /\ Kept(w, d) /\ w.frame = d.frame /\ w.ri = d.ri
      /\ w.right = d.right /\ w.bottom = d.bottom
  BY WholeFields
<1>7. g \in {a, b, w}
  BY Zenon
<1> HIDE DEF a, b, w, g, e
<1>8. /\ g \in Container /\ Kept(g, d) /\ g.frame = d.frame /\ g.ri = d.ri
      /\ g.right => d.right \/ Over(p.w)
      /\ g.bottom => d.bottom \/ Over(p.h)
  BY <1>3, <1>4, <1>5, <1>6, <1>7
<1> DEFINE r == [g EXCEPT !.header = TRUE]
<1>9. /\ Kept(r, g) /\ r.frame = g.frame /\ r.ri = g.ri
      /\ r.right = g.right /\ r.bottom = g.bottom
  BY <1>8, ReadFields
<1>10. /\ Kept(ToBuffer(r), g) /\ ToBuffer(r).frame = g.frame /\ ToBuffer(r).ri = g.ri
       /\ ToBuffer(r).right = g.right /\ ToBuffer(r).bottom = g.bottom
  BY <1>8, ReadyFields
<1> HIDE DEF r
<1>11. e = r \/ e = ToBuffer(r)
  BY <1>1 DEF r
<1>12. /\ Kept(e, g) /\ e.frame = g.frame /\ e.ri = g.ri
       /\ e.right = g.right /\ e.bottom = g.bottom
  BY <1>9, <1>10, <1>11
<1>13. Kept(e, d)
  BY <1>8, <1>12 DEF Kept
<1> QED
  BY <1>8, <1>12, <1>13 DEF e

\* A scan header that is not refused.
LEMMA ScanHeaderFields ==
    ASSUME NEW d \in Container, NEW s \in Components, ~Refused(d, d.frame.is, s)
    PROVE  LET e == ScanHeader(d, s)
               p == d.frame.is
           IN /\ Kept(e, d) /\ e.header /\ e.out = n /\ e.frame = d.frame /\ e.ri = d.ri
              /\ Single(s) /\ Colour(p) =>
                    /\ s = {e.comp} /\ e.mode = "400"
                    /\ e.op = (IF d.op = "baseline" /\ d.mode # "400" THEN "nonInterleaved"
                               ELSE d.op)
                    /\ e.right = ((e.comp = 0 \/ p.sampling = "440") /\ Over(p.w))
                    /\ e.bottom = ((e.comp = 0 \/ p.sampling = "422") /\ Over(p.h))
              /\ ~(Single(s) /\ Colour(p)) =>
                    /\ e.op = d.op /\ e.mode = (IF Single(s) THEN d.mode ELSE p.sampling)
                    /\ e.right = d.right /\ e.bottom = d.bottom
<1> DEFINE p == d.frame.is
           c == CHOOSE x \in s : TRUE
           a == OneComponent(d, p, c)
           b == [d EXCEPT !.comp = 0]
           w == [d EXCEPT !.needed = All, !.mode = p.sampling]
           h == IF Single(s) /\ Colour(p) THEN a ELSE IF Single(s) THEN b ELSE w
           e == ToBuffer([h EXCEPT !.header = TRUE])
<1>1. ScanHeader(d, s) = e
  BY Zenon DEF ScanHeader
<1>2. h \in Container => /\ Kept(e, h) /\ e.header /\ e.out = n
                         /\ e.frame = h.frame /\ e.ri = h.ri /\ e.op = h.op /\ e.mode = h.mode
                         /\ e.comp = h.comp /\ e.right = h.right /\ e.bottom = h.bottom
  <2> HIDE DEF h
  <2> QED
    BY ReadyFields
<1> HIDE DEF e
<1>3. CASE Single(s) /\ Colour(p)
  <2>1. s = {c}
    <3>1. s # All
      BY <1>3, Singles
    <3>2. \E x : s = {x}
      BY <3>1, Zenon DEF Components
    <3> QED
      BY <3>2
  <2>2. c \in All
    BY <2>1 DEF Components, All
  <2>3. h = a
    BY <1>3
  <2> HIDE DEF c, h
  <2>4. a \in Container
    BY <2>2, OneComponentContainer
  <2>5. /\ Kept(a, d) /\ a.frame = d.frame /\ a.ri = d.ri
        /\ a.op = (IF d.op = "baseline" /\ d.mode # "400" THEN "nonInterleaved" ELSE d.op)
        /\ a.mode = "400" /\ a.comp = c
        /\ a.right = ((c = 0 \/ p.sampling = "440") /\ Over(p.w))
        /\ a.bottom = ((c = 0 \/ p.sampling = "422") /\ Over(p.h))
    BY OneComponentFields
  <2> HIDE DEF a
  <2> QED
    BY <1>1, <1>2, <1>3, <2>1, <2>3, <2>4, <2>5 DEF Kept
<1>4. CASE ~(Single(s) /\ Colour(p)) /\ Single(s)
  <2>1. b \in Container
    BY DEF Container, All
  <2>2. h = b
    BY <1>4
  <2>3. /\ Kept(b, d) /\ b.frame = d.frame /\ b.ri = d.ri /\ b.op = d.op
        /\ b.mode = d.mode /\ b.right = d.right /\ b.bottom = d.bottom
    BY ComponentFields
  <2> HIDE DEF b, h
  <2> QED
    BY <1>1, <1>2, <1>4, <2>1, <2>2, <2>3 DEF Kept
<1>5. CASE ~Single(s)
  <2>1. w \in Container
    BY DEF Container, Frames, Known
  <2>2. h = w
    BY <1>5
  <2>3. /\ Kept(w, d) /\ w.frame = d.frame /\ w.ri = d.ri /\ w.op = d.op
        /\ w.mode = p.sampling /\ w.right = d.right /\ w.bottom = d.bottom
    BY WholeFields
  <2> HIDE DEF w, h
  <2> QED
    BY <1>1, <1>2, <1>5, <2>1, <2>2, <2>3 DEF Kept
<1> QED
  BY <1>3, <1>4, <1>5
\* What the start of the hardware leaves alone, too.
Carried(e, d) ==
    /\ e.scanReady = d.scanReady /\ e.pause = d.pause /\ e.height = d.height
    /\ e.comps = d.comps /\ e.post = d.post /\ e.count = d.count /\ e.empty = d.empty

AtScan(d, k, x) == [d EXCEPT !.strm.next = k, !.strm.pos = x]

LEMMA AtScanFields ==
    ASSUME NEW d \in Container, NEW k, NEW x
    PROVE  LET e == AtScan(d, k, x)
           IN /\ Carried(e, d) /\ e.header = d.header /\ e.frame = d.frame /\ e.out = d.out
              /\ e.op = d.op /\ e.mode = d.mode /\ e.comp = d.comp /\ e.ri = d.ri
              /\ e.right = d.right /\ e.bottom = d.bottom
              /\ e.strm.of = d.strm.of /\ e.strm.next = k /\ e.strm.pos = x
BY DEF Container, StreamStorage, Carried, AtScan

AtPosition(d, x) == [d EXCEPT !.strm.pos = x]

LEMMA PositionFields ==
    ASSUME NEW d \in Container, NEW x
    PROVE  LET e == AtPosition(d, x)
           IN /\ Carried(e, d) /\ e.header = d.header /\ e.frame = d.frame /\ e.out = d.out
              /\ e.op = d.op /\ e.mode = d.mode /\ e.comp = d.comp /\ e.ri = d.ri
              /\ e.right = d.right /\ e.bottom = d.bottom
              /\ e.strm.of = d.strm.of /\ e.strm.next = d.strm.next /\ e.strm.pos = x
BY DEF Container, StreamStorage, Carried, AtPosition

LEMMA FirstScanOf ==
    ASSUME pic \in Frames, pic.op = "baseline"
    PROVE  /\ pic.scans[1] \in Components /\ 1 \in 1 .. Len(pic.scans) /\ pic.ends[1] \in Nat
           /\ FirstScan(pic) = IF Single(pic.scans[1]) /\ Colour(pic) THEN "nonInterleaved"
                               ELSE "baseline"
<1>1. Len(pic.scans) \in Nat /\ Len(pic.scans) > 0
  BY FramesArePictures DEF Frames, IsPicture
<1>2. 1 \in 1 .. Len(pic.scans)
  BY <1>1
<1> QED
  BY <1>2, ScanFacts DEF FirstScan, Frames

\* The headers of a picture up to its first scan.
LEMMA FirstHeaders ==
    ASSUME NEW d \in Container, pic \in Frames, n \in Nat, d.strm.of = n,
           pic.op = "baseline", OwnInterval(d, pic, n, past),
           d.right => "right" \in past, d.bottom => "bottom" \in past,
           ~Refused(FrameHeader(d), pic, pic.scans[1])
    PROVE  LET h == ScanHeader(FrameHeader(d), pic.scans[1])
               e == [h EXCEPT !.strm.next = 1, !.strm.pos = pic.ends[1]]
           IN /\ e \in Container /\ HeadersOf(e, pic, n, past) /\ Carried(e, d)
              /\ e.header /\ e.strm.next = 1 /\ e.strm.pos = pic.ends[1]
<1> DEFINE f == FrameHeader(d)
           s == pic.scans[1]
           h == ScanHeader(f, s)
           k == 1
           x == pic.ends[1]
           e == AtScan(h, k, x)
<1>1. f \in Container
  BY FrameHeaderContainer
<1>2. /\ Kept(f, d) /\ f.header = d.header
      /\ f.frame = [of |-> n, is |-> pic] /\ f.frame.is = pic
      /\ f.op = pic.op /\ f.mode = pic.sampling
      /\ f.ri = (IF pic.ri THEN n ELSE d.ri)
      /\ f.right = (d.right \/ (pic.sampling \in {"440", "444", "400"} /\ Over(pic.w)))
      /\ f.bottom = (d.bottom \/ (pic.sampling \notin {"420", "440"} /\ Over(pic.h)))
  BY FrameHeaderFields
<1>3. s \in Components /\ 1 \in 1 .. Len(pic.scans) /\ pic.ends[1] \in Nat
      /\ FirstScan(pic) = IF Single(s) /\ Colour(pic) THEN "nonInterleaved" ELSE "baseline"
  BY FirstScanOf
<1>4. ~Refused(f, f.frame.is, s)
  BY <1>2
<1>5. d.right \in BOOLEAN /\ d.bottom \in BOOLEAN
  BY DEF Container
<1> HIDE DEF f, s
<1>6. h \in Container
  BY <1>1, <1>3, ScanHeaderContainer
<1>7. /\ Kept(h, f) /\ h.header /\ h.out = n /\ h.frame = f.frame /\ h.ri = f.ri
      /\ Single(s) /\ Colour(pic) =>
            /\ s = {h.comp} /\ h.mode = "400"
            /\ h.op = (IF f.op = "baseline" /\ f.mode # "400" THEN "nonInterleaved" ELSE f.op)
            /\ h.right = ((h.comp = 0 \/ pic.sampling = "440") /\ Over(pic.w))
            /\ h.bottom = ((h.comp = 0 \/ pic.sampling = "422") /\ Over(pic.h))
      /\ ~(Single(s) /\ Colour(pic)) =>
            /\ h.op = f.op /\ h.mode = (IF Single(s) THEN f.mode ELSE pic.sampling)
            /\ h.right = f.right /\ h.bottom = f.bottom
  BY <1>1, <1>2, <1>3, <1>4, ScanHeaderFields
<1>16. k = 1 /\ x = pic.ends[1] /\ k \in Nat \ {0} /\ x \in Nat
  BY <1>3
<1> HIDE DEF h, k, x
<1>8. /\ Carried(e, h) /\ e.header = h.header /\ e.frame = h.frame /\ e.out = h.out
      /\ e.op = h.op /\ e.mode = h.mode /\ e.comp = h.comp /\ e.ri = h.ri
      /\ e.right = h.right /\ e.bottom = h.bottom
      /\ e.strm.of = h.strm.of /\ e.strm.next = 1 /\ e.strm.pos = pic.ends[1]
  BY <1>6, <1>16, AtScanFields
<1>9. e \in Container
  BY <1>6, <1>16, AtScanContainer DEF AtScan
<1> HIDE DEF e
<1>10. Carried(e, d)
  BY <1>2, <1>7, <1>8 DEF Carried, Kept
<1>11. e.strm.of = n
  BY <1>2, <1>7, <1>8 DEF Kept
<1>12. OwnInterval(e, pic, n, past)
  BY <1>2, <1>7, <1>8 DEF OwnInterval
<1>13. CASE Single(s) /\ Colour(pic)
  <2>1. e.op = "nonInterleaved" /\ e.mode = "400" /\ s = {e.comp}
        /\ e.right = ((e.comp = 0 \/ pic.sampling = "440") /\ Over(pic.w))
        /\ e.bottom = ((e.comp = 0 \/ pic.sampling = "422") /\ Over(pic.h))
    BY <1>2, <1>7, <1>8, <1>13 DEF Colour
  <2>2. e.right = RightOf(e, pic) /\ e.bottom = BottomOf(e, pic)
    BY <2>1 DEF RightOf, BottomOf
  <2>3. HeadersOf(e, pic, n, past)
    BY <1>2, <1>3, <1>7, <1>8, <1>11, <1>12, <1>13, <2>1, <2>2 DEF HeadersOf, s
  <2> QED
    BY <1>7, <1>8, <1>9, <1>10, <2>3 DEF e, h, f, s, k, x, AtScan
<1>14. CASE ~(Single(s) /\ Colour(pic))
  <2>1. e.op = "baseline" /\ e.mode = pic.sampling
    BY <1>2, <1>7, <1>8, <1>14
  <2>2. /\ e.right = (d.right \/ (pic.sampling \in {"440", "444", "400"} /\ Over(pic.w)))
        /\ e.bottom = (d.bottom \/ (pic.sampling \notin {"420", "440"} /\ Over(pic.h)))
    BY <1>2, <1>7, <1>8, <1>14
  <2>3. /\ e.right = RightOf(e, pic) \/ "right" \in past
        /\ e.bottom = BottomOf(e, pic) \/ "bottom" \in past
    <3>1. e.right = RightOf(e, pic) \/ "right" \in past
      BY <1>5, <2>1, <2>2 DEF RightOf
    <3>2. e.bottom = BottomOf(e, pic) \/ "bottom" \in past
      BY <1>5, <2>1, <2>2 DEF BottomOf
    <3> QED
      BY <3>1, <3>2
  <2>4. HeadersOf(e, pic, n, past)
    BY <1>2, <1>3, <1>7, <1>8, <1>11, <1>12, <1>14, <2>1, <2>3 DEF HeadersOf, s
  <2> QED
    BY <1>7, <1>8, <1>9, <1>10, <2>4 DEF e, h, f, s, k, x, AtScan
<1> QED
  BY <1>13, <1>14
LEMMA FurtherScans ==
    ASSUME pic \in Frames, pic.op = "baseline", NEW k \in 1 .. Len(pic.scans), k > 1
    PROVE  Single(pic.scans[k]) /\ pic.scans[k] \in Components /\ pic.ends[k] \in Nat
<1>1. IsPicture(pic) /\ pic.scans[k] \in Components /\ pic.ends[k] \in Nat
  BY FramesArePictures, ScanFacts DEF Frames
<1>2. Len(pic.scans) > 1
  <2>1. Len(pic.scans) \in Nat
    BY <1>1 DEF IsPicture
  <2> QED
    BY <2>1
<1>3. pic.scans[k] # All
  BY <1>1, <1>2 DEF IsPicture
<1> QED
  BY <1>1, <1>3, Singles, Zenon DEF Components

\* The header of a further scan of a non-interleaved picture.
LEMMA NextHeaders ==
    ASSUME NEW d \in Container, pic \in Frames, n \in Nat, pic.op = "baseline",
           FirstScan(pic) = "nonInterleaved",
           d.frame = [of |-> n, is |-> pic], d.strm.of = n,
           d.op = "nonInterleaved", d.mode = "400", OwnInterval(d, pic, n, past),
           NEW k \in 1 .. Len(pic.scans), k > 1, d.strm.next = k,
           ~Refused(d, pic, pic.scans[k])
    PROVE  LET f == AtPosition(d, pic.ends[k])
               e == ScanHeader(f, pic.scans[k])
           IN /\ e \in Container /\ HeadersOf(e, pic, n, past) /\ Carried(e, d)
              /\ e.header /\ e.strm.next = k /\ e.strm.pos = pic.ends[k]
              /\ e.op = "nonInterleaved"
<1> DEFINE x == pic.ends[k]
           s == pic.scans[k]
           f == AtPosition(d, x)
           e == ScanHeader(f, s)
<1>1. Single(s) /\ s \in Components /\ x \in Nat
  BY FurtherScans
<1>2. Colour(pic)
  BY DEF FirstScan
<1>3. k \in Nat \ {0}
  <2>1. Len(pic.scans) \in Nat
    BY FramesArePictures DEF Frames, IsPicture
  <2> QED
    BY <2>1
<1> HIDE DEF x
<1>4. f \in Container
  BY <1>1, <1>3, AtScanContainer DEF AtPosition
<1>5. /\ Carried(f, d) /\ f.header = d.header /\ f.frame = d.frame /\ f.out = d.out
      /\ f.op = d.op /\ f.mode = d.mode /\ f.comp = d.comp /\ f.ri = d.ri
      /\ f.right = d.right /\ f.bottom = d.bottom
      /\ f.strm.of = d.strm.of /\ f.strm.next = d.strm.next /\ f.strm.pos = x
  BY PositionFields
<1> HIDE DEF f
<1>6. f.frame.is = pic
  BY <1>5
<1>7. ~Refused(f, f.frame.is, s)
  BY <1>5, <1>6 DEF Refused
<1> HIDE DEF s
<1>8. e \in Container
  BY <1>1, <1>4, ScanHeaderContainer
<1>9. /\ Kept(e, f) /\ e.header /\ e.out = n /\ e.frame = f.frame /\ e.ri = f.ri
      /\ s = {e.comp} /\ e.mode = "400"
      /\ e.op = "nonInterleaved"
      /\ e.right = ((e.comp = 0 \/ pic.sampling = "440") /\ Over(pic.w))
      /\ e.bottom = ((e.comp = 0 \/ pic.sampling = "422") /\ Over(pic.h))
  BY <1>1, <1>2, <1>4, <1>5, <1>6, <1>7, ScanHeaderFields
<1> HIDE DEF e
<1>10. Carried(e, d) /\ e.strm.of = n /\ e.strm.next = k /\ e.strm.pos = x
  BY <1>5, <1>9 DEF Carried, Kept
<1>11. OwnInterval(e, pic, n, past)
  BY <1>5, <1>9 DEF OwnInterval
<1>12. HeadersOf(e, pic, n, past)
  BY <1>5, <1>9, <1>10, <1>11 DEF HeadersOf, s, RightOf, BottomOf
<1> QED
  BY <1>8, <1>9, <1>10, <1>12 DEF e, f, s, x

-----------------------------------------------------------------------------
(***************************************************************************)
(* What is left in the instance, whatever the calls found: LeftBehind      *)
(* names every field the next call may find set.                           *)
(***************************************************************************)

Sliced == SliceSet(pic) # 0 /\ ~pp

\* There have been slices.
SlicesSeen == Sliceable(pic) \/ "slices" \in past

\* The scan flag is set while the hardware works.
StaleScan == SlicesSeen \/ {"scan", "refill"} \subseteq past

\* The fields that are never cleared.
Leftovers(d) ==
    /\ d.right \/ Over(d.frame.is.w) => Over(pic.w) \/ "right" \in past
    /\ d.bottom \/ Over(d.frame.is.h) => Over(pic.h) \/ "bottom" \in past
    /\ d.ri # 0 => pic.ri \/ "ri" \in past
    /\ d.pause \/ d.height # 0 => SlicesSeen

\* The flags that a call may clear, at the places a picture can be at.
Residue ==
    /\ Leftovers(dec) /\ (hw.height # 0 => SlicesSeen)
    /\ at \in {"call", "wait", "next"} /\ Sliced /\ (at = "call" => dec.op = "baseline") =>
           FirstScan(pic) = "baseline"
    /\ dec.empty => at = "idle" \/ (at = "call" /\ "refill" \in past)
    /\ at = "call" =>
           /\ dec.header => "header" \in past \/ dec.empty \/ SlicesSeen
           /\ dec.scanReady => "scan" \in past \/ SlicesSeen
    /\ at = "wait" => (dec.scanReady => StaleScan)
    /\ at = "next" => /\ ~dec.pause
                      /\ dec.scanReady => StaleScan \/ dec.strm.next <= Len(pic.scans)
    /\ at = "idle" =>
           /\ dec.header => "header" \in LeftBehind \/ dec.empty \/ SlicesSeen
           /\ dec.scanReady => "scan" \in LeftBehind \/ SlicesSeen

LEMMA NamesLeft ==
    /\ "header" \in LeftBehind <=> \/ ret \in {"header", "system", "next"}
                                   \/ "header" \in past /\ ret = "refused"
    /\ "scan" \in LeftBehind <=> \/ ret = "next"
                                 \/ "scan" \in past /\ ret \in {"refused", "header", "error"}
                                 \/ {"scan", "refill"} \subseteq past
    /\ "slices" \in LeftBehind <=> SlicesSeen
    /\ "refill" \in LeftBehind <=> dec.empty
    /\ "ri" \in LeftBehind <=> pic.ri \/ "ri" \in past
    /\ "right" \in LeftBehind <=> Over(pic.w) \/ "right" \in past
    /\ "bottom" \in LeftBehind <=> Over(pic.h) \/ "bottom" \in past
    /\ "count" \in LeftBehind <=> dec.count # 0
BY DEF LeftBehind, Marks, SlicesSeen

LEMMA NamesLeftNext ==
    /\ "header" \in LeftBehind' <=> \/ ret' \in {"header", "system", "next"}
                                    \/ "header" \in past' /\ ret' = "refused"
    /\ "scan" \in LeftBehind' <=> \/ ret' = "next"
                                  \/ "scan" \in past' /\ ret' \in {"refused", "header", "error"}
                                  \/ {"scan", "refill"} \subseteq past'
BY DEF LeftBehind, Marks

\* Headers, a start and a return keep what is known of those fields.
LEMMA LeftoversKept ==
    ASSUME NEW d, NEW e, Leftovers(d), e.pause = d.pause, e.height = d.height, e.ri = d.ri,
           e.frame = d.frame, e.right => d.right \/ Over(d.frame.is.w),
           e.bottom => d.bottom \/ Over(d.frame.is.h)
    PROVE  Leftovers(e)
BY DEF Leftovers

LEMMA FrameHeaderLeaves ==
    ASSUME NEW d \in Container, pic \in Frames, n \in Nat, Leftovers(d)
    PROVE  Leftovers(FrameHeader(d))
<1> DEFINE e == FrameHeader(d)
<1>1. /\ Kept(e, d) /\ e.frame.is = pic
      /\ e.ri = (IF pic.ri THEN n ELSE d.ri)
      /\ e.right = (d.right \/ (pic.sampling \in {"440", "444", "400"} /\ Over(pic.w)))
      /\ e.bottom = (d.bottom \/ (pic.sampling \notin {"420", "440"} /\ Over(pic.h)))
  BY FrameHeaderFields
<1> HIDE DEF e
<1>2. e.right => d.right \/ Over(pic.w)
  BY <1>1
<1>3. e.bottom => d.bottom \/ Over(pic.h)
  BY <1>1
<1>4. e.pause = d.pause /\ e.height = d.height
  BY <1>1 DEF Kept
<1>5. Leftovers(e)
  BY <1>1, <1>2, <1>3, <1>4 DEF Leftovers
<1> QED
  BY <1>5 DEF e

LEMMA ScanHeaderLeft ==
    ASSUME NEW d \in Container, NEW s \in Components, Leftovers(d)
    PROVE  Leftovers(ScanHeader(d, s))
<1> DEFINE e == ScanHeader(d, s)
<1>1. /\ Kept(e, d) /\ e.frame = d.frame /\ e.ri = d.ri
      /\ e.right => d.right \/ Over(d.frame.is.w)
      /\ e.bottom => d.bottom \/ Over(d.frame.is.h)
  BY ScanHeaderLeaves
<1> HIDE DEF e
<1>2. Leftovers(e)
  BY <1>1, LeftoversKept DEF Kept
<1> QED
  BY <1>2 DEF e

LEMMA SameNames ==
    ASSUME UNCHANGED <<pp, pic, past>>
    PROVE  /\ Sliced' <=> Sliced
           /\ SlicesSeen' <=> SlicesSeen
           /\ StaleScan' <=> StaleScan
           /\ FirstScan(pic') = FirstScan(pic)
           /\ Leftovers(dec') => Leftovers(dec)'
<1>1. pp' = pp /\ pic' = pic /\ past' = past
  OBVIOUS
<1>2. Sliced' <=> Sliced
  BY <1>1 DEF Sliced
<1>3. SlicesSeen' <=> SlicesSeen
  BY <1>1 DEF SlicesSeen, Sliceable
<1>4. StaleScan' <=> StaleScan
  BY <1>1, <1>3 DEF StaleScan
<1>5. Leftovers(dec') => Leftovers(dec)'
  BY <1>1, <1>3 DEF Leftovers
<1> QED
  BY <1>1, <1>2, <1>3, <1>4, <1>5

LEMMA ReturnResidue ==
    ASSUME Residue, NEW how, NEW d, Return(how, d), Leftovers(d),
           d.header => \/ how \in {"header", "system", "next"}
                       \/ "header" \in past /\ how = "refused"
                       \/ d.empty \/ SlicesSeen,
           d.scanReady => \/ how = "next"
                          \/ "scan" \in past /\ how \in {"refused", "header", "error"}
                          \/ StaleScan
    PROVE  Residue'
<1>1. /\ ret' = how /\ at' = "idle" /\ dec' = d /\ pp' = pp /\ pic' = pic
      /\ past' = past /\ hw' = hw
  BY DEF Return, input
<1>2. (SlicesSeen' <=> SlicesSeen) /\ Leftovers(dec)'
  BY <1>1, SameNames
<1>3. d.header => "header" \in LeftBehind' \/ d.empty \/ SlicesSeen
  BY <1>1, NamesLeftNext
<1>4. d.scanReady => "scan" \in LeftBehind' \/ SlicesSeen
  BY <1>1, NamesLeftNext DEF StaleScan
<1> QED
  BY <1>1, <1>2, <1>3, <1>4 DEF Residue

LEMMA StartResidue ==
    ASSUME Residue, pic \in Frames, NEW d \in Container, hw \in Container, Start(d),
           Leftovers(d), Sliced => FirstScan(pic) = "baseline",
           d.scanReady /\ (d.pause \/ d.empty) => StaleScan
    PROVE  Residue'
<1>1. /\ at' = "wait" /\ pp' = pp /\ pic' = pic /\ past' = past
      /\ IF d.empty
         THEN dec' = Refilled(d) /\ hw' = [hw EXCEPT !.start = dec'.start, !.frame = d.frame]
         ELSE dec' = Started(d) /\ hw' = IF d.pause THEN Continued(dec') ELSE dec'
  BY DEF Start, input
<1>2. /\ (Sliced' <=> Sliced) /\ (SlicesSeen' <=> SlicesSeen)
      /\ (StaleScan' <=> StaleScan) /\ FirstScan(pic') = FirstScan(pic)
      /\ Leftovers(dec') => Leftovers(dec)'
  BY <1>1, SameNames
<1>3. Sliced => SlicesSeen
  BY DEF Sliced, SlicesSeen, Sliceable, Frames
<1>4. CASE d.empty
  <2> DEFINE e == Refilled(d)
  <2>1. /\ e.scanReady = d.scanReady /\ e.pause = d.pause /\ e.ri = d.ri /\ e.frame = d.frame
        /\ e.right = d.right /\ e.bottom = d.bottom /\ e.height = d.height /\ ~e.empty
    BY RefilledFields
  <2>2. dec' = e
    BY <1>1, <1>4
  <2> HIDE DEF e
  <2>3. Leftovers(e)
    BY <2>1, LeftoversKept
  <2>4. hw'.height = hw.height
    <3> DEFINE x == dec'.start
               y == d.frame
    <3> HIDE DEF x, y
    <3>1. [hw EXCEPT !.start = x, !.frame = y].height = hw.height
      BY DEF Container
    <3> QED
      BY <1>1, <1>4, <3>1 DEF x, y
  <2> QED
    BY <1>1, <1>2, <1>4, <2>1, <2>2, <2>3, <2>4 DEF Residue
<1>5. CASE ~d.empty
  <2> DEFINE e == Started(d)
  <2>1. /\ e.scanReady = (d.scanReady /\ d.pause) /\ e.pause = d.pause /\ e.ri = d.ri
        /\ e.frame = d.frame /\ e.right = d.right /\ e.bottom = d.bottom
        /\ e.empty = d.empty
        /\ e.height = IF SliceSet(pic) # 0 /\ ~pp THEN SliceHeight(d, pic) ELSE d.height
    BY StartedFields
  <2>2. dec' = e
    BY <1>1, <1>5
  <2> HIDE DEF e
  <2>3. e.height # 0 => SlicesSeen
    BY <1>3, <2>1 DEF Leftovers, Sliced
  <2>4. Leftovers(e)
    BY <2>1, <2>3 DEF Leftovers
  <2>5. hw'.height = e.height
    <3>1. CASE d.pause
      <4> DEFINE x == dec'.out
                 y == dec'.height
      <4> HIDE DEF x, y
      <4>1. [hw EXCEPT !.out = x, !.height = y].height = y
        BY DEF Container
      <4> QED
        BY <1>1, <1>5, <2>2, <3>1, <4>1 DEF Continued, x, y
    <3>2. CASE ~d.pause
      BY <1>1, <1>5, <2>2, <3>2
    <3> QED
      BY <3>1, <3>2
  <2> QED
    BY <1>1, <1>2, <1>5, <2>1, <2>2, <2>3, <2>4, <2>5 DEF Residue
<1> QED
  BY <1>4, <1>5

\* What the call made of a new picture.
LEMMA CallFields ==
    ASSUME NEW d \in Container, NEW p \in Frames, n \in Nat
    PROVE  LET e == PostProcessor(ImageInfo(d, p), p)
           IN /\ e.header = d.header /\ e.scanReady = d.scanReady /\ e.pause = d.pause
              /\ e.height = d.height /\ e.right = d.right /\ e.bottom = d.bottom
              /\ e.comps = d.comps /\ e.count = d.count /\ e.empty = d.empty
              /\ e.frame = d.frame /\ e.op = FirstScan(p) /\ e.mode = p.sampling
              /\ e.ri = (IF p.ri THEN n + 1 ELSE d.ri)
              /\ e.post = [of |-> n + 1, w |-> OutputWidth(p) \div 16,
                           h |-> OutputHeight(p) \div 16, format |-> p.sampling,
                           across |-> Scaling(OutputWidth(p), Width(p)),
                           down |-> Scaling(OutputHeight(p), Height(p)),
                           chroma |-> Width(p) * Height(p)]
<1> DEFINE i == ImageInfo(d, p)
           e == PostProcessor(i, p)
<1>1. i \in Container
  BY ImageInfoContainer
<1>2. /\ i.header = d.header /\ i.scanReady = d.scanReady /\ i.pause = d.pause
      /\ i.height = d.height /\ i.right = d.right /\ i.bottom = d.bottom
      /\ i.comps = d.comps /\ i.count = d.count /\ i.empty = d.empty
      /\ i.frame = d.frame /\ i.op = FirstScan(p) /\ i.mode = p.sampling
      /\ i.ri = (IF p.ri THEN n + 1 ELSE d.ri)
  BY DEF ImageInfo, Container
<1> HIDE DEF i
<1>3. /\ e.header = i.header /\ e.scanReady = i.scanReady /\ e.pause = i.pause
      /\ e.height = i.height /\ e.right = i.right /\ e.bottom = i.bottom
      /\ e.comps = i.comps /\ e.count = i.count /\ e.empty = i.empty
      /\ e.frame = i.frame /\ e.op = i.op /\ e.mode = i.mode /\ e.ri = i.ri
      /\ e.post = [of |-> n + 1, w |-> OutputWidth(p) \div 16,
                   h |-> OutputHeight(p) \div 16, format |-> p.sampling,
                   across |-> Scaling(OutputWidth(p), Width(p)),
                   down |-> Scaling(OutputHeight(p), Height(p)),
                   chroma |-> Width(p) * Height(p)]
  BY <1>1 DEF PostProcessor, Container
<1> HIDE DEF e
<1>4. /\ e.header = d.header /\ e.scanReady = d.scanReady /\ e.pause = d.pause
      /\ e.height = d.height /\ e.right = d.right /\ e.bottom = d.bottom
      /\ e.comps = d.comps /\ e.count = d.count /\ e.empty = d.empty
      /\ e.frame = d.frame /\ e.op = FirstScan(p) /\ e.mode = p.sampling
      /\ e.ri = (IF p.ri THEN n + 1 ELSE d.ri)
  BY <1>2, <1>3
<1> QED
  BY <1>3, <1>4 DEF e, i

LEMMA OneFrameResidue ==
    ASSUME Residue, TypeOK, NEW p \in Pictures, OneFrame(p)
    PROVE  Residue'
<1>1. /\ at = "idle" /\ pic' = p /\ past' = LeftBehind /\ pp' = pp /\ hw' = hw
      /\ n \in Nat /\ dec \in Container
  BY DEF OneFrame, TypeOK
<1>2. SlicesSeen => SlicesSeen'
  BY <1>1, NamesLeft DEF SlicesSeen
<1>3. ASSUME dec'.frame = dec.frame, dec'.pause = dec.pause, dec'.height = dec.height,
             dec'.right = dec.right, dec'.bottom = dec.bottom, dec'.ri # 0 => p.ri \/ dec.ri # 0
      PROVE  Leftovers(dec)' /\ (hw'.height # 0 => SlicesSeen')
  BY <1>1, <1>2, <1>3, NamesLeft DEF Residue, Leftovers
<1>4. /\ dec.header => "header" \in past' \/ dec.empty \/ SlicesSeen'
      /\ dec.scanReady => "scan" \in past' \/ SlicesSeen'
      /\ dec.empty => "refill" \in past'
  BY <1>1, <1>2, NamesLeft DEF Residue
<1>5. CASE Known(p)
  <2> DEFINE e == PostProcessor(ImageInfo(dec, p), p)
  <2>1. p \in Frames
    BY <1>5 DEF Frames
  <2>2. /\ e.header = dec.header /\ e.scanReady = dec.scanReady /\ e.pause = dec.pause
        /\ e.height = dec.height /\ e.right = dec.right /\ e.bottom = dec.bottom
        /\ e.empty = dec.empty /\ e.frame = dec.frame /\ e.op = FirstScan(p)
        /\ e.ri = (IF p.ri THEN n + 1 ELSE dec.ri)
    BY <1>1, <2>1, CallFields
  <2>3. at' = "call" /\ dec' = e
    BY <1>5 DEF OneFrame
  <2> HIDE DEF e
  <2> QED
    BY <1>1, <1>3, <1>4, <2>2, <2>3 DEF Residue
<1>6. CASE ~Known(p)
  <2> DEFINE e == [dec EXCEPT !.op = p.op]
  <2>1. /\ e.header = dec.header /\ e.scanReady = dec.scanReady /\ e.pause = dec.pause
        /\ e.height = dec.height /\ e.right = dec.right /\ e.bottom = dec.bottom
        /\ e.empty = dec.empty /\ e.frame = dec.frame /\ e.ri = dec.ri
    BY <1>1 DEF Container
  <2>2. at' = "idle" /\ dec' = e /\ ret' = "refused"
    BY <1>1, <1>6 DEF OneFrame
  <2> HIDE DEF e
  <2>3. /\ dec'.header => "header" \in LeftBehind' \/ dec'.empty \/ SlicesSeen'
        /\ dec'.scanReady => "scan" \in LeftBehind' \/ SlicesSeen'
    BY <1>4, <2>1, <2>2, NamesLeftNext
  <2> QED
    BY <1>1, <1>3, <2>1, <2>2, <2>3 DEF Residue
<1> QED
  BY <1>5, <1>6

LEMMA StoredLeaves ==
    ASSUME dec \in Container
    PROVE  /\ Carried(Stored, dec) /\ Stored.frame = dec.frame /\ Stored.ri = dec.ri
           /\ Stored.right = dec.right /\ Stored.bottom = dec.bottom
           /\ Stored.header => dec.header
<1>1. CASE dec.scanReady
  <2> DEFINE e == [dec EXCEPT !.header = FALSE]
  <2>1. /\ Carried(e, dec) /\ e.frame = dec.frame /\ e.ri = dec.ri
        /\ e.right = dec.right /\ e.bottom = dec.bottom /\ ~e.header
    BY DEF Container, Carried
  <2> QED
    BY <1>1, <2>1 DEF Stored
<1>2. CASE ~dec.scanReady
  <2> DEFINE e == [dec EXCEPT !.strm = [of |-> n, next |-> 1, pos |-> 0]]
  <2>1. /\ Carried(e, dec) /\ e.frame = dec.frame /\ e.ri = dec.ri
        /\ e.right = dec.right /\ e.bottom = dec.bottom /\ e.header = dec.header
    BY DEF Container, Carried
  <2> QED
    BY <1>2, <2>1 DEF Stored
<1> QED
  BY <1>1, <1>2

LEMMA FoundResidue ==
    ASSUME Residue, TypeOK, at = "call", NEW d \in Container,
           NEW k \in 1 .. Len(pic.scans), Found(d, k), Leftovers(d),
           Sliced => FirstScan(pic) = "baseline",
           d.scanReady => "scan" \in past \/ SlicesSeen,
           d.empty => "refill" \in past
    PROVE  Residue'
<1> DEFINE h == ScanHeader(d, pic.scans[k])
           e == AtScan(h, k, pic.ends[k])
<1>1. /\ pic \in Frames /\ pic \in Pictures \union {NoPicture} /\ n \in Nat /\ hw \in Container
  BY KnownFrame DEF TypeOK, Frames
<1>2. pic.scans[k] \in Components /\ pic.ends[k] \in Nat
  BY <1>1, ScanFacts
<1>3. h \in Container /\ Leftovers(h)
  BY <1>1, <1>2, ScanHeaderContainer, ScanHeaderLeft
<1>4. h.scanReady = d.scanReady /\ h.pause = d.pause /\ h.empty = d.empty
  BY <1>2, ScanHeaderLeaves DEF Kept
<1>5. k \in Nat \ {0}
  <2>1. Len(pic.scans) \in Nat
    BY <1>1, FramesArePictures DEF IsPicture
  <2> QED
    BY <2>1
<1>6. Return("header", h) \/ Start(e)
  BY DEF Found, AtScan
<1> HIDE DEF h
<1>7. CASE Return("header", h)
  BY <1>3, <1>4, <1>7, ReturnResidue DEF StaleScan
<1>8. CASE Start(e)
  <2>1. e \in Container
    BY <1>2, <1>3, <1>5, AtScanContainer DEF AtScan
  <2>2. /\ Carried(e, h) /\ e.frame = h.frame /\ e.ri = h.ri
        /\ e.right = h.right /\ e.bottom = h.bottom
    BY <1>3, AtScanFields
  <2> HIDE DEF e
  <2>3. Leftovers(e)
    BY <1>3, <2>2, LeftoversKept DEF Carried
  <2>4. e.scanReady /\ (e.pause \/ e.empty) => StaleScan
    BY <1>4, <2>2, <2>3 DEF Carried, StaleScan, Leftovers
  <2> QED
    BY <1>1, <1>8, <2>1, <2>3, <2>4, StartResidue
<1> QED
  BY <1>6, <1>7, <1>8

LEMMA CallResidue ==
    ASSUME Residue, TypeOK, Refuse \/ ReadHeaders
    PROVE  Residue'
<1>1. /\ at = "call" /\ dec \in Container /\ hw \in Container /\ n \in Nat /\ pic \in Frames
  BY KnownFrame DEF Refuse, ReadHeaders, TypeOK
<1>2. /\ Carried(Stored, dec) /\ Stored.frame = dec.frame /\ Stored.ri = dec.ri
      /\ Stored.right = dec.right /\ Stored.bottom = dec.bottom
      /\ Stored.header => dec.header
  BY <1>1, StoredLeaves
<1>3. Stored \in Container
  BY <1>1, StoredContainer
<1>4. Leftovers(Stored)
  BY <1>2, LeftoversKept DEF Residue, Carried
<1>5. /\ Stored.header => "header" \in past \/ Stored.empty \/ SlicesSeen
      /\ Stored.scanReady => "scan" \in past \/ SlicesSeen
      /\ Stored.empty => "refill" \in past
  BY <1>1, <1>2 DEF Residue, Carried
<1>6. CASE Refuse
  <2>1. Return("refused", Stored)
    BY <1>6 DEF Refuse
  <2> QED
    BY <1>4, <1>5, <2>1, ReturnResidue DEF StaleScan
<1>7. CASE ReadHeaders
  <2>1. Sliced => FirstScan(pic) = "baseline"
    BY <1>1, <1>7 DEF ReadHeaders, Unsupported, Sliced, Residue
  <2>2. CASE Stored.header /\ Start(Stored)
    <3>1. Stored.scanReady /\ (Stored.pause \/ Stored.empty) => StaleScan
      BY <1>4, <1>5 DEF StaleScan, Leftovers
    <3> QED
      BY <1>1, <1>3, <1>4, <2>1, <2>2, <3>1, StartResidue
  <2>3. CASE Found(FrameHeader(Stored), 1)
    <3> DEFINE f == FrameHeader(Stored)
    <3>1. f \in Container /\ Leftovers(f)
      BY <1>1, <1>3, <1>4, FrameHeaderContainer, FrameHeaderLeaves
    <3>2. f.scanReady = Stored.scanReady /\ f.empty = Stored.empty
      BY <1>1, <1>3, FrameHeaderFields DEF Kept
    <3>3. 1 \in 1 .. Len(pic.scans)
      <4>1. Len(pic.scans) \in Nat /\ Len(pic.scans) > 0
        BY <1>1, FramesArePictures DEF Frames, IsPicture
      <4> QED
        BY <4>1
    <3>4. Found(f, 1)
      BY <2>3
    <3> HIDE DEF f
    <3> QED
      BY <1>1, <1>5, <2>1, <3>1, <3>2, <3>3, <3>4, FoundResidue
  <2>4. CASE \E k \in 1 .. Len(pic.scans) : Found(Stored, k)
    BY <1>1, <1>3, <1>4, <1>5, <2>1, <2>4, FoundResidue
  <2>5. CASE ~Stored.header /\ Return("error", Stored)
    BY <1>4, <1>5, <2>5, ReturnResidue DEF StaleScan
  <2>6. \/ Stored.header /\ Start(Stored)
        \/ Found(FrameHeader(Stored), 1)
        \/ \E k \in 1 .. Len(pic.scans) : Found(Stored, k)
        \/ ~Stored.header /\ Return("error", Stored)
    BY <1>7, Zenon DEF ReadHeaders
  <2> QED
    BY <2>2, <2>3, <2>4, <2>5, <2>6
<1> QED
  BY <1>6, <1>7

LEMMA ResetFields ==
    ASSUME NEW d \in Container
    PROVE  LET e == Reset(d)
           IN /\ ~e.header /\ Carried(e, d) /\ e.strm = d.strm /\ e.frame = d.frame
              /\ e.op = d.op /\ e.mode = d.mode /\ e.comp = d.comp /\ e.ri = d.ri
              /\ e.right = d.right /\ e.bottom = d.bottom
BY DEF Reset, Container, Carried

LEMMA NextScanResidue ==
    ASSUME Residue, TypeOK, NextScan
    PROVE  Residue'
<1> DEFINE d == Reset(dec)
           k == d.strm.next
           s == pic.scans[k]
           f == AtPosition(d, pic.ends[k])
           e == ScanHeader(f, s)
           g == ScanHeader(d, s)
<1>1. /\ at = "next" /\ dec \in Container /\ hw \in Container /\ n \in Nat
      /\ pic \in Frames /\ pic \in Pictures \union {NoPicture}
  BY KnownFrame DEF NextScan, TypeOK, Frames
<1>2. /\ d \in Container /\ ~d.header /\ Carried(d, dec) /\ d.strm = dec.strm
      /\ d.frame = dec.frame /\ d.ri = dec.ri
      /\ d.right = dec.right /\ d.bottom = dec.bottom /\ d.strm.next \in Nat \ {0}
  BY <1>1, ResetContainer, ResetFields, FieldsOfContainer
<1>3. Len(pic.scans) \in Nat
  BY <1>1, FramesArePictures DEF IsPicture
<1>4. \/ k > Len(pic.scans) /\ Return("error", d)
      \/ ~(k > Len(pic.scans)) /\ Return("next", g)
      \/ ~(k > Len(pic.scans)) /\ Start(e)
  BY Zenon DEF NextScan, AtPosition
<1> HIDE DEF d
<1>5. Leftovers(d)
  BY <1>2, LeftoversKept DEF Residue, Carried
<1>6. /\ ~d.pause /\ ~d.empty
      /\ d.scanReady => StaleScan \/ k <= Len(pic.scans)
  BY <1>1, <1>2 DEF Residue, Carried
<1>7. k \in Nat \ {0} /\ (~(k > Len(pic.scans)) => k \in 1 .. Len(pic.scans))
  <2>1. k \in Nat \ {0}
    BY <1>2
  <2> HIDE DEF k
  <2> QED
    BY <1>3, <2>1
<1>8. CASE k > Len(pic.scans) /\ Return("error", d)
  <2>1. d.scanReady => StaleScan
    <3> HIDE DEF k
    <3> QED
      BY <1>3, <1>6, <1>7, <1>8
  <2> QED
    BY <1>2, <1>5, <1>8, <2>1, ReturnResidue
<1>9. CASE ~(k > Len(pic.scans)) /\ (Return("next", g) \/ Start(e))
  <2>1. s \in Components /\ pic.ends[k] \in Nat
    <3> HIDE DEF k
    <3> QED
      BY <1>1, <1>7, <1>9, ScanFacts
  <2>2. CASE Return("next", g)
    <3>1. Leftovers(g)
      <4> HIDE DEF s
      <4> QED
        BY <1>2, <1>5, <2>1, ScanHeaderLeft
    <3> HIDE DEF g
    <3> QED
      BY <2>2, <3>1, ReturnResidue
  <2>3. CASE Start(e)
    <3>1. f \in Container
      <4> HIDE DEF k
      <4> QED
        BY <1>2, <1>7, <2>1, AtScanContainer DEF AtPosition
    <3>2. /\ Carried(f, d) /\ f.frame = d.frame /\ f.ri = d.ri
          /\ f.right = d.right /\ f.bottom = d.bottom
      BY <1>2, PositionFields
    <3> HIDE DEF f, s
    <3>3. Leftovers(f)
      BY <1>5, <3>2, LeftoversKept DEF Carried
    <3>4. e \in Container /\ Leftovers(e)
      BY <1>1, <2>1, <3>1, <3>3, ScanHeaderContainer, ScanHeaderLeft
    <3>5. e.pause = f.pause /\ e.empty = f.empty
      BY <2>1, <3>1, ScanHeaderLeaves DEF Kept
    <3> HIDE DEF e
    <3>6. ~e.pause /\ ~e.empty
      BY <1>6, <3>2, <3>5 DEF Carried
    <3>7. Sliced => FirstScan(pic) = "baseline"
      BY <1>1 DEF Residue
    <3> QED
      BY <1>1, <2>3, <3>4, <3>6, <3>7, StartResidue
  <2> QED
    BY <1>9, <2>2, <2>3
<1> QED
  BY <1>4, <1>8, <1>9

LEMMA AfterScanFields ==
    ASSUME dec \in Container, NEW k, NEW more
    PROVE  LET d == [dec EXCEPT !.comps = @ \union {dec.comp}, !.count = 0,
                                !.pause = FALSE, !.scanReady = @ \/ more, !.strm.next = k]
           IN /\ d.header = dec.header /\ d.scanReady = (dec.scanReady \/ more) /\ ~d.pause
              /\ d.height = dec.height /\ d.comps = dec.comps \union {dec.comp}
              /\ d.post = dec.post /\ d.strm.of = dec.strm.of /\ d.strm.next = k
              /\ d.frame = dec.frame /\ d.op = dec.op /\ d.mode = dec.mode /\ d.ri = dec.ri
              /\ d.right = dec.right /\ d.bottom = dec.bottom /\ d.empty = dec.empty
              /\ d.count = 0
BY DEF Container, StreamStorage

LEMMA AnswerResidue ==
    ASSUME Residue, TypeOK, Answer
    PROVE  Residue'
<1>1. /\ at = "wait" /\ dec \in Container
      /\ Leftovers(dec) /\ ~dec.empty /\ (dec.scanReady => StaleScan)
      /\ hw.height # 0 => SlicesSeen
      /\ Sliced => FirstScan(pic) = "baseline"
  BY DEF Answer, WaitFails, BusError, StreamError, BufferEmpty, SliceReady, FrameReady,
         ScanReady, ScanFaults, TypeOK, Residue
<1>2. Leftovers(Reset(dec)) /\ ~Reset(dec).header /\ (Reset(dec).scanReady => StaleScan)
  <2> DEFINE e == Reset(dec)
  <2>1. /\ ~e.header /\ Carried(e, dec) /\ e.frame = dec.frame /\ e.ri = dec.ri
        /\ e.right = dec.right /\ e.bottom = dec.bottom
    BY <1>1, ResetFields
  <2> HIDE DEF e
  <2>2. Leftovers(e) /\ ~e.header /\ (e.scanReady => StaleScan)
    BY <1>1, <2>1, LeftoversKept DEF Carried
  <2> QED
    BY <2>2 DEF e
<1>3. CASE WaitFails
  <2>1. Return("system", dec)
    BY <1>3 DEF WaitFails
  <2> QED
    BY <1>1, <2>1, ReturnResidue
<1>4. CASE BusError \/ StreamError \/ FrameReady
  <2>1. PICK how \in {"bus", "stream", "shown", "frame"} : Return(how, Reset(dec))
    BY <1>4 DEF BusError, StreamError, FrameReady
  <2> QED
    BY <1>2, <2>1, ReturnResidue
<1>5. CASE BufferEmpty
  <2> DEFINE e == [dec EXCEPT !.empty = TRUE]
  <2>1. /\ e.right = dec.right /\ e.bottom = dec.bottom /\ e.frame = dec.frame
        /\ e.ri = dec.ri /\ e.pause = dec.pause /\ e.height = dec.height /\ e.empty
        /\ e.header = dec.header /\ e.scanReady = dec.scanReady
    BY <1>1 DEF Container
  <2>2. /\ at' = "call" /\ dec' = e /\ past' = past \union {"refill"} /\ pic' = pic
        /\ pp' = pp /\ hw' = hw
    BY <1>5 DEF BufferEmpty
  <2> HIDE DEF e
  <2>3. (SlicesSeen => SlicesSeen') /\ (Sliced' <=> Sliced)
    BY <2>2 DEF SlicesSeen, Sliceable, Sliced
  <2>4. Leftovers(dec)'
    BY <1>1, <2>1, <2>2, <2>3 DEF Leftovers
  <2>5. dec'.scanReady => "scan" \in past' \/ SlicesSeen'
    BY <1>1, <2>1, <2>2, <2>3 DEF StaleScan
  <2> QED
    BY <1>1, <2>1, <2>2, <2>3, <2>4, <2>5 DEF Residue
<1>6. CASE SliceReady
  <2> DEFINE e == [dec EXCEPT !.pause = Pause]
  <2>1. /\ e.right = dec.right /\ e.bottom = dec.bottom /\ e.frame = dec.frame
        /\ e.ri = dec.ri /\ e.height = dec.height /\ e.empty = dec.empty
    BY <1>1 DEF Container
  <2>2. /\ at' = "call" /\ dec' = e /\ past' = past /\ pic' = pic
        /\ pp' = pp /\ hw' = hw /\ ~AllRows
    BY <1>6 DEF SliceReady, input
  <2> HIDE DEF e
  <2>3. SlicesSeen
    BY <1>1, <2>2 DEF AllRows
  <2>4. Leftovers(e)
    BY <1>1, <2>1, <2>3 DEF Leftovers
  <2>5. (SlicesSeen' <=> SlicesSeen) /\ (Sliced' <=> Sliced) /\ Leftovers(dec)'
        /\ FirstScan(pic') = FirstScan(pic)
    BY <2>2, <2>4, SameNames
  <2> QED
    BY <1>1, <2>1, <2>2, <2>3, <2>5 DEF Residue
<1>7. CASE ScanReady
  <2>1. PICK k \in NextPositions(dec) : AfterScan(k)
    BY <1>7 DEF ScanReady
  <2> DEFINE more == k <= Len(pic.scans)
             d == [dec EXCEPT !.comps = @ \union {dec.comp}, !.count = 0,
                              !.pause = FALSE, !.scanReady = @ \/ more, !.strm.next = k]
             e == Reset(d)
  <2>2. /\ d.scanReady = (dec.scanReady \/ more) /\ ~d.pause /\ d.height = dec.height
        /\ d.strm.next = k /\ d.frame = dec.frame /\ d.ri = dec.ri
        /\ d.right = dec.right /\ d.bottom = dec.bottom /\ d.empty = dec.empty
    BY <1>1, AfterScanFields
  <2>3. \/ at' = "next" /\ dec' = d /\ UNCHANGED <<pp, input, ret, hw, rows>>
        \/ Return("frame", e) /\ ~more
        \/ at' = "empty" /\ dec' = e /\ UNCHANGED <<pp, input, ret, hw, rows>>
    BY <2>1, Zenon DEF AfterScan
  <2>4. /\ e.scanReady = d.scanReady /\ e.pause = d.pause /\ e.height = d.height
        /\ e.frame = d.frame /\ e.ri = d.ri /\ ~e.header
        /\ e.right = d.right /\ e.bottom = d.bottom /\ e.empty = d.empty
    <3>1. d \in Container
      <4>1. pic \in Pictures \union {NoPicture}
        BY DEF TypeOK
      <4>2. k \in Nat \ {0} /\ more \in BOOLEAN
        BY <1>1, <2>1, <4>1, PositionsOfScans
      <4> HIDE DEF more
      <4> QED
        BY <1>1, <4>2, AfterScanContainer
    <3> HIDE DEF d
    <3> QED
      BY <3>1, ResetFields DEF Carried
  <2> HIDE DEF more, d, e
  <2>5. Leftovers(d) /\ Leftovers(e)
    BY <1>1, <2>2, <2>4 DEF Leftovers
  <2>6. CASE at' = "next" /\ dec' = d /\ UNCHANGED <<pp, input, ret, hw, rows>>
    <3>1. /\ (Sliced' <=> Sliced) /\ (SlicesSeen' <=> SlicesSeen)
          /\ (StaleScan' <=> StaleScan) /\ FirstScan(pic') = FirstScan(pic)
          /\ Leftovers(dec)' /\ pic' = pic /\ hw' = hw
      BY <2>5, <2>6, SameNames DEF input
    <3> QED
      BY <1>1, <2>2, <2>6, <3>1 DEF Residue, more
  <2>7. CASE Return("frame", e) /\ ~more
    BY <1>1, <2>2, <2>4, <2>5, <2>7, ReturnResidue
  <2>8. CASE at' = "empty" /\ dec' = e /\ UNCHANGED <<pp, input, ret, hw, rows>>
    <3>1. /\ (SlicesSeen' <=> SlicesSeen) /\ Leftovers(dec)' /\ hw' = hw
      BY <2>5, <2>8, SameNames DEF input
    <3> QED
      BY <1>1, <2>2, <2>4, <2>8, <3>1 DEF Residue
  <2> QED
    BY <2>3, <2>6, <2>7, <2>8
<1>8. CASE ScanFaults
  <2>1. /\ at' = "dead" /\ dec' = dec /\ hw' = hw /\ UNCHANGED <<pp, pic, past>>
    BY <1>8 DEF ScanFaults, input
  <2>2. (SlicesSeen' <=> SlicesSeen) /\ Leftovers(dec)'
    BY <1>1, <2>1, SameNames
  <2> QED
    BY <1>1, <2>1, <2>2 DEF Residue
<1> QED
  BY <1>3, <1>4, <1>5, <1>6, <1>7, <1>8 DEF Answer

LEMMA NextResidue ==
    ASSUME Residue, TypeOK, [Next]_vars
    PROVE  Residue'
<1>1. CASE EmptyScan
  <2>1. /\ at = "empty" /\ at' = "dead" /\ dec' = dec /\ hw' = hw /\ UNCHANGED <<pp, pic, past>>
    BY <1>1 DEF EmptyScan, input
  <2>2. (SlicesSeen' <=> SlicesSeen) /\ Leftovers(dec)'
    BY <2>1, SameNames DEF Residue
  <2> QED
    BY <2>1, <2>2 DEF Residue
<1>2. CASE UNCHANGED vars
  <2>1. /\ UNCHANGED <<pp, pic, past>> /\ ret' = ret /\ pic' = pic /\ past' = past
        /\ at' = at /\ dec' = dec /\ hw' = hw
    BY <1>2 DEF vars
  <2>2. /\ (Sliced' <=> Sliced) /\ (SlicesSeen' <=> SlicesSeen)
        /\ (StaleScan' <=> StaleScan) /\ FirstScan(pic') = FirstScan(pic)
        /\ Leftovers(dec)'
    BY <2>1, SameNames DEF Residue
  <2>3. /\ "header" \in LeftBehind' <=> "header" \in LeftBehind
        /\ "scan" \in LeftBehind' <=> "scan" \in LeftBehind
    BY <2>1, NamesLeft, NamesLeftNext
  <2> QED
    BY <2>1, <2>2, <2>3 DEF Residue
<1> QED
  BY <1>1, <1>2, OneFrameResidue, CallResidue, NextScanResidue, AnswerResidue DEF Next, Running

-----------------------------------------------------------------------------
(***************************************************************************)
(* The picture the hardware works on.                                      *)
(***************************************************************************)

Post(p) ==
    [of |-> n, w |-> OutputWidth(p) \div 16, h |-> OutputHeight(p) \div 16,
     format |-> p.sampling, across |-> Scaling(OutputWidth(p), Width(p)),
     down |-> Scaling(OutputHeight(p), Height(p)), chroma |-> Width(p) * Height(p)]

\* The components of the first k - 1 scans.
Passed(p, k) == UNION {p.scans[i] : i \in 1 .. k - 1}

Counted(d) ==
    /\ d.comps = done \union old
    /\ Passed(pic, d.strm.next) \subseteq d.comps

\* When a call has been made.
Opened ==
    /\ Clean(dec, past) /\ OwnInterval(dec, pic, n, past)
    /\ dec.op = FirstScan(pic) /\ dec.mode = pic.sampling /\ dec.post = Post(pic)
    /\ done = {} /\ dec.comps = old

\* While the hardware works, or waits for the client to take a slice.
Loaded(d) == HeadersOf(d, pic, n, past) /\ StartsAt(d, pic) /\ d.post = Post(pic)
Decoding ==
    /\ Loaded(dec) /\ Loaded(hw)
    /\ dec.strm.next = hw.strm.next /\ dec.comp = hw.comp /\ dec.op = hw.op
    /\ dec.header /\ ~dec.scanReady /\ ~dec.empty
    /\ Counted(dec)
    /\ dec.op = "nonInterleaved" => ~(dec.strm.pos = 0 /\ hw.start.bit = 0)
    /\ dec.op = "baseline" => done = {}
    /\ pic.op = "baseline"
    /\ dec.height # 0 \/ hw.height # 0 \/ dec.pause => Sliced
    /\ Sliced => dec.op = "baseline"

\* Between two scans.
Between ==
    /\ dec.frame = [of |-> n, is |-> pic] /\ dec.strm.of = n
    /\ pic.op = "baseline" /\ FirstScan(pic) = "nonInterleaved"
    /\ dec.op = "nonInterleaved" /\ dec.mode = "400"
    /\ dec.strm.next > 1 /\ dec.strm.next <= Len(pic.scans) + 1
    /\ dec.scanReady => dec.strm.next <= Len(pic.scans)
    /\ dec.strm.next > Len(pic.scans) => dec.comps # All
    /\ OwnInterval(dec, pic, n, past) /\ dec.post = Post(pic)
    /\ ~dec.pause /\ dec.height = 0 /\ ~Sliced /\ ~dec.empty
    /\ dec.right => Over(pic.w) \/ "right" \in past
    /\ dec.bottom => Over(pic.h) \/ "bottom" \in past
    /\ Counted(dec)

Memory == at \in {"call", "wait", "next"} => mem >= RoundUp(pic.size, 256) + 4096

PictureInv ==
    /\ TypeOK /\ Residue /\ Memory /\ ReadyIsComplete /\ GoodPictureReady
    /\ at = "idle" /\ n > 0 => ret # "none"
    /\ Undisturbed =>
        /\ at = "call" => IF dec.header THEN Decoding /\ dec.pause ELSE Opened
        /\ at = "wait" => Decoding
        /\ at = "next" => Between
LEMMA PostSame ==
    ASSUME UNCHANGED <<pp, n, pic>>
    PROVE  Post(pic)' = Post(pic)
BY DEF Post, Width, Height

LEMMA SlicedSame ==
    ASSUME UNCHANGED <<pp, pic>>
    PROVE  Sliced' <=> Sliced
BY DEF Sliced

LEMMA ReturnInv ==
    ASSUME PictureInv, TypeOK', Residue', NEW how, NEW d, Return(how, d), how # "none",
           Undisturbed /\ how = "frame" => done' \union old = All,
           Undisturbed /\ Decodable(pic) =>
               how \in {"frame", "shown", "stream", "bus", "system"}
    PROVE  PictureInv'
<1>1. /\ ret' = how /\ at' = "idle" /\ dec' = d /\ pp' = pp /\ n' = n /\ pic' = pic
      /\ past' = past /\ old' = old
  BY DEF Return, input
<1>2. Memory'
  BY <1>1 DEF Memory
<1>3. ReadyIsComplete' /\ GoodPictureReady'
  BY <1>1 DEF ReadyIsComplete, GoodPictureReady, Undisturbed
<1> QED
  BY <1>1, <1>2, <1>3 DEF PictureInv

\* What is known of the container the hardware is started with.
Prepared(d) ==
    /\ HeadersOf(d, pic, n, past) /\ d.post = Post(pic)
    /\ d.header /\ ~(d.scanReady /\ d.pause) /\ ~d.empty
    /\ Counted(d)
    /\ d.op = "baseline" => done = {}
    /\ pic.op = "baseline"
    /\ d.height # 0 \/ d.pause => Sliced
    /\ Sliced => d.op = "baseline"
    /\ IF d.pause
       THEN /\ StartsAt(d, pic) /\ Loaded(hw)
            /\ hw.strm.next = d.strm.next /\ hw.comp = d.comp /\ hw.op = d.op
       ELSE d.strm.pos = pic.ends[d.strm.next]

\* The hardware skips a bit, or the position is not the first.
LEMMA StartsLater ==
    ASSUME NEW d \in Container, pic \in Frames, ~d.pause, d.strm.pos # 0
    PROVE  ~(Started(d).strm.pos = 0 /\ Started(d).start.bit = 0)
<1> DEFINE x == d.strm.pos
<1>1. x \in Nat
  BY DEF Container, StreamStorage
<1>2. Started(d).strm.pos = x - (x % 8) /\ Started(d).start = HwStrmParams(d)
  BY StartedFields
<1>3. HwStrmParams(d).bit = 8 * (x % 8)
  BY DEF HwStrmParams
<1> HIDE DEF x
<1>4. x - (x % 8) = 0 /\ 8 * (x % 8) = 0 => x = 0
  BY <1>1
<1> QED
  BY <1>2, <1>3, <1>4 DEF x

LEMMA StartInv ==
    ASSUME PictureInv, TypeOK', Residue', pic \in Frames, at \in {"call", "next"},
           NEW d \in Container, Start(d), UNCHANGED done, Undisturbed => Prepared(d)
    PROVE  PictureInv'
<1>1. /\ at' = "wait" /\ pp' = pp /\ n' = n /\ pic' = pic
      /\ past' = past /\ old' = old /\ mem' = mem /\ done' = done
      /\ ~d.empty =>
           /\ dec' = Started(d)
           /\ hw' = IF d.pause THEN [hw EXCEPT !.out = dec'.out, !.height = dec'.height] ELSE dec'
  BY DEF Start, input, Continued
<1>2. Memory' /\ ReadyIsComplete' /\ GoodPictureReady'
  BY <1>1 DEF PictureInv, Memory, ReadyIsComplete, GoodPictureReady
<1>3. ASSUME Undisturbed
      PROVE  Decoding'
  <2> DEFINE e == Started(d)
  <2>1. Prepared(d) /\ ~d.empty
    BY <1>3 DEF Prepared
  <2>2. /\ e.header = d.header /\ e.empty = d.empty /\ e.pause = d.pause /\ e.op = d.op /\ e.comp = d.comp
        /\ e.comps = d.comps /\ e.post = d.post
        /\ e.out = d.out /\ e.strm.next = d.strm.next
        /\ e.scanReady = (d.scanReady /\ d.pause)
        /\ e.height = (IF SliceSet(pic) # 0 /\ ~pp THEN SliceHeight(d, pic) ELSE d.height)
        /\ e.start = (IF d.pause THEN d.start ELSE HwStrmParams(d))
    BY StartedFields
  <2>3. HeadersOf(e, pic, n, past)
    BY <2>1, StartedHeaders DEF Prepared
  <2>4. StartsAt(e, pic)
    <3>1. CASE d.pause
      BY <2>1, <2>2, <3>1 DEF StartsAt, Prepared
    <3>2. CASE ~d.pause
      <4>1. d.frame.is = pic /\ d.strm.next \in 1 .. Len(pic.scans)
        BY <2>1 DEF Prepared, HeadersOf
      <4> QED
        BY <2>1, <3>2, <4>1, StartsThere DEF Prepared
    <3> QED
      BY <3>1, <3>2
  <2>11. d.op = "nonInterleaved" => ~d.pause /\ ~(e.strm.pos = 0 /\ e.start.bit = 0)
    <3> SUFFICES ASSUME d.op = "nonInterleaved"
                 PROVE  ~d.pause /\ ~(e.strm.pos = 0 /\ e.start.bit = 0)
      OBVIOUS
    <3>1. ~d.pause
      BY <2>1 DEF Prepared
    <3>2. d.strm.next \in 1 .. Len(pic.scans) /\ d.strm.pos = pic.ends[d.strm.next]
      BY <2>1, <3>1 DEF Prepared, HeadersOf
    <3>3. d.strm.pos # 0
      BY <3>2, ScanFacts DEF Frames
    <3> QED
      BY <3>1, <3>3, StartsLater
  <2> HIDE DEF e
  <2>5. dec' = e
    BY <1>1, <2>1 DEF e
  <2>6. Post(pic)' = Post(pic) /\ (Sliced' <=> Sliced)
    BY <1>1, PostSame, SlicedSame
  <2>7. Loaded(dec)'
    BY <1>1, <2>1, <2>2, <2>3, <2>4, <2>5, <2>6 DEF Loaded, Prepared
  <2>8. e.height # 0 \/ e.pause => Sliced
    BY <2>1, <2>2 DEF Prepared, Sliced
  <2>9. Counted(dec)'
    BY <1>1, <2>1, <2>2, <2>5 DEF Prepared, Counted
  <2>10. Loaded(hw)' /\ hw'.strm.next = e.strm.next /\ hw'.comp = e.comp /\ hw'.op = e.op
         /\ (hw'.height = e.height)
    <3>1. CASE ~d.pause
      <4>1. hw' = dec'
        BY <1>1, <2>1, <3>1
      <4> QED
        BY <2>5, <2>7, <4>1 DEF Loaded
    <3>2. CASE d.pause
      <4> DEFINE g == [hw EXCEPT !.out = e.out, !.height = e.height]
      <4>1. hw \in Container
        BY DEF PictureInv, TypeOK
      <4>2. /\ g.frame = hw.frame /\ g.strm = hw.strm /\ g.op = hw.op /\ g.mode = hw.mode
            /\ g.comp = hw.comp /\ g.ri = hw.ri /\ g.right = hw.right
            /\ g.bottom = hw.bottom /\ g.post = hw.post /\ g.start = hw.start
            /\ g.out = e.out /\ g.height = e.height
        BY <4>1 DEF Container
      <4>3. hw' = g
        BY <1>1, <2>1, <2>5, <3>2
      <4> HIDE DEF g
      <4>4. e.out = n
        BY <2>3 DEF HeadersOf
      <4>5. Loaded(hw) /\ hw.strm.next = d.strm.next /\ hw.comp = d.comp /\ hw.op = d.op
        BY <2>1, <3>2 DEF Prepared
      <4>6. HeadersOf(g, pic, n, past)
        BY <4>2, <4>4, <4>5 DEF Loaded, HeadersOf, OwnInterval, RightOf, BottomOf
      <4>7. StartsAt(g, pic) /\ g.post = Post(pic)
        BY <4>2, <4>5 DEF Loaded, StartsAt
      <4> QED
        BY <1>1, <2>2, <2>6, <4>2, <4>3, <4>5, <4>6, <4>7 DEF Loaded
    <3> QED
      BY <3>1, <3>2
  <2>12. e.op = "nonInterleaved" => ~(e.strm.pos = 0 /\ hw'.start.bit = 0)
    BY <1>1, <2>1, <2>2, <2>5, <2>11
  <2> QED
    BY <1>1, <2>1, <2>2, <2>5, <2>6, <2>7, <2>8, <2>9, <2>10, <2>12 DEF Decoding, Prepared
<1> QED
  BY <1>1, <1>2, <1>3 DEF PictureInv, Undisturbed
LEMMA InitInv ==
    Init => PictureInv
<1> SUFFICES ASSUME Init
             PROVE  PictureInv
  OBVIOUS
<1>1. TypeOK
  BY InitType
<1>2. /\ at = "idle" /\ n = 0 /\ ret = "none" /\ dec = Cleared
  BY DEF Init
<1>3. /\ ~dec.header /\ ~dec.scanReady /\ ~dec.pause /\ dec.height = 0
      /\ ~dec.right /\ ~dec.bottom /\ dec.ri = 0 /\ ~dec.empty
      /\ dec.frame.is = NoPicture /\ hw.height = 0
  BY <1>2 DEF Cleared, Init
<1>4. ~Over(NoPicture.w) /\ ~Over(NoPicture.h)
  BY DEF Over, NoPicture
<1>5. Residue
  BY <1>2, <1>3, <1>4 DEF Residue, Leftovers
<1> QED
  BY <1>1, <1>2, <1>5 DEF PictureInv, Memory, ReadyIsComplete, GoodPictureReady

LEMMA OneFrameInv ==
    ASSUME PictureInv, TypeOK', Residue', NEW p \in Pictures, OneFrame(p)
    PROVE  PictureInv'
<1>1. /\ at = "idle" /\ n' = n + 1 /\ pic' = p /\ past' = LeftBehind /\ old' = dec.comps
      /\ done' = {} /\ pp' = pp
      /\ mem' = IF RoundUp(p.size, 256) + 4096 > mem THEN RoundUp(p.size, 256) + 4096
                ELSE mem
  BY DEF OneFrame
<1>2. dec \in Container /\ n \in Nat /\ mem \in Nat /\ p.size \in Nat
  BY FramesArePictures, PictureNumbers DEF PictureInv, TypeOK
<1>3. mem' >= RoundUp(p.size, 256) + 4096
  <2>1. RoundUp(p.size, 256) + 4096 \in Nat
    BY <1>2 DEF RoundUp
  <2> QED
    BY <1>1, <1>2, <2>1
<1>4. Memory'
  BY <1>1, <1>3 DEF Memory
<1>5. CASE Known(p)
  <2> DEFINE e == PostProcessor(ImageInfo(dec, p), p)
  <2>1. p \in Frames
    BY <1>5 DEF Frames
  <2>2. at' = "call" /\ ret' = "none" /\ dec' = e
    BY <1>5 DEF OneFrame
  <2>3. /\ e.header = dec.header /\ e.scanReady = dec.scanReady /\ e.pause = dec.pause
        /\ e.height = dec.height /\ e.right = dec.right /\ e.bottom = dec.bottom
        /\ e.comps = dec.comps /\ e.empty = dec.empty
        /\ e.op = FirstScan(p) /\ e.mode = p.sampling
        /\ e.ri = (IF p.ri THEN n + 1 ELSE dec.ri)
        /\ e.post = [of |-> n + 1, w |-> OutputWidth(p) \div 16,
                     h |-> OutputHeight(p) \div 16, format |-> p.sampling,
                     across |-> Scaling(OutputWidth(p), Width(p)),
                     down |-> Scaling(OutputHeight(p), Height(p)),
                     chroma |-> Width(p) * Height(p)]
    BY <1>2, <2>1, CallFields
  <2> HIDE DEF e
  <2>4. e.post = Post(p)'
    BY <1>1, <2>3 DEF Post, Width, Height
  <2>5. Post(pic)' = Post(p)'
    BY <1>1 DEF Post, Width, Height
  <2>6. ASSUME Undisturbed'
        PROVE  ~dec'.header /\ Opened'
    <3>1. /\ {"header", "scan", "slices", "refill"} \intersect LeftBehind = {}
          /\ "slices" \notin LeftBehind /\ "refill" \notin LeftBehind
      BY <1>1, <2>6 DEF Undisturbed
    <3>2. ~SlicesSeen /\ ~dec.empty
      BY <3>1, NamesLeft
    <3>3. /\ ~dec.header /\ ~dec.scanReady /\ ~dec.pause /\ dec.height = 0
          /\ dec.right => "right" \in LeftBehind
          /\ dec.bottom => "bottom" \in LeftBehind
          /\ dec.ri # 0 => "ri" \in LeftBehind
      BY <1>1, <3>1, <3>2, NamesLeft DEF PictureInv, Residue, Leftovers
    <3>4. Clean(dec, past)'
      BY <1>1, <2>2, <2>3, <3>2, <3>3 DEF Clean
    <3>5. OwnInterval(dec, pic, n, past)'
      BY <1>1, <2>2, <2>3, <3>3 DEF OwnInterval
    <3> QED
      BY <1>1, <2>2, <2>3, <2>4, <2>5, <3>3, <3>4, <3>5 DEF Opened
  <2>7. ReadyIsComplete' /\ GoodPictureReady'
    BY <2>2 DEF ReadyIsComplete, GoodPictureReady
  <2> QED
    BY <1>4, <2>2, <2>6, <2>7 DEF PictureInv
<1>6. CASE ~Known(p)
  <2>1. at' = "idle" /\ ret' = "refused"
    BY <1>1, <1>6 DEF OneFrame
  <2>2. ReadyIsComplete' /\ GoodPictureReady'
    BY <1>1, <1>6, <2>1 DEF ReadyIsComplete, GoodPictureReady, Decodable
  <2> QED
    BY <1>4, <2>1, <2>2 DEF PictureInv
<1> QED
  BY <1>5, <1>6

\* The stream of the call is in the container when there are no headers yet.
LEMMA StoredFields ==
    ASSUME dec \in Container, ~dec.scanReady
    PROVE  /\ Stored.strm = [of |-> n, next |-> 1, pos |-> 0]
           /\ Stored.strm.of = n /\ Stored.strm.next = 1
           /\ Carried(Stored, dec) /\ Stored.header = dec.header
           /\ Stored.frame = dec.frame /\ Stored.out = dec.out /\ Stored.op = dec.op
           /\ Stored.mode = dec.mode /\ Stored.comp = dec.comp /\ Stored.ri = dec.ri
           /\ Stored.right = dec.right /\ Stored.bottom = dec.bottom
           /\ Stored.start = dec.start
<1>1. Stored = [dec EXCEPT !.strm = [of |-> n, next |-> 1, pos |-> 0]]
  BY DEF Stored
<1> QED
  BY <1>1 DEF Container, Carried

LEMMA NotTooLarge ==
    ASSUME pic \in Frames
    PROVE  ~(SliceSet(pic) * InRow(pic) > JPEGDEC_MAX_SLICE_SIZE_8190)
<1> DEFINE x == SliceSet(pic) * InRow(pic)
<1>1. x <= 8100 /\ SliceSet(pic) \in Nat
  BY FramesArePictures, SliceSetFacts DEF Frames
<1>2. InRow(pic) \in Nat
  BY FramesArePictures, PictureNumbers, HwXFacts DEF Frames
<1>3. x \in Nat
  BY <1>1, <1>2
<1> HIDE DEF x
<1>4. ~(x > 8100)
  BY <1>1, <1>3
<1> QED
  BY <1>4 DEF x, JPEGDEC_MAX_SLICE_SIZE_8190

LEMMA RefuseInv ==
    ASSUME PictureInv, TypeOK', Residue', Refuse
    PROVE  PictureInv'
<1>1. /\ at = "call" /\ Unsupported /\ Return("refused", Stored) /\ UNCHANGED done
      /\ pic \in Frames /\ dec \in Container
  BY KnownFrame DEF Refuse, PictureInv, TypeOK
<1>2. ~(SliceSet(pic) * InRow(pic) > JPEGDEC_MAX_SLICE_SIZE_8190)
  BY <1>1, NotTooLarge
<1>3. ASSUME Undisturbed
      PROVE  Opened
  <2>1. ASSUME dec.header
        PROVE  dec.op = "baseline"
    BY <1>1, <1>3, <2>1 DEF PictureInv, Decoding
  <2>2. ~dec.header
    BY <1>1, <1>2, <2>1 DEF Unsupported
  <2> QED
    BY <1>1, <1>3, <2>2 DEF PictureInv
<1>4. Undisturbed => ~Decodable(pic)
  <2> SUFFICES ASSUME Undisturbed, Decodable(pic)
               PROVE  FALSE
    OBVIOUS
  <2>1. dec.op = FirstScan(pic) /\ pic.op = "baseline"
    BY <1>3 DEF Opened, Decodable
  <2>2. SliceSet(pic) # 0 /\ dec.op = "nonInterleaved"
    BY <1>1, <1>2, <2>1 DEF Unsupported, FirstScan
  <2> QED
    BY <2>1, <2>2 DEF Decodable, FirstScan
<1> QED
  BY <1>1, <1>4, ReturnInv

LEMMA FoundInv ==
    ASSUME PictureInv, TypeOK', Residue', at = "call", NEW d \in Container,
           NEW k \in 1 .. Len(pic.scans), Found(d, k), UNCHANGED done,
           Undisturbed =>
               IF Refused(d, d.frame.is, pic.scans[k]) THEN ~Decodable(pic)
               ELSE Prepared(AtScan(ScanHeader(d, pic.scans[k]), k, pic.ends[k]))
    PROVE  PictureInv'
<1>1. pic \in Frames /\ n \in Nat /\ pic \in Pictures \union {NoPicture}
  BY KnownFrame DEF PictureInv, TypeOK, Frames
<1>2. pic.scans[k] \in Components /\ pic.ends[k] \in Nat
  BY <1>1, ScanFacts
<1> DEFINE h == ScanHeader(d, pic.scans[k])
           e == AtScan(h, k, pic.ends[k])
<1>3. h \in Container
  BY <1>1, <1>2, ScanHeaderContainer
<1>4. k \in Nat \ {0}
  <2>1. Len(pic.scans) \in Nat
    BY <1>1, FramesArePictures DEF IsPicture
  <2> QED
    BY <2>1
<1>5. CASE Refused(d, d.frame.is, pic.scans[k])
  <2>1. Return("header", h)
    BY <1>5 DEF Found
  <2>2. Undisturbed => ~Decodable(pic)
    BY <1>5
  <2> HIDE DEF h
  <2> QED
    BY <2>1, <2>2, ReturnInv
<1>6. CASE ~Refused(d, d.frame.is, pic.scans[k])
  <2>1. Start(e) /\ (Undisturbed => Prepared(e))
    BY <1>6 DEF Found, AtScan
  <2>2. e \in Container
    <3> HIDE DEF h
    <3> QED
      BY <1>2, <1>3, <1>4, AtScanContainer DEF AtScan
  <2> HIDE DEF e
  <2> QED
    BY <1>1, <2>1, <2>2, StartInv
<1> QED
  BY <1>5, <1>6

\* The first scan of a decodable picture is not refused.
LEMMA FirstNotRefused ==
    ASSUME pic \in Frames, Decodable(pic), NEW d, d.mode = pic.sampling
    PROVE  ~Refused(d, pic, pic.scans[1])
BY DEF Decodable, Refused

LEMMA PassedNone ==
    ASSUME NEW p
    PROVE  Passed(p, 1) = {}
BY DEF Passed

LEMMA ReadHeadersInv ==
    ASSUME PictureInv, TypeOK', Residue', ReadHeaders
    PROVE  PictureInv'
<1>1. /\ at = "call" /\ ~Unsupported /\ UNCHANGED done
      /\ pic \in Frames /\ dec \in Container /\ n \in Nat
  BY KnownFrame DEF ReadHeaders, PictureInv, TypeOK
<1>2. Stored \in Container
  BY <1>1, StoredContainer
<1>3. ASSUME Undisturbed
      PROVE  ~dec.scanReady /\ Stored.strm.of = n /\ Stored.strm.next = 1
             /\ Carried(Stored, dec) /\ Stored.header = dec.header
             /\ Stored.frame = dec.frame /\ Stored.out = dec.out /\ Stored.op = dec.op
             /\ Stored.mode = dec.mode /\ Stored.comp = dec.comp /\ Stored.ri = dec.ri
             /\ Stored.right = dec.right /\ Stored.bottom = dec.bottom
             /\ Stored.start = dec.start
  <2>1. ~dec.scanReady
    BY <1>1, <1>3 DEF PictureInv, Decoding, Opened, Clean
  <2> QED
    BY <1>1, <2>1, StoredFields
<1>4. CASE Stored.header /\ Start(Stored)
  <2>1. Undisturbed => Prepared(Stored)
    <3> SUFFICES ASSUME Undisturbed
                 PROVE  Prepared(Stored)
      OBVIOUS
    <3>1. dec.header
      BY <1>3, <1>4
    <3>2. Decoding /\ dec.pause
      BY <1>1, <3>1 DEF PictureInv
    <3>3. dec.op = "baseline" /\ dec.strm.next = 1
      BY <3>2 DEF Decoding, Loaded, HeadersOf
    <3>4. HeadersOf(Stored, pic, n, past)
      BY <1>3, <3>2, <3>3
         DEF Decoding, Loaded, HeadersOf, OwnInterval, RightOf, BottomOf
    <3>5. StartsAt(Stored, pic) /\ Stored.post = Post(pic)
      BY <1>3, <3>2, <3>3 DEF Decoding, Loaded, StartsAt, Carried
    <3>6. Counted(Stored)
      BY <1>3, <3>2, <3>3 DEF Decoding, Counted, Carried
    <3>7. Stored.pause /\ ~Stored.scanReady /\ Stored.height = dec.height /\ ~Stored.empty
      BY <1>3, <3>2 DEF Carried, Decoding
    <3> QED
      BY <1>3, <1>4, <3>2, <3>3, <3>4, <3>5, <3>6, <3>7 DEF Decoding, Prepared
  <2> QED
    BY <1>1, <1>2, <1>4, <2>1, StartInv
<1>5. CASE ~Stored.header /\ Found(FrameHeader(Stored), 1)
  <2> DEFINE f == FrameHeader(Stored)
             e == AtScan(ScanHeader(f, pic.scans[1]), 1, pic.ends[1])
  <2>1. f \in Container /\ f.frame.is = pic /\ f.mode = pic.sampling
    BY <1>1, <1>2, FrameHeaderContainer, FrameHeaderFields
  <2>2. 1 \in 1 .. Len(pic.scans)
    <3>1. Len(pic.scans) \in Nat /\ Len(pic.scans) > 0
      BY <1>1, FramesArePictures DEF Frames, IsPicture
    <3> QED
      BY <3>1
  <2>3. Refused(f, f.frame.is, pic.scans[1]) => ~Decodable(pic)
    BY <1>1, <2>1, FirstNotRefused
  <2>4. ASSUME Undisturbed, ~Refused(f, f.frame.is, pic.scans[1])
        PROVE  Prepared(e)
    <3>1. Opened /\ Clean(dec, past)
      BY <1>1, <1>3, <1>5, <2>4 DEF PictureInv, Opened
    <3>2. pic.op = "baseline"
      <4>1. FirstScan(pic) # "progressive"
        BY <1>1, <3>1 DEF Opened, Unsupported
      <4>2. pic.op \in {"baseline", "progressive"}
        BY <1>1, FramesArePictures DEF Frames, IsPicture
      <4> QED
        BY <4>1, <4>2 DEF FirstScan
    <3>3. OwnInterval(Stored, pic, n, past)
      BY <1>3, <2>4, <3>1 DEF Opened, OwnInterval
    <3>4. (Stored.right => "right" \in past) /\ (Stored.bottom => "bottom" \in past)
      BY <1>3, <2>4, <3>1 DEF Clean
    <3>5. ~Refused(f, pic, pic.scans[1])
      BY <2>1, <2>4
    <3>6. /\ e \in Container /\ HeadersOf(e, pic, n, past) /\ Carried(e, Stored)
          /\ e.header /\ e.strm.next = 1 /\ e.strm.pos = pic.ends[1]
      BY <1>1, <1>2, <1>3, <2>4, <3>2, <3>3, <3>4, <3>5, FirstHeaders, Zenon DEF AtScan
    <3> HIDE DEF e
    <3>7. /\ ~e.scanReady /\ ~e.pause /\ e.height = 0 /\ e.post = Post(pic)
          /\ e.comps = dec.comps /\ ~e.empty
      BY <1>3, <2>4, <3>1, <3>6 DEF Opened, Clean, Carried
    <3>8. Counted(e) /\ done = {}
      BY <3>1, <3>6, <3>7, PassedNone DEF Counted, Opened, Clean
    <3>9. Sliced => e.op = "baseline"
      BY <1>1, <3>1, <3>6 DEF Sliced, Unsupported, Opened, HeadersOf
    <3> QED
      BY <3>2, <3>6, <3>7, <3>8, <3>9 DEF Prepared
  <2> HIDE DEF f
  <2>5. Found(f, 1)
    BY <1>5 DEF f
  <2> QED
    BY <1>1, <2>1, <2>2, <2>3, <2>4, <2>5, FoundInv
<1>6. CASE ~Undisturbed /\ ((\E k \in 1 .. Len(pic.scans) : Found(Stored, k))
                            \/ Return("error", Stored))
  BY <1>1, <1>2, <1>6, FoundInv, ReturnInv
<1>7. \/ Stored.header /\ Start(Stored)
      \/ ~Stored.header /\ Found(FrameHeader(Stored), 1)
      \/ Stored.strm.of # n /\ ((\E k \in 1 .. Len(pic.scans) : Found(Stored, k))
                                \/ Return("error", Stored))
  BY Zenon DEF ReadHeaders
<1> QED
  BY <1>3, <1>4, <1>5, <1>6, <1>7
LEMMA FailureInv ==
    ASSUME PictureInv, TypeOK', Residue', WaitFails \/ BusError \/ StreamError
    PROVE  PictureInv'
<1>1. PICK how \in {"system", "bus", "stream", "shown"}, d \in {dec, Reset(dec)} : Return(how, d)
  BY DEF WaitFails, BusError, StreamError
<1> QED
  BY <1>1, ReturnInv

\* The call after it is disturbed.
LEMMA BufferEmptyInv ==
    ASSUME PictureInv, TypeOK', Residue', BufferEmpty
    PROVE  PictureInv'
<1>1. /\ at = "wait" /\ at' = "call" /\ mem' = mem /\ pic' = pic
      /\ past' = past \union {"refill"}
  BY DEF BufferEmpty
<1>2. ~Undisturbed'
  BY <1>1 DEF Undisturbed
<1>3. Memory' /\ ReadyIsComplete' /\ GoodPictureReady'
  BY <1>1 DEF PictureInv, Memory, ReadyIsComplete, GoodPictureReady
<1> QED
  BY <1>1, <1>2, <1>3 DEF PictureInv

LEMMA SliceReadyInv ==
    ASSUME PictureInv, TypeOK', Residue', SliceReady
    PROVE  PictureInv'
<1>1. /\ at = "wait" /\ ~AllRows /\ dec' = [dec EXCEPT !.pause = Pause]
      /\ at' = "call" /\ pp' = pp /\ n' = n /\ pic' = pic /\ past' = past /\ mem' = mem
      /\ hw' = hw /\ done' = done /\ old' = old
      /\ dec \in Container
  BY DEF SliceReady, input, PictureInv, TypeOK
<1>2. Memory' /\ ReadyIsComplete' /\ GoodPictureReady'
  BY <1>1 DEF PictureInv, Memory, ReadyIsComplete, GoodPictureReady
<1>3. ASSUME Undisturbed
      PROVE  dec'.header /\ Decoding' /\ dec'.pause
  <2>1. Decoding
    BY <1>1, <1>3 DEF PictureInv
  <2>2. Sliced
    BY <1>1, <2>1 DEF AllRows, Decoding
  <2> DEFINE e == [dec EXCEPT !.pause = Pause]
  <2>3. /\ e.header = dec.header /\ e.scanReady = dec.scanReady /\ e.pause = Pause
        /\ e.height = dec.height /\ e.comps = dec.comps /\ e.post = dec.post
        /\ e.strm = dec.strm /\ e.start = dec.start /\ e.frame = dec.frame
        /\ e.out = dec.out /\ e.op = dec.op /\ e.mode = dec.mode /\ e.comp = dec.comp
        /\ e.ri = dec.ri /\ e.right = dec.right /\ e.bottom = dec.bottom
        /\ e.empty = dec.empty
    BY <1>1 DEF Container
  <2> HIDE DEF e
  <2>4. dec' = e
    BY <1>1 DEF e
  <2>5. e.pause
    BY <2>2, <2>3 DEF Pause, Sliced
  <2>6. HeadersOf(e, pic, n, past) /\ StartsAt(e, pic)
    BY <2>1, <2>3 DEF Decoding, Loaded, HeadersOf, StartsAt, OwnInterval, RightOf, BottomOf
  <2>7. Post(pic)' = Post(pic) /\ (Sliced' <=> Sliced)
    BY <1>1, PostSame, SlicedSame
  <2>8. Loaded(dec)' /\ Loaded(hw)'
    BY <1>1, <2>1, <2>3, <2>4, <2>6, <2>7 DEF Decoding, Loaded
  <2>9. Counted(dec)'
    BY <1>1, <2>1, <2>3, <2>4 DEF Decoding, Counted
  <2> QED
    BY <1>1, <2>1, <2>2, <2>3, <2>4, <2>5, <2>7, <2>8, <2>9 DEF Decoding
<1> QED
  BY <1>1, <1>2, <1>3 DEF PictureInv, Undisturbed

LEMMA FrameReadyInv ==
    ASSUME PictureInv, TypeOK', Residue', FrameReady
    PROVE  PictureInv'
<1>1. /\ at = "wait" /\ Return("frame", Reset(dec))
      /\ done' = IF hw.frame.of = n /\ hw.strm.of = n THEN All ELSE done
      /\ old \subseteq All
  BY DEF FrameReady, PictureInv, TypeOK
<1>2. Undisturbed => done' \union old = All
  <2> SUFFICES ASSUME Undisturbed
               PROVE  hw.frame.of = n /\ hw.strm.of = n
    BY <1>1
  <2> QED
    BY <1>1 DEF PictureInv, Decoding, Loaded, HeadersOf
<1> QED
  BY <1>1, <1>2, ReturnInv

LEMMA PassedOneMore ==
    ASSUME NEW p, NEW k \in Nat
    PROVE  Passed(p, k + 1) \subseteq Passed(p, k) \union p.scans[k]
<1> SUFFICES ASSUME NEW x \in Passed(p, k + 1)
             PROVE  x \in Passed(p, k) \union p.scans[k]
  OBVIOUS
<1>1. PICK i \in 1 .. (k + 1) - 1 : x \in p.scans[i]
  BY DEF Passed
<1>2. i = k \/ i \in 1 .. k - 1
  BY <1>1
<1> QED
  BY <1>1, <1>2 DEF Passed

LEMMA ScanReadyInv ==
    ASSUME PictureInv, TypeOK', Residue', ScanReady
    PROVE  PictureInv'
<1>1. /\ at = "wait" /\ dec.op = "nonInterleaved"
      /\ done' = IF hw.frame.of = n /\ hw.strm.of = n THEN done \union {hw.comp} ELSE done
      /\ dec \in Container /\ dec.strm.next \in Nat \ {0} /\ dec.comp \in All
      /\ pic \in Pictures \union {NoPicture}
  BY FieldsOfContainer DEF ScanReady, PictureInv, TypeOK
<1>2. PICK k \in NextPositions(dec) : AfterScan(k)
  BY DEF ScanReady
<1> DEFINE more == k <= Len(pic.scans)
           d == [dec EXCEPT !.comps = @ \union {dec.comp}, !.count = 0,
                            !.pause = FALSE, !.scanReady = @ \/ more, !.strm.next = k]
<1>3. \/ at' = "next" /\ dec' = d /\ UNCHANGED <<pp, input, ret, hw, rows>>
         /\ (more \/ ~Complete(d.comps))
      \/ Return("frame", Reset(d)) /\ Complete(d.comps)
      \/ at' = "empty" /\ dec' = Reset(d) /\ UNCHANGED <<pp, input, ret, hw, rows>>
  BY <1>2, Zenon DEF AfterScan
<1> HIDE DEF more
<1>4. /\ d.scanReady = (dec.scanReady \/ more) /\ ~d.pause
      /\ d.height = dec.height /\ d.comps = dec.comps \union {dec.comp}
      /\ d.post = dec.post /\ d.strm.of = dec.strm.of /\ d.strm.next = k
      /\ d.frame = dec.frame /\ d.op = dec.op /\ d.mode = dec.mode /\ d.ri = dec.ri
      /\ d.right = dec.right /\ d.bottom = dec.bottom /\ d.empty = dec.empty
  BY <1>1, AfterScanFields, SMTT(30)
<1>5. k \in Nat \ {0} /\ Len(pic.scans) \in Nat
  BY <1>1, <1>2, PositionsOfScans, FramesArePictures DEF IsPicture
<1> HIDE DEF d
<1>6. ASSUME Undisturbed
      PROVE  /\ Decoding /\ k = dec.strm.next + 1
             /\ d.comps = done' \union old
             /\ Passed(pic, d.strm.next) \subseteq d.comps
             /\ FirstScan(pic) = "nonInterleaved" /\ pic.op = "baseline" /\ ~Sliced
             /\ dec.height = 0 /\ ~dec.scanReady /\ ~dec.empty
             /\ OwnInterval(dec, pic, n, past)
             /\ dec.right => Over(pic.w) \/ "right" \in past
             /\ dec.bottom => Over(pic.h) \/ "bottom" \in past
             /\ dec.strm.next \in 1 .. Len(pic.scans)
  <2>1. Decoding
    BY <1>1, <1>6 DEF PictureInv
  <2>2. hw.frame.of = n /\ hw.strm.of = n /\ hw.comp = dec.comp
    BY <2>1 DEF Decoding, Loaded, HeadersOf
  <2>3. d.comps = done' \union old
    BY <1>1, <1>4, <2>1, <2>2 DEF Decoding, Counted
  <2>4. k = dec.strm.next + 1
    BY <1>1, <1>2, <2>1 DEF NextPositions, NextPosition, Decoding
  <2>5. pic.scans[dec.strm.next] = {dec.comp} /\ Passed(pic, dec.strm.next) \subseteq dec.comps
    BY <1>1, <2>1 DEF Decoding, Loaded, HeadersOf, Counted
  <2>6. Passed(pic, d.strm.next) \subseteq d.comps
    BY <1>1, <1>4, <2>4, <2>5, PassedOneMore
  <2>7. /\ FirstScan(pic) = "nonInterleaved" /\ pic.op = "baseline"
        /\ ~Sliced /\ dec.height = 0 /\ ~dec.scanReady /\ ~dec.empty
        /\ OwnInterval(dec, pic, n, past) /\ dec.strm.next \in 1 .. Len(pic.scans)
    BY <1>1, <2>1 DEF Decoding, Loaded, HeadersOf
  <2>8. (dec.right => Over(pic.w) \/ "right" \in past)
        /\ (dec.bottom => Over(pic.h) \/ "bottom" \in past)
    BY <2>1 DEF Decoding, Loaded, HeadersOf, RightOf, BottomOf
  <2> QED
    BY <2>1, <2>3, <2>4, <2>6, <2>7, <2>8
<1>7. CASE at' = "next" /\ dec' = d /\ UNCHANGED <<pp, input, ret, hw, rows>>
           /\ (more \/ ~Complete(d.comps))
  <2>1. Memory' /\ ReadyIsComplete' /\ GoodPictureReady'
    BY <1>1, <1>7 DEF PictureInv, Memory, ReadyIsComplete, GoodPictureReady, input
  <2>2. ASSUME Undisturbed
        PROVE  Between'
    <3>1. Post(pic)' = Post(pic) /\ (Sliced' <=> Sliced)
      BY <1>7, PostSame, SlicedSame DEF input
    <3>2. pic' = pic /\ n' = n /\ past' = past /\ old' = old /\ pp' = pp /\ dec' = d
      BY <1>7 DEF input
    <3>3. Decoding /\ dec.frame = [of |-> n, is |-> pic] /\ dec.strm.of = n
          /\ dec.post = Post(pic) /\ dec.mode = "400"
      BY <1>1, <1>6, <2>2 DEF Decoding, Loaded, HeadersOf
    <3>4. d.strm.next > 1 /\ d.strm.next <= Len(pic.scans) + 1
      <4>1. dec.strm.next >= 1 /\ dec.strm.next <= Len(pic.scans)
        BY <1>1, <1>5, <1>6, <2>2
      <4> QED
        BY <1>1, <1>4, <1>5, <1>6, <2>2, <4>1
    <3>5. /\ d.scanReady => d.strm.next <= Len(pic.scans)
          /\ d.strm.next > Len(pic.scans) => d.comps # All
      <4>1. ~more => d.comps # All
        BY <1>7 DEF Complete
      <4>2. d.scanReady => more
        BY <1>4, <1>6, <2>2
      <4> QED
        BY <1>4, <1>5, <4>1, <4>2 DEF more
    <3>6. Counted(dec)' /\ OwnInterval(d, pic, n, past)
      BY <1>4, <1>6, <2>2, <3>2 DEF Counted, OwnInterval
    <3> QED
      BY <1>1, <1>4, <1>6, <2>2, <3>1, <3>2, <3>3, <3>4, <3>5, <3>6
         DEF Between, Counted
  <2> QED
    BY <1>7, <2>1, <2>2 DEF PictureInv, Undisturbed, input
<1>8. CASE Return("frame", Reset(d)) /\ Complete(d.comps)
  <2> DEFINE e == Reset(d)
  <2>1. Return("frame", e) /\ (Undisturbed => done' \union old = All)
    BY <1>6, <1>8 DEF Complete
  <2> HIDE DEF e
  <2> QED
    BY <2>1, ReturnInv
<1>9. CASE at' = "empty" /\ dec' = Reset(d) /\ UNCHANGED <<pp, input, ret, hw, rows>>
  BY <1>9 DEF PictureInv, Memory, ReadyIsComplete, GoodPictureReady
<1> QED
  BY <1>3, <1>7, <1>8, <1>9
\* All the scans of a decodable picture together have all components.
LEMMA AllPassed ==
    ASSUME pic \in Frames, Decodable(pic), FirstScan(pic) = "nonInterleaved",
           NEW k \in Nat, k > Len(pic.scans)
    PROVE  All \subseteq Passed(pic, k)
<1>1. Len(pic.scans) \in Nat
  BY FramesArePictures DEF Frames, IsPicture
<1>2. UNION {pic.scans[i] : i \in 1 .. Len(pic.scans)} = All
  BY DEF Decodable, FirstScan
<1>3. 1 .. Len(pic.scans) \subseteq 1 .. k - 1
  BY <1>1
<1> QED
  BY <1>2, <1>3 DEF Passed

LEMMA NextScanInv ==
    ASSUME PictureInv, TypeOK', Residue', NextScan
    PROVE  PictureInv'
<1> DEFINE d == Reset(dec)
           k == d.strm.next
           s == pic.scans[k]
           f == AtPosition(d, pic.ends[k])
           e == ScanHeader(f, s)
<1>1. /\ at = "next" /\ UNCHANGED done /\ dec \in Container /\ n \in Nat
      /\ pic \in Frames /\ pic \in Pictures \union {NoPicture} /\ dec.comps \subseteq All
  BY KnownFrame, FieldsOfContainer DEF NextScan, PictureInv, TypeOK, Frames
<1>2. /\ d \in Container /\ ~d.header /\ Carried(d, dec) /\ d.strm = dec.strm
      /\ d.frame = dec.frame /\ d.op = dec.op /\ d.mode = dec.mode /\ d.ri = dec.ri
      /\ d.right = dec.right /\ d.bottom = dec.bottom /\ d.strm.next \in Nat \ {0}
  BY <1>1, ResetContainer, ResetFields, FieldsOfContainer
<1>3. Len(pic.scans) \in Nat
  BY <1>1, FramesArePictures DEF IsPicture
<1>4. \/ k > Len(pic.scans) /\ Return("error", d)
      \/ /\ ~(k > Len(pic.scans)) /\ Refused(d, d.frame.is, s)
         /\ Return("next", ScanHeader(d, s))
      \/ /\ ~(k > Len(pic.scans)) /\ ~Refused(d, d.frame.is, s)
         /\ Start(e)
  BY Zenon DEF NextScan, AtPosition
<1> HIDE DEF d
<1>5. k \in Nat \ {0} /\ (~(k > Len(pic.scans)) => k \in 1 .. Len(pic.scans))
  <2>1. k \in Nat \ {0}
    BY <1>2
  <2> HIDE DEF k
  <2> QED
    BY <1>3, <2>1
<1>6. ASSUME Undisturbed
      PROVE  /\ Between /\ k > 1 /\ k = dec.strm.next /\ d.frame.is = pic
  <2>1. Between /\ k = dec.strm.next
    BY <1>1, <1>2, <1>6 DEF PictureInv
  <2> QED
    BY <1>2, <2>1 DEF Between
<1>7. CASE k > Len(pic.scans) /\ Return("error", d)
  <2>2. ASSUME Undisturbed, Decodable(pic)
        PROVE  FALSE
    <3>1. Between /\ k = dec.strm.next
      BY <1>6, <2>2
    <3>2. dec.comps # All
      BY <1>7, <3>1 DEF Between
    <3> HIDE DEF k
    <3>3. All \subseteq Passed(pic, k)
      BY <1>1, <1>5, <1>7, <2>2, <3>1, AllPassed DEF Between
    <3>4. All \subseteq dec.comps
      BY <3>1, <3>3 DEF Between, Counted
    <3> QED
      BY <1>1, <3>2, <3>4
  <2> QED
    BY <1>7, <2>2, ReturnInv
<1>8. CASE ~(k > Len(pic.scans)) /\ Refused(d, d.frame.is, s) /\ Return("next", ScanHeader(d, s))
  <2>1. ASSUME Undisturbed, Decodable(pic)
        PROVE  FALSE
    <3>1. Between /\ d.frame.is = pic
      BY <1>6, <2>1
    <3>2. d.mode = "400" /\ pic.good /\ pic.sampling \notin {"444", "411"}
      BY <1>2, <2>1, <3>1 DEF Between, Decodable, FirstScan
    <3> QED
      BY <1>8, <3>1, <3>2 DEF Refused
  <2> DEFINE g == ScanHeader(d, s)
  <2> HIDE DEF g
  <2>2. Return("next", g)
    BY <1>8 DEF g
  <2> QED
    BY <2>1, <2>2, ReturnInv
<1>9. CASE ~(k > Len(pic.scans)) /\ ~Refused(d, d.frame.is, s) /\ Start(e)
  <2>1. k \in 1 .. Len(pic.scans)
    BY <1>5, <1>9
  <2>2. s \in Components /\ pic.ends[k] \in Nat
    <3> HIDE DEF k
    <3> QED
      BY <1>1, <2>1, ScanFacts
  <2>3. f \in Container
    BY <1>2, <1>5, <2>2, AtScanContainer DEF AtPosition
  <2>4. e \in Container
    <3> HIDE DEF f, s
    <3> QED
      BY <1>1, <2>2, <2>3, ScanHeaderContainer
  <2>5. ASSUME Undisturbed
        PROVE  Prepared(e)
    <3>1. Between /\ k > 1 /\ k = dec.strm.next /\ d.frame.is = pic
      BY <1>6, <2>5
    <3>2. /\ pic.op = "baseline" /\ FirstScan(pic) = "nonInterleaved"
          /\ d.frame = [of |-> n, is |-> pic] /\ d.strm.of = n
          /\ d.op = "nonInterleaved" /\ d.mode = "400" /\ OwnInterval(d, pic, n, past)
          /\ d.strm.next = k
      BY <1>2, <3>1 DEF Between, OwnInterval
    <3>3. ~Refused(d, pic, s)
      BY <1>9, <3>1
    <3> HIDE DEF k
    <3>4. /\ HeadersOf(e, pic, n, past) /\ Carried(e, d)
          /\ e.header /\ e.strm.next = k /\ e.strm.pos = pic.ends[k]
          /\ e.op = "nonInterleaved"
      BY <1>1, <1>2, <2>1, <3>1, <3>2, <3>3, NextHeaders
    <3> HIDE DEF e
    <3>5. /\ ~e.pause /\ e.height = 0 /\ e.post = Post(pic) /\ e.comps = dec.comps
          /\ e.scanReady = dec.scanReady /\ ~e.empty
      BY <1>2, <3>1, <3>4 DEF Between, Carried
    <3>6. Counted(e)
      BY <3>1, <3>4, <3>5 DEF Between, Counted
    <3> QED
      BY <3>1, <3>2, <3>4, <3>5, <3>6 DEF Between, Prepared
  <2> HIDE DEF e
  <2> QED
    BY <1>1, <1>9, <2>4, <2>5, StartInv
<1> QED
  BY <1>4, <1>7, <1>8, <1>9
LEMMA NextInv ==
    PictureInv /\ [Next]_vars => PictureInv'
<1> SUFFICES ASSUME PictureInv, [Next]_vars
             PROVE  PictureInv'
  OBVIOUS
<1>1. TypeOK' /\ Residue'
  BY NextType, NextResidue DEF PictureInv
<1>2. ASSUME NEW p \in Pictures, OneFrame(p)
      PROVE  PictureInv'
  BY <1>1, <1>2, OneFrameInv
<1>3. CASE Running
  <2>1. CASE EmptyScan
    BY <1>1, <2>1
       DEF EmptyScan, PictureInv, Memory, ReadyIsComplete, GoodPictureReady
  <2> QED
    BY <1>1, <1>3, <2>1, RefuseInv, ReadHeadersInv, NextScanInv DEF Running
<1>4. CASE Answer
  <2>1. CASE ScanFaults
    BY <1>1, <2>1
       DEF ScanFaults, PictureInv, Memory, ReadyIsComplete, GoodPictureReady
  <2> QED
    BY <1>1, <1>4, <2>1, FailureInv, BufferEmptyInv, SliceReadyInv, FrameReadyInv, ScanReadyInv
       DEF Answer
<1>5. CASE UNCHANGED vars
  <2>1. /\ pp' = pp /\ n' = n /\ pic' = pic /\ ret' = ret /\ mem' = mem /\ past' = past
        /\ old' = old /\ at' = at /\ dec' = dec /\ hw' = hw /\ rows' = rows /\ done' = done
    BY <1>5 DEF vars
  <2>2. Post(pic)' = Post(pic) /\ (Sliced' <=> Sliced)
    BY <2>1, PostSame, SlicedSame
  <2>3. Memory' /\ ReadyIsComplete' /\ GoodPictureReady'
    BY <2>1 DEF PictureInv, Memory, ReadyIsComplete, GoodPictureReady, Undisturbed
  <2>4. (Opened => Opened') /\ (Between => Between')
    BY <2>1, <2>2 DEF Opened, Between, Counted
  <2>5. Decoding => Decoding'
    BY <2>1, <2>2 DEF Decoding, Loaded, Counted
  <2> QED
    BY <1>1, <2>1, <2>3, <2>4, <2>5 DEF PictureInv, Undisturbed
<1> QED
  BY <1>2, <1>3, <1>4, <1>5 DEF Next

\* Each call of JpegDecDecode finds the container as PictureInv says, and
\* leaves it so.
THEOREM PicturesFollow == Spec => []PictureInv
<1> QED
  BY InitInv, NextInv, PTL DEF Spec

\* A call that finds no header, scan or slice flag set before it
\* (Undisturbed) has the hardware work on its own stream, headers, sampling and
\* buffer, however often and in whatever way the calls before it ended; restart
\* interval and fill flags are its own unless an earlier picture had them.
THEOREM DecodesOwnPicture == Spec => []OwnPicture
<1>1. PictureInv => OwnPicture
  <2> SUFFICES ASSUME PictureInv, at = "wait", Undisturbed
               PROVE  /\ hw.frame.of = n /\ hw.strm.of = n /\ hw.out = n
                      /\ hw.mode = IF hw.op = "nonInterleaved" THEN "400" ELSE pic.sampling
                      /\ hw.ri = (IF pic.ri THEN n ELSE 0) \/ "ri" \in past
                      /\ hw.right = OwnRight \/ "right" \in past
                      /\ hw.bottom = OwnBottom \/ "bottom" \in past
    BY DEF OwnPicture
  <2>1. HeadersOf(hw, pic, n, past)
    BY DEF PictureInv, Decoding, Loaded
  <2> QED
    BY <2>1 DEF HeadersOf, OwnInterval, RightOf, BottomOf, OwnRight, OwnBottom
<1> QED
  BY <1>1, PicturesFollow, PTL

\* A decodable picture whose call finds no such flag is given back as ready if
\* the hardware does not fail on it: JpegDecDecode refuses none of its headers
\* and comes to no early end among its scans.
THEOREM GoodPicturesReady == Spec => []GoodPictureReady
<1>1. PictureInv => GoodPictureReady
  BY DEF PictureInv
<1> QED
  BY <1>1, PicturesFollow, PTL

-----------------------------------------------------------------------------
(***************************************************************************)
(* The buffers.                                                            *)
(***************************************************************************)

\* The size the client is told is a multiple of sixteen, the padded size of
\* the hardware; the client pads it no further.
LEMMA ToldSizes ==
    ASSUME NEW p \in Frames, pp \in BOOLEAN
    PROVE  \E a, b \in Nat :
               /\ OutputWidth(p) = 16 * a /\ HwX(p) = 16 * a /\ Width(p) = 16 * a
               /\ OutputHeight(p) = 16 * b /\ HwY(p) = 16 * b /\ Height(p) = 16 * b
<1>1. p.w \in Nat /\ p.h \in Nat
  BY FramesArePictures, PictureNumbers DEF Frames
<1>2. \E b \in Nat : OutputHeight(p) = 16 * b /\ HwY(p) = 16 * b
  BY <1>1, Rounding16 DEF OutputHeight, HwY
<1>3. \E a \in Nat : OutputWidth(p) = 16 * a /\ HwX(p) = 16 * a
  <2>1. CASE p.sampling # "411"
    BY <1>1, <2>1, Rounding16 DEF OutputWidth, HwX
  <2>2. CASE p.sampling = "411"
    <3>1. PICK a \in Nat : RoundUp(p.w, 16) = 16 * a /\ p.w <= 16 * a /\ 16 * a <= p.w + 15
      BY <1>1, Rounding16
    <3>2. PICK c \in Nat : RoundUp(p.w, 32) = 32 * c /\ p.w <= 32 * c /\ 32 * c <= p.w + 31
      BY <1>1, Rounding32
    <3>3. HwX(p) = 16 * (2 * c)
      BY <2>2, <3>2 DEF HwX
    <3>4. CASE (16 * a) % 32 # 0
      <4>1. OutputWidth(p) = 16 * (a + 1)
        BY <2>2, <3>1, <3>4 DEF OutputWidth
      <4>2. a + 1 = 2 * c
        BY <1>1, <3>1, <3>2, <3>4
      <4> QED
        BY <3>3, <4>1, <4>2
    <3>5. CASE (16 * a) % 32 = 0
      <4>1. OutputWidth(p) = 16 * a
        BY <2>2, <3>1, <3>5 DEF OutputWidth
      <4>2. a = 2 * c
        BY <1>1, <3>1, <3>2, <3>5
      <4> QED
        BY <3>3, <4>1, <4>2
    <3> QED
      BY <3>4, <3>5
  <2> QED
    BY <2>1, <2>2
<1>4. \A a \in Nat : RoundUp(16 * a, 16) = 16 * a /\ RoundUp(16 * a, 8) = 16 * a
                     /\ RoundUp(16 * a, 2) = 16 * a
  BY DEF RoundUp
<1> QED
  BY <1>2, <1>3, <1>4 DEF Width, Height
LEMMA Halves ==
    ASSUME NEW y \in Nat, NEW z, z = 2 * y, NEW m \in Nat
    PROVE  2 * ((z * m) \div 2) = z * m
<1> DEFINE q == y * m
<1>1. q \in Nat /\ z * m = 2 * q
  OBVIOUS
<1> HIDE DEF q
<1>2. (2 * q) \div 2 = q
  BY <1>1
<1> QED
  BY <1>1, <1>2

LEMMA Fits ==
    ASSUME PictureInv, at = "wait", Undisturbed
    PROVE  BufferFits
<1>1. pic \in Frames /\ pp \in BOOLEAN
  BY KnownFrame DEF PictureInv, TypeOK
<1>2. PICK a \in Nat, b \in Nat :
          /\ OutputWidth(pic) = 16 * a /\ HwX(pic) = 16 * a /\ Width(pic) = 16 * a
          /\ OutputHeight(pic) = 16 * b /\ HwY(pic) = 16 * b /\ Height(pic) = 16 * b
  BY <1>1, ToldSizes
<1>3. Loaded(hw)
  BY DEF PictureInv, Decoding
<1>4. hw.post = Post(pic) /\ hw.frame.is = pic /\ hw.frame.of = n
      /\ (hw.op = "baseline" => hw.mode = pic.sampling)
  BY <1>3 DEF Loaded, HeadersOf
<1> DEFINE z == Width(pic) * Height(pic)
           y == 128 * (a * b)
<1>5. y \in Nat /\ z = 2 * y /\ z \in Nat
  BY <1>2
<1>6. HalfBytes(pic.sampling) \in Nat
  BY <1>1 DEF HalfBytes, Frames, Known, Samplings
<1> HIDE DEF z, y
<1>7. z * (IF pp THEN 3 ELSE HalfBytes(pic.sampling)) <= 2 * Allocated(pic)
  <2>1. CASE pp
    <3>1. Allocated(pic) = (z * 4) \div 2
      BY <2>1 DEF Allocated, z
    <3> QED
      BY <1>5, <2>1, <3>1
  <2>2. CASE ~pp
    <3> DEFINE m == HalfBytes(pic.sampling)
    <3>1. Allocated(pic) = (z * m) \div 2
      BY <2>2 DEF Allocated, z
    <3> HIDE DEF m
    <3>2. 2 * ((z * m) \div 2) = z * m
      BY <1>5, <1>6, Halves DEF m
    <3>3. z * m \in Nat
      BY <1>5, <1>6 DEF m
    <3> QED
      BY <2>2, <3>1, <3>2, <3>3 DEF m
  <2> QED
    BY <2>1, <2>2
<1>8. hw.post.chroma = RoundUp(Width(pic), 16) * RoundUp(Height(pic), 16)
  <2>1. \A x \in Nat : RoundUp(16 * x, 16) = 16 * x
    BY DEF RoundUp
  <2>2. RoundUp(Width(pic), 16) = Width(pic) /\ RoundUp(Height(pic), 16) = Height(pic)
    BY <1>2, <2>1
  <2> QED
    BY <1>4, <2>2 DEF Post
<1>9. /\ 16 * hw.post.w = HwX(hw.frame.is) /\ 16 * hw.post.h = HwY(hw.frame.is)
      /\ hw.post.format = pic.sampling /\ hw.post.of = n
      /\ hw.post.across = "none" /\ hw.post.down = "none"
  <2>1. (16 * a) \div 16 = a /\ (16 * b) \div 16 = b
    OBVIOUS
  <2>2. Scaling(16 * a, 16 * a) = "none" /\ Scaling(16 * b, 16 * b) = "none"
    BY DEF Scaling
  <2> QED
    BY <1>2, <1>4, <2>1, <2>2 DEF Post
<1> QED
  BY <1>4, <1>7, <1>8, <1>9 DEF BufferFits, z

LEMMA Reached ==
    ASSUME PictureInv, at = "wait", Undisturbed
    PROVE  StreamReached
<1>1. StartsAt(hw, pic) /\ hw.start \in StreamStart /\ mem \in Nat
      /\ pic \in Frames
  BY KnownFrame DEF PictureInv, TypeOK, Decoding, Loaded, Container
<1>2. pic.size \in Nat
  BY <1>1, FramesArePictures, PictureNumbers DEF Frames
<1>3. hw.start.addr + hw.start.len \in Int
  BY <1>1 DEF StreamStart
<1>4. pic.size + 100 <= mem
  <2>1. RoundUp(pic.size, 256) >= pic.size /\ RoundUp(pic.size, 256) \in Nat
    <3>1. 256 * ((pic.size + 256 - 1) \div 256) >= pic.size
          /\ 256 * ((pic.size + 256 - 1) \div 256) \in Nat
      BY <1>2
    <3> QED
      BY <3>1 DEF RoundUp
  <2>2. mem >= RoundUp(pic.size, 256) + 4096
    BY DEF PictureInv, Memory
  <2> QED
    BY <1>1, <1>2, <2>1, <2>2
<1> QED
  BY <1>1, <1>2, <1>3, <1>4 DEF StreamReached, StartsAt

\* In a call that finds no such flag, the hardware writes within the buffer of
\* the client, its chroma part where the client says it is, and, if the scan
\* begins in the first four megabytes, reads from the byte after the scan header
\* to the end of the stream and not beyond the memory for it.
THEOREM StaysWithinBuffers == Spec => []WithinBuffers
<1>1. PictureInv => WithinBuffers
  <2> SUFFICES ASSUME PictureInv
               PROVE  BufferFits /\ StreamReached
    BY DEF WithinBuffers
  <2>1. CASE at = "wait" /\ Undisturbed
    BY <2>1, Fits, Reached
  <2>2. CASE ~(at = "wait" /\ Undisturbed)
    BY <2>2 DEF BufferFits, StreamReached
  <2> QED
    BY <2>1, <2>2
<1> QED
  BY <1>1, PicturesFollow, PTL
-----------------------------------------------------------------------------
(***************************************************************************)
(* The slices of a picture before which none was counted.                  *)
(***************************************************************************)

\* c slices of p have been started, of which the last is h high and begins at
\* row r; or they are all done, and the next begins at row r.
LastSlice(p, c, r, h) ==
    /\ c \in Nat \ {0} /\ r = (c - 1) * SliceSet(p) /\ r < HwY(p) \div 16
    /\ h = IF c * SliceSet(p) * 16 > HwY(p) THEN HwY(p) \div 16 - r ELSE SliceSet(p)
NextSlice(p, c, r, h) ==
    c \in Nat \ {0} /\ r = c * SliceSet(p) /\ r < HwY(p) \div 16 /\ h = SliceSet(p)

\* No slice or scan was counted before the call, and it finds no flag.
Fresh == Undisturbed /\ "count" \notin past

SliceInv ==
    Fresh =>
        /\ at = "call" /\ ~dec.header => dec.count = 0
        /\ at = "call" /\ dec.header => NextSlice(pic, dec.count, rows, dec.height)
        /\ at = "wait" => IF Sliced THEN /\ LastSlice(pic, dec.count, rows, dec.height)
                                         /\ hw.height = dec.height
                          ELSE rows = 0
        /\ at = "idle" /\ Sliced /\ ret = "frame" =>
               rows + hw.height = HwY(hw.frame.is) \div 16

LEMMA SliceNumbers ==
    ASSUME NEW p \in Frames
    PROVE  \E b \in Nat : /\ HwY(p) = 16 * b /\ HwY(p) \div 16 = b /\ 1 <= b
                          /\ SliceSet(p) \in Nat /\ SliceSet(p) <= 128
<1>1. PICK b \in Nat : HwY(p) = 16 * b /\ 1 <= b
  BY FramesArePictures, PictureNumbers, HwYFacts DEF Frames
<1>2. SliceSet(p) \in Nat /\ SliceSet(p) <= 128
  BY FramesArePictures, SliceSetFacts DEF Frames
<1>3. (16 * b) \div 16 = b
  OBVIOUS
<1> QED
  BY <1>1, <1>2, <1>3

\* The height fits the eight bits of the register.
LEMMA HeightOfNext ==
    ASSUME NEW p \in Frames, SliceSet(p) # 0, NEW d, NEW c \in Nat, d.count = c,
           d.height \in Nat, c = 0 \/ d.height = SliceSet(p),
           c * SliceSet(p) < HwY(p) \div 16
    PROVE  LastSlice(p, c + 1, c * SliceSet(p), SliceHeight(d, p))
<1>1. PICK b \in Nat : /\ HwY(p) = 16 * b /\ HwY(p) \div 16 = b /\ 1 <= b
                       /\ SliceSet(p) \in Nat /\ SliceSet(p) <= 128
  BY SliceNumbers
<1> DEFINE s == SliceSet(p)
           q == c * s
<1>2. d.count * d.height = q
  BY <1>1
<1>3. q \in Nat /\ (c + 1) * s = q + s /\ ((c + 1) - 1) * s = q
  BY <1>1
<1>4. s \in Nat /\ s <= 128 /\ s # 0 /\ q < b
  BY <1>1
<1>5. SliceHeight(d, p) = (IF (q + s) * 16 > 16 * b THEN b - q ELSE s) % 256
  <2>1. SliceHeight(d, p) = (IF ((c + 1) * s) * 16 > HwY(p)
                             THEN HwY(p) \div 16 - d.count * d.height ELSE s) % 256
    BY DEF SliceHeight
  <2> HIDE DEF s, q
  <2> QED
    BY <1>1, <1>2, <1>3, <2>1
<1>6. LastSlice(p, c + 1, q, SliceHeight(d, p)) <=>
          /\ c + 1 \in Nat \ {0} /\ q = ((c + 1) - 1) * s /\ q < HwY(p) \div 16
          /\ SliceHeight(d, p) = IF ((c + 1) * s) * 16 > HwY(p) THEN HwY(p) \div 16 - q ELSE s
  BY DEF LastSlice
<1> HIDE DEF s, q
<1>7. SliceHeight(d, p) = IF (q + s) * 16 > 16 * b THEN b - q ELSE s
  BY <1>1, <1>3, <1>4, <1>5
<1>8. LastSlice(p, c + 1, q, SliceHeight(d, p))
  BY <1>1, <1>3, <1>4, <1>6, <1>7
<1> QED
  BY <1>8 DEF q, s

\* A slice that is not the last is as high as a slice can be; the last ends
\* with the picture.
LEMMA AfterSlice ==
    ASSUME NEW p \in Frames, SliceSet(p) # 0, NEW c, NEW r, NEW h, LastSlice(p, c, r, h)
    PROVE  /\ r \in Nat /\ h \in Nat /\ h # 0 /\ r + h <= HwY(p) \div 16
           /\ r + h < HwY(p) \div 16 => NextSlice(p, c, r + h, h)
<1>1. PICK b \in Nat : /\ HwY(p) = 16 * b /\ HwY(p) \div 16 = b /\ 1 <= b
                       /\ SliceSet(p) \in Nat /\ SliceSet(p) <= 128
  BY SliceNumbers
<1> DEFINE s == SliceSet(p)
           q == c * s
<1>2. /\ c \in Nat \ {0} /\ r = (c - 1) * s /\ r < b
      /\ h = IF q * 16 > 16 * b THEN b - r ELSE s
  BY <1>1 DEF LastSlice
<1>3. q \in Nat /\ r = q - s /\ s <= q
  <2>1. (c - 1) * s = q - s /\ q \in Nat /\ (c - 1) * s \in Nat
    BY <1>1, <1>2
  <2> QED
    BY <1>1, <1>2, <2>1
<1>4. NextSlice(p, c, r + h, h) <=> c \in Nat \ {0} /\ r + h = q /\ r + h < b /\ h = s
  BY <1>1 DEF NextSlice
<1>5. s \in Nat /\ s # 0
  BY <1>1
<1> HIDE DEF s, q
<1> QED
  BY <1>1, <1>2, <1>3, <1>4, <1>5
LEMMA InitSlices ==
    Init => SliceInv
BY DEF Init, SliceInv

LEMMA OneFrameSlices ==
    ASSUME PictureInv, SliceInv, NEW p \in Pictures, OneFrame(p)
    PROVE  SliceInv'
<1>1. n \in Nat /\ dec \in Container /\ at = "idle" /\ past' = LeftBehind
  BY DEF PictureInv, TypeOK, OneFrame
<1>2. CASE Known(p)
  <2> DEFINE e == PostProcessor(ImageInfo(dec, p), p)
  <2>1. p \in Frames
    BY <1>2 DEF Frames
  <2>2. e.header = dec.header /\ e.count = dec.count
    BY <1>1, <2>1, CallFields
  <2>3. at' = "call" /\ dec' = e
    BY <1>2 DEF OneFrame
  <2> HIDE DEF e
  <2>4. ASSUME Fresh'
        PROVE  ~dec'.header /\ dec'.count = 0
    <3>1. {"header", "scan", "slices", "refill", "count"} \intersect LeftBehind = {}
      BY <1>1, <2>4 DEF Fresh, Undisturbed
    <3>2. dec.count = 0 /\ ~dec.empty /\ ~SlicesSeen
      BY <3>1, NamesLeft
    <3>3. ~dec.header
      BY <1>1, <3>1, <3>2 DEF PictureInv, Residue
    <3> QED
      BY <2>2, <2>3, <3>2, <3>3
  <2> QED
    BY <2>3, <2>4 DEF SliceInv
<1>3. CASE ~Known(p)
  <2>1. at' = "idle" /\ ret' = "refused"
    BY <1>3 DEF OneFrame
  <2> QED
    BY <2>1 DEF SliceInv
<1> QED
  BY <1>2, <1>3

\* Every return but with a ready picture.
LEMMA ReturnSlices ==
    ASSUME PictureInv, SliceInv, at # "idle", NEW how, how # "frame", NEW d, Return(how, d)
    PROVE  SliceInv'
BY DEF SliceInv, Return, input, Fresh, Undisturbed

LEMMA StartSlices ==
    ASSUME PictureInv, SliceInv, at \in {"call", "next"}, pic \in Frames,
           NEW d \in Container, Start(d),
           Fresh => /\ ~d.empty
                    /\ IF d.pause THEN Sliced /\ NextSlice(pic, d.count, rows, d.height)
                       ELSE Sliced => d.count = 0
    PROVE  SliceInv'
<1>1. /\ at' = "wait" /\ pp' = pp /\ pic' = pic /\ past' = past
      /\ hw \in Container /\ dec \in Container
  BY DEF Start, input, PictureInv, TypeOK
<1>2. ASSUME Fresh
      PROVE  /\ dec' = Started(d) /\ rows' = IF d.pause THEN rows ELSE 0
             /\ hw' = IF d.pause THEN [hw EXCEPT !.out = dec'.out, !.height = dec'.height]
                      ELSE dec'
  BY <1>2 DEF Start, Continued
<1>3. (Sliced' <=> Sliced) /\ (Fresh' <=> Fresh)
  BY <1>1, SlicedSame DEF Fresh, Undisturbed
<1>4. ASSUME Fresh, ~Sliced
      PROVE  rows' = 0
  BY <1>2, <1>4
<1>5. ASSUME Fresh, Sliced
      PROVE  LastSlice(pic, dec'.count, rows', dec'.height) /\ hw'.height = dec'.height
  <2>1. SliceSet(pic) # 0
    BY <1>5 DEF Sliced
  <2>2. dec'.count = d.count + 1 /\ dec'.height = SliceHeight(d, pic)
    BY <1>2, <1>5, StartedFields DEF Sliced
  <2>3. d.count \in Nat /\ d.height \in Nat
    BY FieldsOfContainer
  <2>4. hw'.height = dec'.height
    <3>1. CASE d.pause
      <4> DEFINE o == dec'.out
                 h == dec'.height
      <4> HIDE DEF o, h
      <4>1. [hw EXCEPT !.out = o, !.height = h].height = h
        BY <1>1 DEF Container
      <4> QED
        BY <1>2, <1>5, <3>1, <4>1 DEF o, h
    <3>2. CASE ~d.pause
      BY <1>2, <1>5, <3>2
    <3> QED
      BY <3>1, <3>2
  <2>5. rows' = d.count * SliceSet(pic) /\ d.count * SliceSet(pic) < HwY(pic) \div 16
        /\ (d.count = 0 \/ d.height = SliceSet(pic))
    <3>1. CASE d.pause
      BY <1>2, <1>5, <3>1 DEF NextSlice
    <3>2. CASE ~d.pause
      <4>1. d.count = 0 /\ rows' = 0
        BY <1>2, <1>5, <3>2
      <4>2. PICK b \in Nat : /\ HwY(pic) = 16 * b /\ HwY(pic) \div 16 = b /\ 1 <= b
                             /\ SliceSet(pic) \in Nat /\ SliceSet(pic) <= 128
        BY SliceNumbers
      <4>3. 0 * SliceSet(pic) = 0
        BY <4>2
      <4> QED
        BY <4>1, <4>2, <4>3
    <3> QED
      BY <3>1, <3>2
  <2>6. LastSlice(pic, d.count + 1, d.count * SliceSet(pic), SliceHeight(d, pic))
    BY <2>1, <2>3, <2>5, HeightOfNext
  <2> QED
    BY <2>2, <2>4, <2>5, <2>6
<1> QED
  BY <1>1, <1>3, <1>4, <1>5 DEF SliceInv

LEMMA ReadHeadersSlices ==
    ASSUME PictureInv, SliceInv, ReadHeaders
    PROVE  SliceInv'
<1>1. /\ at = "call" /\ pic \in Frames /\ dec \in Container /\ n \in Nat
      /\ pic \in Pictures \union {NoPicture}
  BY KnownFrame DEF ReadHeaders, PictureInv, TypeOK, Frames
<1>2. Stored \in Container
  BY <1>1, StoredContainer
<1>3. ASSUME Fresh
      PROVE  /\ ~dec.scanReady /\ ~dec.empty /\ Stored.strm.of = n
             /\ Carried(Stored, dec) /\ Stored.header = dec.header
             /\ dec.header => Decoding /\ dec.pause
                              /\ NextSlice(pic, dec.count, rows, dec.height)
             /\ ~dec.header => ~dec.pause /\ dec.count = 0
  <2>1. Undisturbed
    BY <1>3 DEF Fresh
  <2>2. (dec.header => Decoding /\ dec.pause) /\ (~dec.header => Opened)
    BY <1>1, <2>1 DEF PictureInv
  <2>3. ~dec.scanReady /\ ~dec.empty /\ (~dec.header => ~dec.pause)
    BY <2>2 DEF Decoding, Opened, Clean
  <2>4. Stored.strm.of = n /\ Carried(Stored, dec) /\ Stored.header = dec.header
    BY <1>1, <2>3, StoredFields
  <2> QED
    BY <1>1, <1>3, <2>1, <2>2, <2>3, <2>4 DEF SliceInv
<1>4. CASE Stored.header /\ Start(Stored)
  <2>1. Fresh => /\ Stored.pause /\ Sliced /\ ~Stored.empty
                 /\ NextSlice(pic, Stored.count, rows, Stored.height)
    BY <1>3, <1>4 DEF Carried, Decoding
  <2> QED
    BY <1>1, <1>2, <1>4, <2>1, StartSlices
<1>5. ASSUME NEW d \in Container, NEW k \in 1 .. Len(pic.scans), Found(d, k),
             Fresh => ~d.pause /\ d.count = 0 /\ ~d.empty
      PROVE  SliceInv'
  <2> DEFINE h == ScanHeader(d, pic.scans[k])
             e == AtScan(h, k, pic.ends[k])
  <2>1. pic.scans[k] \in Components /\ pic.ends[k] \in Nat
    BY <1>1, ScanFacts
  <2>2. h \in Container
    BY <1>1, <2>1, ScanHeaderContainer
  <2>3. k \in Nat \ {0}
    <3>1. Len(pic.scans) \in Nat
      BY <1>1, FramesArePictures DEF IsPicture
    <3> QED
      BY <3>1
  <2>4. CASE Refused(d, d.frame.is, pic.scans[k])
    <3>1. Return("header", h)
      BY <1>5, <2>4 DEF Found
    <3> HIDE DEF h
    <3> QED
      BY <1>1, <3>1, ReturnSlices
  <2>5. CASE ~Refused(d, d.frame.is, pic.scans[k])
    <3>1. Start(e)
      BY <1>5, <2>5 DEF Found, AtScan
    <3>2. h.pause = d.pause /\ h.count = d.count /\ h.empty = d.empty
      BY <2>1, <2>5, ScanHeaderFields DEF Kept
    <3> HIDE DEF h
    <3>3. e \in Container
      BY <2>1, <2>2, <2>3, AtScanContainer DEF AtScan
    <3>4. e.pause = h.pause /\ e.count = h.count /\ e.empty = h.empty
      BY <2>2, AtScanFields DEF Carried
    <3> HIDE DEF e
    <3> QED
      BY <1>1, <1>5, <3>1, <3>2, <3>3, <3>4, StartSlices
  <2> QED
    BY <2>4, <2>5
<1>6. CASE ~Stored.header /\ Found(FrameHeader(Stored), 1)
  <2> DEFINE f == FrameHeader(Stored)
  <2>1. f \in Container /\ f.pause = Stored.pause /\ f.count = Stored.count /\ f.empty = Stored.empty
    BY <1>1, <1>2, FrameHeaderContainer, FrameHeaderFields DEF Kept
  <2>2. 1 \in 1 .. Len(pic.scans)
    <3>1. Len(pic.scans) \in Nat /\ Len(pic.scans) > 0
      BY <1>1, FramesArePictures DEF IsPicture
    <3> QED
      BY <3>1
  <2>3. Fresh => ~f.pause /\ f.count = 0 /\ ~f.empty
    BY <1>3, <1>6, <2>1 DEF Carried
  <2>4. Found(f, 1)
    BY <1>6
  <2> HIDE DEF f
  <2> QED
    BY <1>5, <2>1, <2>2, <2>3, <2>4
<1>7. CASE Stored.strm.of # n /\ \E k \in 1 .. Len(pic.scans) : Found(Stored, k)
  BY <1>2, <1>3, <1>5, <1>7
<1>8. CASE Return("error", Stored)
  BY <1>1, <1>8, ReturnSlices
<1>9. \/ Stored.header /\ Start(Stored)
      \/ ~Stored.header /\ Found(FrameHeader(Stored), 1)
      \/ Stored.strm.of # n /\ \E k \in 1 .. Len(pic.scans) : Found(Stored, k)
      \/ Return("error", Stored)
  BY Zenon DEF ReadHeaders
<1> QED
  BY <1>4, <1>6, <1>7, <1>8, <1>9
\* The slices are those of the headers of the picture.
LEMMA FreshDecoding ==
    ASSUME PictureInv, SliceInv, at = "wait", Fresh
    PROVE  /\ Decoding /\ pic \in Frames /\ hw.frame.is = pic /\ dec \in Container
           /\ ~Sliced => rows = 0 /\ hw.height = 0
           /\ Sliced => SliceSet(pic) # 0 /\ hw.height = dec.height
                        /\ LastSlice(pic, dec.count, rows, dec.height)
<1>1. Undisturbed
  BY DEF Fresh
<1>2. Decoding
  BY <1>1 DEF PictureInv
<1>3. hw.frame.is = pic
  BY <1>2 DEF Decoding, Loaded, HeadersOf
<1>4. ~Sliced => rows = 0 /\ hw.height = 0
  BY <1>2 DEF SliceInv, Decoding
<1>5. Sliced => SliceSet(pic) # 0 /\ hw.height = dec.height
                /\ LastSlice(pic, dec.count, rows, dec.height)
  BY DEF SliceInv, Sliced
<1> QED
  BY <1>2, <1>3, <1>4, <1>5, KnownFrame DEF PictureInv, TypeOK

LEMMA SliceReadySlices ==
    ASSUME PictureInv, SliceInv, SliceReady
    PROVE  SliceInv'
<1>1. /\ at = "wait" /\ ~AllRows /\ dec' = [dec EXCEPT !.pause = Pause]
      /\ at' = "call" /\ pp' = pp /\ pic' = pic /\ past' = past
      /\ hw' = hw /\ rows' = rows + hw.height
      /\ hw.height \in Nat /\ rows \in Nat /\ dec \in Container
  BY FieldsOfContainer DEF SliceReady, input, PictureInv, TypeOK
<1>2. Fresh' <=> Fresh
  BY <1>1 DEF Fresh, Undisturbed
<1>3. ASSUME Fresh
      PROVE  dec'.header /\ NextSlice(pic, dec'.count, rows', dec'.height)
  <2>1. /\ Decoding /\ pic \in Frames /\ hw.frame.is = pic
        /\ ~Sliced => rows = 0 /\ hw.height = 0
        /\ Sliced => SliceSet(pic) # 0 /\ hw.height = dec.height
                     /\ LastSlice(pic, dec.count, rows, dec.height)
    BY <1>1, <1>3, FreshDecoding
  <2>2. hw.height # 0 /\ ~(rows + hw.height >= HwY(pic) \div 16)
    BY <1>1, <2>1 DEF AllRows, Total
  <2>3. Sliced
    BY <2>1, <2>2
  <2>4. rows + hw.height < HwY(pic) \div 16
    <3>1. PICK b \in Nat : HwY(pic) \div 16 = b
      BY <2>1, SliceNumbers
    <3> QED
      BY <1>1, <2>2, <3>1
  <2>5. NextSlice(pic, dec.count, rows + hw.height, dec.height)
    BY <2>1, <2>3, <2>4, AfterSlice
  <2>6. dec'.header = dec.header /\ dec'.count = dec.count /\ dec'.height = dec.height
    BY <1>1 DEF Container
  <2> QED
    BY <1>1, <2>1, <2>5, <2>6 DEF Decoding
<1> QED
  BY <1>1, <1>2, <1>3 DEF SliceInv

LEMMA FrameReadySlices ==
    ASSUME PictureInv, SliceInv, FrameReady
    PROVE  SliceInv'
<1>1. /\ at = "wait" /\ AllRows /\ at' = "idle" /\ pp' = pp /\ pic' = pic
      /\ past' = past /\ hw' = hw /\ rows' = rows
      /\ hw.height \in Nat /\ rows \in Nat
  BY FieldsOfContainer DEF FrameReady, Return, input, PictureInv, TypeOK
<1>2. Fresh' <=> Fresh
  BY <1>1 DEF Fresh, Undisturbed
<1>3. ASSUME Fresh, Sliced
      PROVE  rows + hw.height = HwY(hw.frame.is) \div 16
  <2>1. /\ pic \in Frames /\ hw.frame.is = pic
        /\ SliceSet(pic) # 0 /\ hw.height = dec.height
        /\ LastSlice(pic, dec.count, rows, dec.height)
    BY <1>1, <1>3, FreshDecoding
  <2>2. hw.height # 0 /\ rows + hw.height <= HwY(pic) \div 16
    BY <2>1, AfterSlice
  <2>3. rows + hw.height >= HwY(pic) \div 16
    BY <1>1, <2>1, <2>2 DEF AllRows, Total
  <2>4. PICK b \in Nat : HwY(pic) \div 16 = b
    BY <2>1, SliceNumbers
  <2> QED
    BY <1>1, <2>1, <2>2, <2>3, <2>4
<1>4. Sliced' <=> Sliced
  BY <1>1, SlicedSame
<1> QED
  BY <1>1, <1>2, <1>3, <1>4 DEF SliceInv

\* A scan of its own is never decoded in slices.
LEMMA ScanReadySlices ==
    ASSUME PictureInv, SliceInv, ScanReady
    PROVE  SliceInv'
<1>1. /\ at = "wait" /\ dec.op = "nonInterleaved"
      /\ \E k \in NextPositions(dec) : AfterScan(k)
  BY DEF ScanReady
<1>2. /\ pp' = pp /\ pic' = pic /\ past' = past
      /\ at' \in {"next", "idle", "empty"}
  BY <1>1 DEF AfterScan, Return, input
<1>3. Fresh => ~Sliced
  BY <1>1, FreshDecoding DEF Decoding
<1>4. (Sliced' <=> Sliced) /\ (Fresh' <=> Fresh)
  BY <1>2, SlicedSame DEF Fresh, Undisturbed
<1> QED
  BY <1>2, <1>3, <1>4 DEF SliceInv

LEMMA NextScanSlices ==
    ASSUME PictureInv, SliceInv, NextScan
    PROVE  SliceInv'
<1> DEFINE d == Reset(dec)
           k == d.strm.next
           s == pic.scans[k]
           f == AtPosition(d, pic.ends[k])
           e == ScanHeader(f, s)
           g == ScanHeader(d, s)
<1>1. /\ at = "next" /\ dec \in Container /\ n \in Nat
      /\ pic \in Frames /\ pic \in Pictures \union {NoPicture}
  BY KnownFrame DEF NextScan, PictureInv, TypeOK, Frames
<1>2. /\ d \in Container /\ Carried(d, dec) /\ d.strm.next \in Nat \ {0}
      /\ d.frame = dec.frame /\ d.mode = dec.mode
  BY <1>1, ResetContainer, ResetFields, FieldsOfContainer
<1>3. Len(pic.scans) \in Nat
  BY <1>1, FramesArePictures DEF IsPicture
<1>4. \/ Return("error", d)
      \/ Return("next", g)
      \/ ~(k > Len(pic.scans)) /\ ~Refused(d, d.frame.is, s) /\ Start(e)
  BY Zenon DEF NextScan, AtPosition
<1> HIDE DEF d
<1>5. k \in Nat \ {0} /\ (~(k > Len(pic.scans)) => k \in 1 .. Len(pic.scans))
  <2>1. k \in Nat \ {0}
    BY <1>2
  <2> HIDE DEF k
  <2> QED
    BY <1>3, <2>1
<1>6. CASE Return("error", d)
  BY <1>1, <1>6, ReturnSlices
<1>7. CASE Return("next", g)
  <2> HIDE DEF g
  <2> QED
    BY <1>1, <1>7, ReturnSlices
<1>8. CASE ~(k > Len(pic.scans)) /\ ~Refused(d, d.frame.is, s) /\ Start(e)
  <2>1. k \in 1 .. Len(pic.scans)
    BY <1>5, <1>8
  <2>2. s \in Components /\ pic.ends[k] \in Nat
    <3> HIDE DEF k
    <3> QED
      BY <1>1, <2>1, ScanFacts
  <2>3. f \in Container
    BY <1>2, <1>5, <2>2, AtScanContainer DEF AtPosition
  <2>4. Carried(f, d) /\ f.frame = d.frame /\ f.mode = d.mode
    BY <1>2, PositionFields
  <2> HIDE DEF f, s
  <2>5. e \in Container
    BY <1>1, <2>2, <2>3, ScanHeaderContainer
  <2>6. ~Refused(f, f.frame.is, s)
    BY <1>8, <2>4 DEF Refused
  <2>7. Kept(e, f)
    BY <2>2, <2>3, <2>6, ScanHeaderFields
  <2> HIDE DEF e
  <2>8. e.pause = dec.pause /\ e.empty = dec.empty
    BY <1>2, <2>4, <2>7 DEF Carried, Kept
  <2>9. Fresh => ~dec.pause /\ ~dec.empty /\ ~Sliced
    BY <1>1 DEF PictureInv, Between, Fresh
  <2> QED
    BY <1>1, <1>8, <2>5, <2>8, <2>9, StartSlices
<1> QED
  BY <1>4, <1>6, <1>7, <1>8

LEMMA NextSlices ==
    PictureInv /\ SliceInv /\ [Next]_vars => SliceInv'
<1> SUFFICES ASSUME PictureInv, SliceInv, [Next]_vars
             PROVE  SliceInv'
  OBVIOUS
<1>1. ASSUME NEW p \in Pictures, OneFrame(p)
      PROVE  SliceInv'
  BY <1>1, OneFrameSlices
<1>2. CASE Refuse
  <2>1. at # "idle" /\ Return("refused", Stored)
    BY <1>2 DEF Refuse
  <2> QED
    BY <2>1, ReturnSlices
<1>3. CASE EmptyScan \/ ScanFaults
  BY <1>3 DEF EmptyScan, ScanFaults, SliceInv, input
<1>5. CASE BufferEmpty
  <2>1. ~Fresh'
    BY <1>5 DEF BufferEmpty, Fresh, Undisturbed
  <2> QED
    BY <2>1 DEF SliceInv
<1>4. CASE WaitFails \/ BusError \/ StreamError
  <2>1. \/ Return("system", dec) \/ Return("bus", Reset(dec))
        \/ Return("stream", Reset(dec)) \/ Return("shown", Reset(dec))
    BY <1>4 DEF WaitFails, BusError, StreamError
  <2>2. at # "idle"
    BY <1>4 DEF WaitFails, BusError, StreamError
  <2> QED
    BY <2>1, <2>2, ReturnSlices
<1>6. CASE UNCHANGED vars
  <2>1. Sliced' <=> Sliced
    BY <1>6, SlicedSame DEF vars
  <2> QED
    BY <1>6, <2>1 DEF vars, SliceInv, Fresh, Undisturbed
<1> QED
  BY <1>1, <1>2, <1>3, <1>4, <1>5, <1>6, ReadHeadersSlices, NextScanSlices, SliceReadySlices,
     FrameReadySlices, ScanReadySlices DEF Next, Running, Answer

\* A picture whose call finds no such flag is given back as ready only when
\* every component was decoded, for it or for an earlier picture of separate
\* scans; and, if the call found the count of slices at zero, only when its
\* slices cover its rows exactly.
THEOREM ReadyPicturesCounted == Spec => []AllCounted
<1>1. PictureInv /\ SliceInv => AllCounted
  <2> SUFFICES ASSUME PictureInv, SliceInv
               PROVE  SlicesAddUp
    BY DEF AllCounted, PictureInv
  <2>1. ASSUME at = "wait", Fresh
        PROVE  rows + hw.height <= Total
    <3>1. /\ pic \in Frames /\ hw.frame.is = pic
          /\ ~Sliced => rows = 0 /\ hw.height = 0
          /\ Sliced => SliceSet(pic) # 0 /\ hw.height = dec.height
                       /\ LastSlice(pic, dec.count, rows, dec.height)
      BY <2>1, FreshDecoding
    <3>2. PICK b \in Nat : HwY(pic) \div 16 = b
      BY <3>1, SliceNumbers
    <3>3. CASE Sliced
      BY <3>1, <3>3, AfterSlice DEF Total
    <3>4. CASE ~Sliced
      BY <3>1, <3>2, <3>4 DEF Total
    <3> QED
      BY <3>3, <3>4
  <2>2. ASSUME at = "idle", Fresh, SliceSet(pic) # 0, ~pp, ret = "frame"
        PROVE  rows + hw.height = Total
    BY <2>2 DEF SliceInv, Sliced, Total
  <2> QED
    BY <2>1, <2>2 DEF SlicesAddUp, Fresh
<1> QED
  BY <1>1, InitInv, NextInv, InitSlices, NextSlices, PTL DEF Spec
============================================================================
