------------------------------ MODULE JpegDecoder ------------------------------
(***************************************************************************)
(* One instance of the JPEG decoder (package/rockchip/rkjpeg/src/dec/jpeg) *)
(* and its client pv_rkJpegdecoder_oneframe (test/pv_jpegdec_api.cpp),     *)
(* which hands it one picture after the other.  The instance is created    *)
(* once and its flags are cleared then (JpegDecClearStructs); from one     *)
(* picture to the next they stay as the last call left them, whatever way  *)
(* it ended.  The model follows those flags through every return of        *)
(* JpegDecDecode.                                                          *)
(*                                                                         *)
(* The streams are complete and handed over in one buffer; a scan header   *)
(* may be one the decoder refuses, and a component may be missing.  The    *)
(* hardware may fail at any wait, and ask for another buffer at any.       *)
(* Its abilities are those the build assumes: no progressive pictures.     *)
(* After a scan of a non-interleaved picture the driver takes the bus      *)
(* address in a register for a pointer (jpegdecapi.c:2380): either it      *)
(* faults, or bus and pointer agree and the stream is read on.             *)
(***************************************************************************)
EXTENDS Integers, Sequences, FiniteSets

CONSTANTS Pictures,      \* the pictures a client may hand over
          PostProcess,   \* color_conv of the client, one of these
          MaxPictures    \* pictures per instance

(* A picture: op, the coding of its frame header; sampling; w and h; scans, *)
(* the components of each; good, whether the decoder supports the rest of   *)
(* its scan headers; ri, whether it has a restart interval; size, its bytes; *)
(* ends, where the header of each scan ends.  The components of a baseline  *)
(* picture are in one scan or each in one of its own.                       *)

(* Bytes of a stream; sides of a picture; pixels that are decoded at once;   *)
(* units in a slice; 2^22, the field for the offset of the stream.           *)
JPEGDEC_RK70_MIN_BUFFER == 256
JPEGDEC_RK70_MAX_BUFFER == 16776960
JPEGDEC_MAX_WIDTH_8190 == 8176
JPEGDEC_MAX_HEIGHT_8190 == 8176
JPEGDEC_MAX_PIXEL_AMOUNT == 16370688
JPEGDEC_MAX_SLICE_SIZE_8190 == 8100
AddressField == 4194304

All == {0, 1, 2}
Samplings == {"400", "420", "422", "440", "411", "444"}

IsPicture(p) ==
    /\ p.op \in {"baseline", "progressive"}
    /\ p.sampling \in Samplings \union {"other"}
    /\ p.w \in 1 .. JPEGDEC_MAX_WIDTH_8190 /\ p.h \in 1 .. JPEGDEC_MAX_HEIGHT_8190
    /\ p.scans \in Seq({{0}, {1}, {2}, All}) /\ Len(p.scans) > 0
    /\ p.op = "baseline" /\ Len(p.scans) > 1 => \A k \in 1 .. Len(p.scans) : p.scans[k] # All
    /\ p.good \in BOOLEAN /\ p.ri \in BOOLEAN
    /\ p.size \in JPEGDEC_RK70_MIN_BUFFER .. JPEGDEC_RK70_MAX_BUFFER
    /\ \A k \in 1 .. Len(p.scans) : p.ends[k] \in 1 .. p.size

ASSUME DecoderAssumption ==
    /\ MaxPictures \in Nat
    /\ PostProcess \subseteq BOOLEAN
    /\ \A p \in Pictures : IsPicture(p)

VARIABLES pp,    \* ppInstance: the post processor writes the picture
          n,     \* the pictures handed over
          pic,   \* the last one
          ret,   \* how oneframe ended for it, "none" if it has not
          mem,   \* stream_size: how much of a stream the client has memory for
          old,   \* the components counted before this picture
          past,  \* what the pictures before left behind
          at,    \* idle, call, wait (for the hardware), next (scan) or dead
          dec,   \* JpegDecContainer
          hw,    \* what the hardware was started with
          rows,  \* rows of macroblocks decoded so far
          done   \* components of the picture decoded so far

vars == <<pp, n, pic, ret, mem, past, old, at, dec, hw, rows, done>>

input == <<n, pic, mem, past, old>>

NoPicture == [op |-> "baseline", sampling |-> "400", w |-> 16, h |-> 16,
              scans |-> <<{0}>>, good |-> TRUE, ri |-> FALSE,
              size |-> 256, ends |-> <<100>>]

\* JpegDecClearStructs, as far as something is read before it is set.
Cleared ==
    [header |-> FALSE, scanReady |-> FALSE, pause |-> FALSE, count |-> 0,
     height |-> 0, op |-> "baseline", mode |-> "400", comp |-> 0, comps |-> {},
     needed |-> {}, ri |-> 0, right |-> FALSE, bottom |-> FALSE, empty |-> FALSE,
     strm |-> [of |-> 0, next |-> 1, pos |-> 0],
     start |-> [addr |-> 0, bit |-> 0, len |-> 0],
     post |-> [of |-> 0, w |-> 0, h |-> 0, format |-> "400", across |-> "none",
               down |-> "none", chroma |-> 0],
     frame |-> [of |-> 0, is |-> NoPicture],
     out |-> 0]

Init ==
    /\ pp \in PostProcess
    /\ n = 0 /\ pic = NoPicture /\ ret = "none" /\ past = {} /\ old = {} /\ at = "idle"
    /\ mem = 512000
    /\ dec = Cleared
    /\ hw = Cleared
    /\ rows = 0 /\ done = {}

-----------------------------------------------------------------------------
(* Numbers: the frame header, the buffer and the slices.                   *)

RoundUp(x, k) == k * ((x + k - 1) \div k)
HwX(p) == RoundUp(p.w, IF p.sampling = "411" THEN 32 ELSE 16)
HwY(p) == RoundUp(p.h, 16)
Over(x) == x % 16 \in 1 .. 8
Colour(p) == p.sampling # "400"

McuWidth(s) == CASE s \in {"420", "422"} -> 16
                 [] s = "411" -> 32
                 [] s \in {"400", "440", "444"} -> 8

\* In the units in which a slice is counted.
InRow(p) == (HwX(p) \div McuWidth(p.sampling))
                \div (IF p.sampling \in {"400", "440", "444"} THEN 2 ELSE 1)

Full(k, p) == (k + 1) * InRow(p) >= JPEGDEC_MAX_SLICE_SIZE_8190

\* The client forces slices on a picture of more than 16M pixels: as many
\* rows as a slice may hold.
SliceSet(p) ==
    IF HwX(p) * HwY(p) <= JPEGDEC_MAX_PIXEL_AMOUNT THEN 0
    ELSE CHOOSE k \in 1 .. JPEGDEC_MAX_SLICE_SIZE_8190 : Full(k, p) /\ \A j \in 1 .. k - 1 : ~Full(j, p)

\* Mutant: the count of slices done is one ahead.
SliceHeight_Late(d, p) ==
    (IF d.count * SliceSet(p) * 16 > HwY(p)
     THEN HwY(p) \div 16 - d.count * d.height
     ELSE SliceSet(p)) % 256

\* JpegDecSliceSizeCalculation; the register holds eight bits.
SliceHeight(d, p) ==
    (IF (d.count + 1) * SliceSet(p) * 16 > HwY(p)
     THEN HwY(p) \div 16 - d.count * d.height
     ELSE SliceSet(p)) % 256

\* The size JpegDecGetImageInfo tells the client.
OutputWidth(p) ==
    LET x == RoundUp(p.w, 16)
    IN IF p.sampling = "411" /\ x % 32 # 0 THEN x + 16 ELSE x
OutputHeight(p) == RoundUp(p.h, 16)

\* What the client allocates for the picture and where it says the chroma
\* samples are, in bytes.
Width(p) == RoundUp(OutputWidth(p), IF pp /\ OutputWidth(p) <= 1920 THEN 8 ELSE 16)
Height(p) == RoundUp(OutputHeight(p), IF pp /\ OutputWidth(p) <= 1920 THEN 2 ELSE 16)
HalfBytes(s) == CASE s = "400" -> 2
                  [] s = "420" -> 3
                  [] s \in {"422", "440", "411"} -> 4
                  [] s = "444" -> 6
\* Mutant: the chroma samples are forgotten.
Allocated_Luma(p) == Width(p) * Height(p)

Allocated(p) == (Width(p) * Height(p) * (IF pp THEN 4 ELSE HalfBytes(p.sampling)))
                    \div 2

-----------------------------------------------------------------------------
(* JpegDecGetImageInfo, the headers and the start of the hardware, as      *)
(* functions of the container d.                                           *)

Single(s) == Cardinality(s) = 1
Known(p) == p.sampling \in Samplings

\* The first scan header tells a non-interleaved picture.
FirstScan(p) ==
    IF p.op = "baseline" /\ Single(p.scans[1]) /\ Colour(p) THEN "nonInterleaved"
    ELSE p.op

ImageInfo(d, p) ==
    [d EXCEPT !.op = FirstScan(p),
              !.mode = p.sampling,
              !.ri = IF p.ri THEN n + 1 ELSE @]

\* SetPostProcessor, and the offset the client adds to the chroma address: the
\* post processor is set up for the picture of the call, whatever the decoder
\* will be started on.
Scaling(in, out) == IF in < out THEN "up" ELSE IF in > out THEN "down" ELSE "none"
PostProcessor(d, p) ==
    [d EXCEPT !.post = [of |-> n + 1, w |-> OutputWidth(p) \div 16,
                        h |-> OutputHeight(p) \div 16, format |-> p.sampling,
                        across |-> Scaling(OutputWidth(p), Width(p)),
                        down |-> Scaling(OutputHeight(p), Height(p)),
                        chroma |-> Width(p) * Height(p)]]

\* JpegDecDecodeFrameHdr and JpegDecMode: a fill flag is set, never cleared.
FrameHeader(d) ==
    [d EXCEPT !.frame = [of |-> n, is |-> pic], !.op = pic.op, !.mode = pic.sampling,
              !.right = @ \/ (pic.sampling \in {"440", "444", "400"} /\ Over(pic.w)),
              !.bottom = @ \/ (pic.sampling \notin {"420", "440"} /\ Over(pic.h)),
              !.ri = IF pic.ri THEN n ELSE @]

\* A scan header with one component of a colour picture.
OneComponent(d, p, c) ==
    [d EXCEPT !.op = IF @ = "baseline" /\ d.mode # "400" THEN "nonInterleaved" ELSE @,
              !.mode = "400", !.comp = c, !.needed = @ \ {c},
              !.right = (c = 0 \/ p.sampling = "440") /\ Over(p.w),
              !.bottom = (c = 0 \/ p.sampling = "422") /\ Over(p.h)]

\* The samplings of which the decoder cannot decode the component alone.
Refused(d, p, s) ==
    \/ ~p.good
    \/ /\ Single(s) /\ Colour(p)
       /\ IF 0 \in s THEN d.mode = "444" ELSE p.sampling \in {"444", "411"}

\* JpegDecDecodeScan: the picture goes to the buffer of this call, whether
\* the instance has its table buffer already or not.
ToBuffer(d) == [d EXCEPT !.out = n]

\* JpegDecDecodeScanHeader, and what its callers set whatever it returns.
ScanHeader(d, s) ==
    LET p == d.frame.is
        h == IF Single(s) /\ Colour(p)
             THEN OneComponent(d, p, CHOOSE c \in s : TRUE)
             ELSE IF Single(s) THEN [d EXCEPT !.comp = 0]
             ELSE [d EXCEPT !.needed = All, !.mode = p.sampling]
        read == [h EXCEPT !.header = TRUE]
    IN IF Refused(d, p, s) THEN read ELSE ToBuffer(read)

\* Mutant: the bits to skip are counted in the byte, not in the word.
HwStrmParams_Byte(d) ==
    [addr |-> (d.strm.pos - (d.strm.pos % 8)) % AddressField, bit |-> 0,
     len |-> pic.size - (d.strm.pos - (d.strm.pos % 8))]

\* JpegDecSetHwStrmParams: the hardware starts at a multiple of eight bytes,
\* and skips the bits before the byte in which the scan begins.  The offset
\* shares a register with the ten bits of the descriptor.
HwStrmParams(d) ==
    LET first == d.strm.pos - (d.strm.pos % 8)
        more == d.frame.is.h % 16 # 0 /\ d.mode \in {"422", "444", "411"}
    IN [addr |-> first % AddressField, bit |-> 8 * (d.strm.pos % 8),
        len |-> pic.size - first + (IF more THEN 100 ELSE 0)]

\* Mutant: JpegDecInitHW leaves nonInterleavedScanReady set.
Started_KeepsScanReady(d) ==
    [d EXCEPT !.height = IF SliceSet(pic) # 0 /\ ~pp THEN SliceHeight(d, pic) ELSE @,
              !.start = IF d.pause THEN @ ELSE HwStrmParams(d),
              !.strm.pos = IF d.pause THEN @ ELSE @ - (@ % 8),
              !.count = d.count + 1]

\* The container when the hardware has been started.
Started(d) ==
    [d EXCEPT !.height = IF SliceSet(pic) # 0 /\ ~pp THEN SliceHeight(d, pic) ELSE @,
              !.scanReady = d.scanReady /\ d.pause,
              !.start = IF d.pause THEN @ ELSE HwStrmParams(d),
              !.strm.pos = IF d.pause THEN @ ELSE @ - (@ % 8),
              !.count = d.count + 1]

\* JpegDecInitHWContinue writes the output addresses and the height of the
\* slice only.
Continued(d) == [hw EXCEPT !.out = d.out, !.height = d.height]

\* JpegDecInitHWInputBuffLoad: the hardware reads on at the beginning of the
\* buffer, in which the client has left the stream that was there.
Refilled(d) ==
    [d EXCEPT !.empty = FALSE, !.start = [addr |-> 0, bit |-> 0, len |-> pic.size]]

\* JpegDecInitHW writes everything, JpegDecInitHWInputBuffLoad the size of the
\* picture and where the stream is.
Start(d) ==
    /\ IF d.empty
       THEN dec' = Refilled(d) /\ hw' = [hw EXCEPT !.start = dec'.start, !.frame = d.frame]
       ELSE dec' = Started(d) /\ hw' = IF d.pause THEN Continued(dec') ELSE dec'
    /\ rows' = IF d.empty \/ d.pause THEN rows ELSE 0
    /\ at' = "wait"
    /\ UNCHANGED <<pp, input, ret>>

\* oneframe returns to the application.
Return(how, d) ==
    /\ ret' = how
    /\ at' = "idle"
    /\ dec' = d
    /\ UNCHANGED <<pp, input, hw, rows>>

-----------------------------------------------------------------------------
(* oneframe and the part of JpegDecDecode before the hardware is started.  *)

\* A picture the decoder takes in slices.
Sliceable(p) == Known(p) /\ FirstScan(p) = "baseline" /\ SliceSet(p) # 0 /\ ~pp

\* What a picture leaves to the next: the header flag after a refused scan
\* header or a failed wait, the scan flag after a refused further scan, both
\* until a call resets them; for good the pause flag and the height of slices,
\* the restart interval and the fill flags; a count of slices, and the wish for
\* a buffer.  A start for that wish does not reset the scan flag.
Marks == {"header", "scan", "slices", "refill", "ri", "right", "bottom", "count"}
LeftBehind ==
    {x \in Marks :
        CASE x = "header" -> \/ ret \in {"header", "system", "next"}
                             \/ x \in past /\ ret = "refused"
          [] x = "scan" -> \/ ret = "next"
                           \/ x \in past /\ ret \in {"refused", "header", "error"}
                           \/ {x, "refill"} \subseteq past
          [] x = "slices" -> Sliceable(pic) \/ x \in past
          [] x = "refill" -> dec.empty
          [] x = "ri" -> pic.ri \/ x \in past
          [] x = "right" -> Over(pic.w) \/ x \in past
          [] x = "bottom" -> Over(pic.h) \/ x \in past
          [] x = "count" -> dec.count # 0}

OneFrame(p) ==
    /\ at = "idle" /\ n < MaxPictures
    /\ n' = n + 1
    /\ pic' = p
    /\ mem' = IF RoundUp(p.size, 256) + 4096 > mem THEN RoundUp(p.size, 256) + 4096
              ELSE mem
    /\ past' = LeftBehind
    /\ old' = dec.comps
    /\ done' = {}
    /\ IF Known(p)
       THEN at' = "call" /\ dec' = PostProcessor(ImageInfo(dec, p), p) /\ ret' = "none"
       ELSE at' = at /\ dec' = [dec EXCEPT !.op = p.op] /\ ret' = "refused"
    /\ UNCHANGED <<pp, hw, rows>>

\* The stream of the call is taken over unless a further scan of the last
\* one is expected.
Stored ==
    IF dec.scanReady THEN [dec EXCEPT !.header = FALSE]
    ELSE [dec EXCEPT !.strm = [of |-> n, next |-> 1, pos |-> 0]]

Unsupported ==
    \/ dec.op = "progressive"
    \/ SliceSet(pic) # 0 /\ dec.op # "baseline"
    \/ SliceSet(pic) * InRow(pic) > JPEGDEC_MAX_SLICE_SIZE_8190

Refuse ==
    /\ at = "call" /\ Unsupported
    /\ Return("refused", Stored)
    /\ UNCHANGED done

\* Scan k of the stream in memory has been found, with or without the frame
\* header that precedes it.
Found(d, k) ==
    LET h == ScanHeader(d, pic.scans[k])
    IN IF Refused(d, d.frame.is, pic.scans[k]) THEN Return("header", h)
       ELSE Start([h EXCEPT !.strm.next = k, !.strm.pos = pic.ends[k]])

\* The marker loop.  With headerReady still set it ends at once, and the
\* hardware is started on the headers of the last call.  With a position
\* left over from another stream it reads on somewhere in this one.
ReadHeaders ==
    /\ at = "call" /\ ~Unsupported
    /\ IF Stored.header THEN Start(Stored)
       ELSE IF Stored.strm.of = n THEN Found(FrameHeader(Stored), 1)
       ELSE \/ \E k \in 1 .. Len(pic.scans) : Found(Stored, k)
            \/ Return("error", Stored)
    /\ UNCHANGED done

-----------------------------------------------------------------------------
(* The answers of the hardware.                                            *)

Total == HwY(hw.frame.is) \div 16
AllRows == hw.height = 0 \/ rows + hw.height >= Total

\* The wait itself fails: JPEGDEC_SYSTEM_ERROR.
WaitFails ==
    /\ at = "wait"
    /\ Return("system", dec)
    /\ UNCHANGED done

\* Mutant: the status is not cleared for the next decoder.
Reset_Nothing(d) == d

\* "clear status for next decoder"
Reset(d) == [d EXCEPT !.header = FALSE]

BusError ==
    /\ at = "wait"
    /\ Return("bus", Reset(dec))
    /\ UNCHANGED done

\* A stream error, or a timeout; after a timeout a picture whose height is
\* not a multiple of 16 is taken to be whole but for the last rows.
StreamError ==
    /\ at = "wait"
    /\ \/ Return("stream", Reset(dec))
       \/ /\ dec.frame.is.h % 16 # 0 /\ dec.mode \in {"422", "444", "411"}
          /\ Return("shown", Reset(dec))
    /\ UNCHANGED done

\* The hardware has read its buffer and asks for the next one: the client
\* calls again with the same buffer.  As the decoder tells it that this buffer
\* is the last (streamEnd), on a whole stream only a fault makes it ask.
BufferEmpty ==
    /\ at = "wait"
    /\ at' = "call"
    /\ dec' = [dec EXCEPT !.empty = TRUE]
    /\ past' = past \union {"refill"}
    /\ UNCHANGED <<pp, n, pic, mem, old, ret, hw, rows, done>>

\* The decoder waits for the client before it goes on, unless the post
\* processor takes the slices.
Pause == ~pp

SliceReady ==
    /\ at = "wait" /\ ~AllRows
    /\ dec' = [dec EXCEPT !.pause = Pause]
    /\ rows' = rows + hw.height
    /\ at' = "call"
    /\ UNCHANGED <<pp, input, ret, hw, done>>

FrameReady ==
    /\ at = "wait" /\ AllRows /\ dec.op = "baseline"
    /\ Return("frame", Reset(dec))
    /\ done' = IF hw.frame.of = n /\ hw.strm.of = n THEN All ELSE done

\* Mutant: two components are taken for a picture.
Complete_TwoOfThree(comps) == {0, 1} \subseteq comps

Complete(comps) == comps = All

\* Mutant: the position of the stream is not taken from the hardware.
NextPosition_Same(d) == d.strm.next

NextPosition(d) == d.strm.next + 1
\* If the hardware was started at the beginning of the stream it may come to
\* the end of any scan.
NextPositions(d) ==
    IF d.strm.pos = 0 /\ hw.start.bit = 0 THEN 1 .. Len(pic.scans) + 1
    ELSE {NextPosition(d)}

\* The hardware has stopped at the end of the scan before scan k.  The components
\* are counted from the first picture of the instance on.
AfterScan(k) ==
    LET more == k <= Len(pic.scans)
        d == [dec EXCEPT !.comps = @ \union {dec.comp}, !.count = 0,
                         !.pause = FALSE, !.scanReady = @ \/ more, !.strm.next = k]
    IN IF more \/ ~Complete(d.comps)
       THEN at' = "next" /\ dec' = d /\ UNCHANGED <<pp, input, ret, hw, rows>>
       ELSE IF d.needed = {} THEN Return("frame", Reset(d))
       ELSE at' = "empty" /\ dec' = Reset(d) /\ UNCHANGED <<pp, input, ret, hw, rows>>

\* A scan of a non-interleaved picture is done.
ScanReady ==
    /\ at = "wait" /\ AllRows /\ dec.op = "nonInterleaved"
    /\ done' = IF hw.frame.of = n /\ hw.strm.of = n THEN done \union {hw.comp} ELSE done
    /\ \E k \in NextPositions(dec) : AfterScan(k)

\* JpegDecInitHWEmptyScan, for a component no scan was decoded for: it takes
\* the registers for the handle of the register file and writes its codes
\* through tmpStrm, which nothing allocates.
EmptyScan ==
    /\ at = "empty"
    /\ at' = "dead"
    /\ UNCHANGED <<pp, input, ret, dec, hw, rows, done>>

\* JpegDecNextScanHdrs: the next scan in the same call, or an end of the
\* picture that comes too early.
NextScan ==
    /\ at = "next"
    /\ LET d == Reset(dec)
           k == d.strm.next
       IN IF k > Len(pic.scans) THEN Return("error", d)
          ELSE IF Refused(d, d.frame.is, pic.scans[k])
               THEN Return("next", ScanHeader(d, pic.scans[k]))
               ELSE Start(ScanHeader([d EXCEPT !.strm.pos = pic.ends[k]], pic.scans[k]))
    /\ UNCHANGED done

\* The bus address is no pointer.
ScanFaults ==
    /\ at = "wait" /\ AllRows /\ dec.op = "nonInterleaved"
    /\ at' = "dead"
    /\ UNCHANGED <<pp, input, ret, dec, hw, rows, done>>

Running == Refuse \/ ReadHeaders \/ NextScan \/ EmptyScan

Answer == WaitFails \/ BusError \/ StreamError \/ BufferEmpty \/ SliceReady
              \/ FrameReady \/ ScanReady \/ ScanFaults

Next ==
    \/ \E p \in Pictures : OneFrame(p)
    \/ Running
    \/ Answer

\* oneframe runs on; the hardware has its timeout enabled, so a wait ends.
Spec == Init /\ [][Next]_vars /\ WF_vars(Running \/ Answer)

-----------------------------------------------------------------------------
(* Properties.                                                             *)

Frames == {p \in Pictures \union {NoPicture} : Known(p)}
Codings == {"baseline", "progressive", "nonInterleaved"}

StreamStorage == [of : Nat, next : Nat \ {0}, pos : Nat]
StreamStart == [addr : Nat, bit : Nat, len : Int]
PpSetUp == [of : Nat, w : Nat, h : Nat, format : Samplings,
            across : {"none", "up", "down"}, down : {"none", "up", "down"}, chroma : Nat]
Container ==
    [header : BOOLEAN, scanReady : BOOLEAN, pause : BOOLEAN, count : Nat,
     height : 0 .. 255, op : Codings, mode : Samplings, comp : All, comps : SUBSET All,
     needed : SUBSET All, ri : Nat, right : BOOLEAN, bottom : BOOLEAN, empty : BOOLEAN,
     strm : StreamStorage, start : StreamStart, post : PpSetUp,
     frame : [of : Nat, is : Frames],
     out : Nat]

TypeOK ==
    /\ pp \in BOOLEAN /\ n \in Nat /\ pic \in Pictures \union {NoPicture}
    /\ ret \in {"none", "refused", "header", "error", "system", "bus", "stream",
                "shown", "frame", "next"}
    /\ mem \in Nat
    /\ past \subseteq Marks /\ old \subseteq All
    /\ at \in {"idle", "call", "wait", "next", "empty", "dead"}
    /\ at \in {"call", "wait", "next", "empty"} => Known(pic)
    /\ dec \in Container /\ hw \in Container
    /\ rows \in Nat /\ done \subseteq All

\* The call finds no flag that a picture before it left, and the hardware does
\* not ask for more than it was given.
Undisturbed == past \intersect {"header", "scan", "slices", "refill"} = {}

OwnRight ==
    IF hw.op = "nonInterleaved"
    THEN (hw.comp = 0 \/ pic.sampling = "440") /\ Over(pic.w)
    ELSE pic.sampling \in {"440", "444", "400"} /\ Over(pic.w)
OwnBottom ==
    IF hw.op = "nonInterleaved"
    THEN (hw.comp = 0 \/ pic.sampling = "422") /\ Over(pic.h)
    ELSE pic.sampling \notin {"420", "440"} /\ Over(pic.h)

\* Unless the call finds a flag (a failed wait or a refused header just before
\* it, slices ever before it), the hardware is started on the picture of the
\* call: its stream, its headers, its sampling, its buffer; the call after the
\* one that found the header flag is in order again.  The restart interval and
\* the fill flags are its own unless an earlier picture had one
\* (jpegdecapi.c:1578-1596, 2172, 2218, 2577: what is reset and when).
OwnPicture ==
    at = "wait" /\ Undisturbed =>
        /\ hw.frame.of = n /\ hw.strm.of = n /\ hw.out = n
        /\ hw.mode = IF hw.op = "nonInterleaved" THEN "400" ELSE pic.sampling
        /\ hw.ri = (IF pic.ri THEN n ELSE 0) \/ "ri" \in past
        /\ hw.right = OwnRight \/ "right" \in past
        /\ hw.bottom = OwnBottom \/ "bottom" \in past

\* A picture is reported ready only when every component has been decoded, for
\* it or, as the decoder never starts to count afresh, for an earlier picture
\* of separate scans (jpegdecapi.c:2465-2498).
ReadyIsComplete ==
    at = "idle" /\ n > 0 /\ Undisturbed /\ ret = "frame" =>
        done \union old = All

\* A complete picture of a supported kind is reported ready if the hardware
\* does not fail on it and the call finds no flag: what else went wrong before,
\* bus and stream errors, timeouts, refused pictures, missing components, does
\* not stop it, and a flag of a failed wait or a refused header costs the next
\* picture only (jpegdecapi.c:2098-2121, 2406-2450, 2562).
Decodable(p) ==
    /\ Known(p) /\ p.good /\ p.op = "baseline"
    /\ Single(p.scans[1]) /\ Colour(p) =>
           /\ p.sampling \notin {"444", "411"} /\ SliceSet(p) = 0
           /\ UNION {p.scans[k] : k \in 1 .. Len(p.scans)} = All
GoodPictureReady ==
    at = "idle" /\ n > 0 /\ Undisturbed /\ Decodable(pic) =>
        ret \in {"frame", "shown", "stream", "bus", "system"}

\* The slices cover the picture exactly, none too high and none missing, if the
\* call found SliceCount at zero: it is reset after the scans of a picture of
\* separate scans only (jpegdecinternal.c:1339, jpegdecapi.c:2406).
SlicesAddUp ==
    Undisturbed /\ "count" \notin past =>
        /\ at = "wait" => rows + hw.height <= Total
        /\ at = "idle" /\ n > 0 /\ SliceSet(pic) # 0 /\ ~pp /\ ret = "frame" =>
               rows + hw.height = Total

\* A picture that is reported ready has all components counted, and all slices
\* if none were counted before it (the two parts above).
AllCounted == ReadyIsComplete /\ SlicesAddUp

\* When the call finds no flag, the picture and its chroma part lie inside the
\* buffer of the client, and the chroma part where the client tells the
\* application it is.  The post processor is set up for the picture the decoder
\* is started on, in its sampling if it is decoded whole, and scales nothing
\* (pv_jpegdec_api.cpp:308-410, 474; jpegdechdrs.c:196-236;
\* jpegdecinternal.c:3751).
BufferFits ==
    at = "wait" /\ Undisturbed =>
        /\ Width(pic) * Height(pic) * (IF pp THEN 3 ELSE HalfBytes(pic.sampling))
               <= 2 * Allocated(pic)
        /\ hw.post.chroma = RoundUp(Width(pic), 16) * RoundUp(Height(pic), 16)
        /\ pp => /\ 16 * hw.post.w = HwX(hw.frame.is) /\ 16 * hw.post.h = HwY(hw.frame.is)
                 /\ hw.op = "baseline" => hw.post.format = hw.mode
                 /\ hw.post.across = "none" /\ hw.post.down = "none"
                 /\ hw.post.of = n

\* When the call finds no flag and the scan begins in the first four megabytes
\* (the field of the offset holds no more), the hardware starts reading at the
\* byte that follows the scan header, and reads the stream to its end but never
\* beyond the memory the client has for it (jpegdecinternal.c:977-1090, the
\* hundred bytes added for a hardware fault included; pv_jpegdec_api.cpp:193-214).
StreamReached ==
    at = "wait" /\ Undisturbed /\ pic.ends[hw.strm.next] < AddressField =>
        /\ 8 * hw.start.addr + hw.start.bit = 8 * pic.ends[hw.strm.next]
        /\ hw.start.addr + hw.start.len \in pic.size .. mem

\* In the calls and on the streams named above, nothing the hardware writes or
\* reads is outside the client's memory, and it reads and writes what it is told
\* to, where the next reader looks for it (pv_jpegdec_api.cpp:193-410,
\* jpegdecinternal.c:977).
WithinBuffers == BufferFits /\ StreamReached

\* Every call of oneframe returns, faults after a scan of a non-interleaved
\* picture (jpegdecapi.c:2380), or the hardware asks for input it has had:
\* slices and scans come to an end whatever flags the call finds (the loops at
\* jpegdecapi.c:2081 and pv_jpegdec_api.cpp:457), unless it finds both the
\* header flag of a failed wait and the pause flag of slices.
Ends ==
    (at \in {"call", "wait", "next", "empty"} /\ ~ {"header", "slices"} \subseteq past)
        ~> (at \in {"idle", "dead"} \/ "refill" \in past)
=============================================================================
