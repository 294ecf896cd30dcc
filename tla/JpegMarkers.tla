------------------------------ MODULE JpegMarkers ------------------------------
(***************************************************************************)
(* The two walks over the segments of a JPEG stream before its first scan: *)
(* JpegDecGetImageInfo, whose results the client makes its buffers from,   *)
(* and the marker loop of JpegDecDecode, which sets the decoder up         *)
(* (package/rockchip/rkjpeg/src/dec/jpeg).  Each keeps a position in the   *)
(* stream, pCurrPos, and a count of the bits it has read, readBits, against *)
(* which the end of the stream is checked.  The first walk adds a bit to   *)
(* the count at every turn of its loop, and returns by the flag info.init, *)
(* which stays set for the life of the instance.                           *)
(*                                                                         *)
(* A stream is a sequence of well-formed segments up to the header of its  *)
(* first scan, followed by data; the client may hand it over cut.          *)
(* Segments are what the walks tell apart: the tables are not parsed       *)
(* (JpegTables has them).                                                  *)
(***************************************************************************)
EXTENDS Integers, Sequences, FiniteSets

CONSTANTS Streams,      \* the streams a client may hand over
          Near,         \* how far from a boundary of a segment they are cut
          MaxPictures   \* pictures per instance

(* A segment: m, its marker; len, its length field, or 0 if it has none;   *)
(* fill, the FF bytes before the marker; frame, what a frame header says   *)
(* (jump: the numbers of its components do not follow each other);         *)
(* comps, the number of components of a scan; ri, the restart interval;    *)
(* id, what an APP0 segment is; inner, the segments of a thumbnail up to   *)
(* its frame header; at, the place in the stream; turn, how many turns the *)
(* loops of the first walk have made when it is reached.                   *)
FrameMarkers == {"SOF0", "SOF2"}
Skipped == {"DQT", "DHT", "APPn", "COM", "DNL"}
Others == {"SOF1", "DAC", "DHP"}   \* coding styles that are not supported
Alone == {"SOI", "EOI", "RST", "TEM"}
MarkerCodes == FrameMarkers \union Skipped \union Others \union Alone
            \union {"SOS", "DRI", "APP0"}
Bare == Alone \union {"FF", "end", "other"}

Formats == {"400", "420", "422", "440", "411", "444"}
Frames ==
    [mode : FrameMarkers \union {"SOF1", "nonInterleaved", "none"}, w : Nat, h : Nat,
     s : Formats \union {"other", "none"}, jump : BOOLEAN]
SegmentsWith(inside) ==
    [m : MarkerCodes, len : Nat, fill : Nat \ {0}, frame : Frames, comps : Nat, ri : Nat,
     id : {"none", "JFIF", "JFXX", "other"}, inner : inside, at : Nat, turn : Nat]
Inner == SegmentsWith({<<>>})
Outer == SegmentsWith(Seq(Inner))

Last(q) == q[Len(q)]
Size(g) == g.fill + 1 + g.len
End(g) == g.at + Size(g)

\* The loop in a thumbnail reads two bytes at a time.
After(g) == IF g.inner = <<>> THEN g.turn + g.fill
            ELSE Last(g.inner).turn + (Last(g.inner).fill + 1) \div 2
Lengthy(g) ==
    /\ IF g.m \in Alone THEN g.len = 0 ELSE g.len >= 2
    /\ g.m = "DRI" => g.len = 4

\* "JFXX", a zero byte and the kind of the thumbnail precede its segments.
Thumbnail(g) ==
    /\ g.m = "APP0" /\ g.id = "JFXX"
    /\ g.inner[1].at = g.at + g.fill + 9 /\ End(Last(g.inner)) <= End(g)
    /\ g.inner[1].turn = g.turn + g.fill - 1
    /\ \A k \in 1 .. Len(g.inner) - 1 :
          /\ g.inner[k + 1].at = End(g.inner[k])
          /\ g.inner[k + 1].turn = g.inner[k].turn + (g.inner[k].fill + 1) \div 2
    /\ \A k \in 1 .. Len(g.inner) :
          /\ Lengthy(g.inner[k]) /\ g.inner[k].m # "SOS"
          /\ g.inner[k].m \in FrameMarkers \union Others <=> k = Len(g.inner)

\* One frame header and at most one thumbnail come before the scan header.
WellFormed(s) ==
    /\ s.segs # <<>> /\ s.segs[1].at = 0 /\ s.segs[1].turn = 0
    /\ \A k \in 1 .. Len(s.segs) - 1 :
          s.segs[k + 1].at = End(s.segs[k]) /\ s.segs[k + 1].turn = After(s.segs[k])
    /\ \A k \in 1 .. Len(s.segs) :
          /\ Lengthy(s.segs[k])
          /\ s.segs[k].m = "SOS" <=> k = Len(s.segs)
          /\ s.segs[k].inner # <<>> => Thumbnail(s.segs[k])
    /\ \E k \in 1 .. Len(s.segs) : \A j \in 1 .. Len(s.segs) :
          s.segs[j].m \in FrameMarkers \union {"SOF1"} <=> j = k
    /\ \A j, k \in 1 .. Len(s.segs) :
          s.segs[j].inner # <<>> /\ s.segs[k].inner # <<>> => j = k

ASSUME MarkersAssumption ==
    /\ MaxPictures \in Nat /\ Near \subseteq Nat
    /\ Streams \subseteq [segs : Seq(Outer), data : Nat]
    /\ \A s \in Streams : WellFormed(s)

VARIABLES init,    \* info.init of the instance
          handed,  \* pictures handed over
          stream, length,
          at,      \* idle, info, thumb (the loop in an APP0 segment), told or decode
          walk,    \* pos, bits, cur (currentByte) and what the walk has found
          info,    \* what the first walk found, for the client
          ret      \* how the last call ended

walkVars == <<init, handed, stream, length, at, walk, info, ret>>
call == <<handed, stream, length>>

-----------------------------------------------------------------------------
(* Streams.                                                                *)

Among(q) == {q[k] : k \in DOMAIN q}
Parts == [s \in Streams |-> Among(s.segs) \union UNION {Among(g.inner) : g \in Among(s.segs)}]
Total(s) == End(Last(s.segs)) + s.data

Byte(p) ==
    IF \E g \in Parts[stream] : p \in g.at .. g.at + g.fill - 1 THEN "FF"
    ELSE IF \E g \in Parts[stream] : p = g.at + g.fill
    THEN (CHOOSE g \in Parts[stream] : p = g.at + g.fill).m
    ELSE "other"

Cuts(s) ==
    {Total(s)} \union {l \in {g.at + d : g \in Parts[s], d \in Near} : l \in 1 .. Total(s)}

-----------------------------------------------------------------------------
(* Reading.                                                                *)

NoPicture == [mode |-> "none", w |-> 0, h |-> 0, s |-> "none", jump |-> FALSE]
Begin == [pos |-> 0, bits |-> 0, cur |-> "none", frame |-> NoPicture, thumb |-> NoPicture,
          scan |-> 0, app |-> 0, used |-> 0]

\* JpegDecGetByte and JpegDecGet2Bytes read only what is there.
Has(v, k) == v.bits + 8 * k <= 8 * length
Move(v, k) == [v EXCEPT !.pos = @ + k, !.bits = @ + 8 * k]

\* A marker prefix, or the byte after one of two prefix bytes.
Prefix(v) == v.cur = "FF" \/ (Has(v, 1) /\ Byte(v.pos) = "FF")
Coded(v) ==
    LET x == IF v.cur = "FF" THEN v ELSE Move(v, 1)
    IN IF Has(x, 1) THEN [Move(x, 1) EXCEPT !.cur = Byte(x.pos)]
       ELSE [x EXCEPT !.cur = "end"]
Here(v) == CHOOSE g \in Parts[stream] : g.at + g.fill = v.pos - 1

\* The check of the first walk: the count is at the length field.
Fits(v, g) == Has(v, 2) /\ v.bits + 8 * g.len <= 8 * length

\* Mutant: a byte more is wanted.
FitsBefore_One(v, g) == (v.bits + 16) \div 8 + g.len < length

\* The check of the second walk is made after the length has been read.
FitsBefore(v, g) == (v.bits + 16) \div 8 + g.len <= length

RoundUp(x) == 16 * ((x + 15) \div 16)
Output(f) ==
    [f EXCEPT !.h = RoundUp(@),
              !.w = RoundUp(@) + (IF f.s = "411" /\ RoundUp(@) % 32 # 0 THEN 16 ELSE 0)]
Said(g) == [Output(g.frame) EXCEPT !.mode = g.m]
\* A list of its own, of which older hardware misses the last two.
ThumbFormats == {"400", "420", "422", "440", "411", "444"}
Sized(f) ==
    /\ Output(f).w \in 48 .. 8176 /\ Output(f).h \in 48 .. 8176
    /\ Output(f).w * Output(f).h <= 66846976
ThumbSized(f) == RoundUp(f.w) \in 48 .. 256 /\ RoundUp(f.h) \in 48 .. 256

NoInfo == [frame |-> NoPicture, thumb |-> NoPicture, scan |-> 0]
-----------------------------------------------------------------------------
(* JpegDecGetImageInfo.                                                    *)

Refused(by) ==
    /\ at' = "idle" /\ ret' = by /\ walk' = Begin
    /\ UNCHANGED <<init, call, info>>

\* JPEGDEC_OK.
Told(v) ==
    /\ at' = "told"
    /\ info' = [frame |-> v.frame, thumb |-> v.thumb, scan |-> v.pos]
    /\ walk' = Begin
    /\ UNCHANGED <<call, ret>>

\* The loop goes on, at the outer or the inner level.
Turn(v, level) ==
    /\ walk' = [v EXCEPT !.bits = @ + 1]
    /\ at' = level
    /\ UNCHANGED <<init, call, info, ret>>

HandOver(s, l) ==
    /\ at = "idle" /\ handed < MaxPictures
    /\ handed' = handed + 1 /\ stream' = s /\ length' = l
    /\ walk' = Begin /\ info' = NoInfo
    /\ at' = IF l < 256 THEN "idle" ELSE "info"
    /\ ret' = IF l < 256 THEN "short" ELSE "none"
    /\ UNCHANGED init

InfoFrame(v, g) ==
    IF Fits(v, g) /\ Sized(g.frame) /\ g.frame.s \in Formats
    THEN Turn([Move(v, g.len) EXCEPT !.frame = Said(g)], "info")
    ELSE Refused("info")

\* One component of several: the picture is not interleaved.
Coding(f, g) ==
    IF g.comps = 1 /\ f.s # "400" /\ f.mode = "SOF0" THEN [f EXCEPT !.mode = "nonInterleaved"]
    ELSE f

InfoScan(v, g) ==
    LET x == [Move(v, g.len) EXCEPT !.frame = Coding(@, g)]
    IN IF Fits(v, g) /\ x.bits + 8 < 8 * length
       THEN Told(x) /\ init' = TRUE
       ELSE Refused("info")

InfoSkip(v, g) ==
    IF Fits(v, g) THEN Turn(Move(v, g.len), "info") ELSE Refused("info")

\* Mutant: the interval itself is not read.
InfoInterval_Unread(v, g) ==
    IF Fits(v, g) THEN Turn(Move(v, 2), "info") ELSE Refused("info")

\* The interval is checked as if it were the length of a segment.
InfoInterval(v, g) ==
    IF Fits(v, g) /\ v.bits + 32 + 8 * g.ri - 16 <= 8 * length
    THEN Turn(Move(v, 4), "info") ELSE Refused("info")

\* APP0: only a thumbnail that is itself a JPEG picture is looked into.
InfoApp(v, g) ==
    IF Fits(v, g) /\ g.id = "JFXX" /\ g.inner # <<>>
    THEN /\ walk' = [Move(v, 8) EXCEPT !.app = g.len, !.used = 8]
         /\ at' = "thumb"
         /\ UNCHANGED <<init, call, info, ret>>
    ELSE InfoSkip(v, g)

More == walk.bits \div 8 < length

\* The end of the stream: both loops are left.
InfoEnd ==
    /\ at \in {"info", "thumb"} /\ ~More
    /\ IF init THEN Told(walk) /\ UNCHANGED init ELSE Refused("info")

InfoMarker ==
    /\ at = "info" /\ More
    /\ \E v \in {Coded(walk)} : LET g == Here(v) IN
          \/ ~Prefix(walk) /\ Refused("info")
          \/ /\ Prefix(walk)
             /\ \/ v.cur \in FrameMarkers /\ InfoFrame(v, g)
                \/ v.cur = "SOS" /\ InfoScan(v, g)
                \/ v.cur \in Skipped /\ InfoSkip(v, g)
                \/ v.cur = "DRI" /\ InfoInterval(v, g)
                \/ v.cur = "APP0" /\ InfoApp(v, g)
                \/ v.cur \in Others /\ Refused("info")
                \/ v.cur \in Bare /\ Turn(v, "info")

\* The frame header of the thumbnail ends the inner loop; what it has used of
\* the APP0 segment is counted, and the rest skipped.
ThumbFrame(v, g) ==
    LET x == [Move(v, g.len) EXCEPT !.thumb = Said(g)]
        rest == v.app - (v.used + g.len)
    IN IF Has(v, g.len) /\ ThumbSized(g.frame) /\ g.frame.s \in ThumbFormats /\ Has(x, rest)
       THEN Turn(Move(x, rest), "info")
       ELSE Refused("info")

ThumbSkip(v, g) ==
    IF Has(v, 2) THEN Turn([Move(v, g.len) EXCEPT !.used = @ + g.len], "thumb")
    ELSE Refused("info")

\* Here two prefix bytes are taken for a marker.
ThumbMarker ==
    /\ at = "thumb" /\ More
    /\ \E v \in {[Coded([walk EXCEPT !.cur = "none"]) EXCEPT !.used = @ + 2]} :
       LET g == Here(v) IN
          \/ ~(Has(walk, 1) /\ Byte(walk.pos) = "FF") /\ Refused("info")
          \/ /\ Has(walk, 1) /\ Byte(walk.pos) = "FF"
             /\ \/ v.cur \in FrameMarkers /\ ThumbFrame(v, g)
                \/ v.cur \in Skipped \union {"DRI", "APP0"} /\ ThumbSkip(v, g)
                \/ v.cur \in Others /\ Refused("info")
                \/ v.cur \in Bare /\ Turn(v, "thumb")

-----------------------------------------------------------------------------
(* The marker loop of JpegDecDecode.                                       *)

\* Progressive pictures are refused before it.
Decode ==
    /\ at = "told"
    /\ IF info.frame.mode = "SOF2" THEN Refused("decode")
       ELSE at' = "decode" /\ UNCHANGED <<init, call, walk, info, ret>>

Loop(v) ==
    IF v.bits \div 8 <= length
    THEN walk' = v /\ UNCHANGED <<init, call, at, info, ret>>
    ELSE Refused("decode")

DecodeFrame(v, g) ==
    IF FitsBefore(v, g) /\ Sized(g.frame) /\ ~g.frame.jump /\ g.frame.s \in Formats
    THEN Loop([Move(v, g.len) EXCEPT !.frame = Said(g)])
    ELSE Refused("decode")

\* Mutant: headerReady is not set, and the loop goes on.
DecodeScan_Unready(v, g) ==
    IF FitsBefore(v, g) THEN Loop(Move(v, g.len)) ELSE Refused("decode")

DecodeScan(v, g) ==
    IF FitsBefore(v, g)
    THEN /\ walk' = [Move(v, g.len) EXCEPT !.frame = Coding(@, g)]
         /\ at' = "idle" /\ ret' = "found"
         /\ UNCHANGED <<init, call, info>>
    ELSE Refused("decode")

DecodeTables(v, g) ==
    IF FitsBefore(v, g) THEN Loop(Move(v, g.len)) ELSE Refused("decode")

\* Nothing compares these lengths with the stream.
DecodeSkip(v, g) ==
    IF Has(v, 2) THEN Loop(Move(v, g.len)) ELSE Refused("decode")

DecodeApp(v, g) ==
    IF Has(v, 2) /\ Has(v, g.len) THEN Loop(Move(v, g.len)) ELSE Refused("decode")

\* A byte that is no prefix is passed over; at the end of the stream nothing is
\* read any more, and the loop ends only if a marker was cut in two.
DecodeByte ==
    /\ at = "decode" /\ ~Prefix(walk)
    /\ IF walk.cur = "end" THEN Refused("decode")
       ELSE Loop(IF Has(walk, 1) THEN Move(walk, 1) ELSE walk)

DecodeMarker ==
    /\ at = "decode" /\ Prefix(walk)
    /\ \E v \in {Coded(walk)} : LET g == Here(v) IN
          \/ v.cur \in FrameMarkers /\ DecodeFrame(v, g)
          \/ v.cur = "SOS" /\ DecodeScan(v, g)
          \/ v.cur \in {"DQT", "DHT"} /\ DecodeTables(v, g)
          \/ v.cur = "APP0" /\ DecodeApp(v, g)
          \/ v.cur \in {"APPn", "COM", "DRI"} /\ DecodeSkip(v, g)
          \/ v.cur \in Others \union {"DNL", "TEM", "EOI"} /\ Refused("decode")
          \/ v.cur \in Bare \ {"TEM", "EOI"} /\ Loop(v)

Walk == InfoEnd \/ InfoMarker \/ ThumbMarker \/ Decode
            \/ DecodeByte \/ DecodeMarker

WalkNext == (\E s \in Streams : \E l \in Cuts(s) : HandOver(s, l)) \/ Walk

WalkInit ==
    /\ init = FALSE /\ handed = 0
    /\ stream = [segs |-> <<>>, data |-> 0] /\ length = 0
    /\ at = "idle" /\ walk = Begin /\ info = NoInfo /\ ret = "none"

\* One thread walks, and nothing it waits for.
WalkSpec == WalkInit /\ [][WalkNext]_walkVars /\ WF_walkVars(Walk)

-----------------------------------------------------------------------------
(* Properties.                                                             *)

ScanOf(s) == Last(s.segs)
Headers(s) == {s.segs[k] : k \in 1 .. Len(s.segs) - 1}
FrameOf(s) == CHOOSE g \in Headers(s) : g.m \in FrameMarkers \union {"SOF1"}
Thumbs(s) == {g \in Headers(s) : g.inner # <<>>}

\* What the first walk is to take in a stream of length l.  A thumbnail is held
\* to limits of its own; an interval is mistaken for a length, with the two
\* bytes of the length itself read and the turns counted as bits.
Acceptable(g, l) ==
    /\ g.m \notin Others
    /\ g.m \in FrameMarkers => Sized(g.frame) /\ g.frame.s \in Formats
    /\ g.m = "DRI" => 8 * (End(g) + g.ri) + g.turn + g.fill - 17 <= 8 * l
    /\ g.inner # <<>> =>
          /\ Last(g.inner).m \in FrameMarkers
          /\ ThumbSized(Last(g.inner).frame) /\ Last(g.inner).frame.s \in ThumbFormats
          /\ \A x \in Among(g.inner) : x.fill % 2 = 1
Supported(s) == \A g \in Headers(s) : Acceptable(g, Total(s))

\* The whole stream; and its data are more than the bits the first walk counts
\* and does not read.
Whole ==
    /\ length = Total(stream)
    /\ ScanOf(stream).turn + ScanOf(stream).fill + 7 < 8 * stream.data

Described(s) ==
    [frame |-> Coding(Said(FrameOf(s)), ScanOf(s)),
     thumb |-> IF Thumbs(s) = {} THEN NoPicture
               ELSE Said(Last((CHOOSE g \in Thumbs(s) : TRUE).inner)),
     scan |-> End(ScanOf(s))]

\* The client is told the truth of a whole stream: the frame, the thumbnail and
\* the kind of the first scan, whatever segments surround them; and a stream
\* is refused only for what it is.  On a new instance a stream that ends before
\* its scan is never taken for a picture (jpegdecapi.c:541-1446; an interval
\* longer than the rest of the stream is mistaken for a length).
InfoIsRight ==
    /\ at = "told" /\ Whole => Supported(stream) /\ info = Described(stream)
    /\ at = "idle" /\ ret = "info" /\ Whole => ~Supported(stream)
    /\ at = "told" /\ handed = 1 => length > End(ScanOf(stream))

\* The client's buffers and the decoder's registers speak of one picture: the
\* second walk finds the frame the first one told of and stops at the same
\* scan, though one counts bits it never read and the other wants two bytes
\* more than a segment has.  It fails only on what the first does not look at,
\* and never leaves the stream (jpegdecapi.c:1790-2072; the stale flag init
\* lets a later stream through that ends too soon).
Unlooked(s) ==
    \/ FrameOf(s).m = "SOF2" \/ FrameOf(s).frame.jump
    \/ \E g \in Headers(s) : g.m \in {"DNL", "TEM", "EOI"}
WalksAgree ==
    handed # 0 /\ (handed = 1 \/ Whole) =>
        /\ at = "idle" /\ ret = "found" => walk.frame = info.frame /\ walk.pos = info.scan
        /\ at = "idle" /\ ret = "decode" => Unlooked(stream)
        /\ at = "decode" => walk.pos <= length

\* Both walks come to an end, for a stream that is whole or cut, on a new
\* instance or a used one: every turn of the loops moves on in the stream or
\* finds it used up (jpegdecapi.c:541, 868, 1790 and 2062-2071).
WalksEnd == (at # "idle") ~> (at = "idle")
=============================================================================
