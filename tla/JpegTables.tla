------------------------------ MODULE JpegTables ------------------------------
(***************************************************************************)
(* How the JPEG decoder hands the code and quantisation tables of a        *)
(* picture to the hardware (package/rockchip/rkjpeg/src/dec/jpeg).  The    *)
(* markers of a stream define tables and choose, per component, the ones   *)
(* a scan uses; when a scan header has been read the driver writes the     *)
(* values into one table buffer, the code length counts into registers,    *)
(* and two selector registers tell the hardware which of its slots the     *)
(* chroma components use.  Three writers, one per kind of picture, must    *)
(* agree with three length writers and with one selector function.         *)
(*                                                                         *)
(* A Huffman table is <<"ac", n>> or <<"dc", n>>; of its contents the      *)
(* model keeps the number of values and where they come from.  A cell is   *)
(* one byte of the table buffer.  A stream is legal: a scan header names   *)
(* tables in 0 .. 1 (baseline) or 0 .. 3 (progressive), holds one or all   *)
(* three components, and a progressive scan of several is a DC scan.       *)
(*                                                                         *)
(* The query for the abilities of the hardware is commented out and        *)
(* replaced by "baseline only" (jpegdecapi.c:148, fuse = TRUE), so the     *)
(* progressive writers sleep in this build: the answer is a constant of    *)
(* the run, and both are checked.                                          *)
(***************************************************************************)
EXTENDS Integers, Sequences

CONSTANTS Markers,        \* the sets of tables one DHT marker may define
          AcLengths,      \* how many values an AC table may have
          TableIds,       \* per coding, the tables a scan header may name
          QuantChoices,   \* the quantisation tables of the three components
          Modes,          \* the samplings, "400" when there is one component
          Fuses,          \* the answers of the hardware query
          MaxScans        \* scans per picture

ASSUME TablesAssumption ==
    /\ Markers \subseteq SUBSET ({"ac", "dc"} \X (0 .. 3))
    /\ AcLengths \subseteq 1 .. 162
    /\ QuantChoices \subseteq [1 .. 3 -> Nat]
    /\ MaxScans \in Nat
    /\ TableIds["baseline"] \subseteq 0 .. 1
    /\ TableIds["progressive"] \subseteq 0 .. 3
    /\ Fuses \subseteq BOOLEAN

VARIABLES fuse,     \* fuseBurned: the hardware decodes baseline pictures only
          huff,     \* vlc: of each table, how many values and whose
          defined,  \* the tables the stream of the picture has defined
          found,    \* findhufftable: a DHT marker was met by this call
          frame,    \* coding, sampling and quantisation tables of the frame
          op,       \* info.operationType
          mode,     \* info.yCbCrMode
          scan,     \* scan.Ta, Td, Ss and Ah
          comp,     \* info.componentId
          alone,    \* info.nonInterleaved
          nq,       \* info.amountOfQTables
          ready,    \* info.nonInterleavedScanReady
          phase,    \* headers, or run: the hardware has been started
          scans     \* scans started, bounded by MaxScans

vars == <<fuse, huff, defined, found, frame, op, mode, scan, comp, alone, nq, ready, phase,
          scans>>

Tables == {"ac", "dc"} \X (0 .. 3)
NoFrame == [coding |-> "none", sampling |-> "none", Tq |-> <<0, 0, 0>>]

Init ==
    /\ fuse \in Fuses
    /\ huff = [t \in Tables |-> [n |-> 0, from |-> "nobody"]]
    /\ defined = {} /\ found = FALSE
    /\ frame = NoFrame
    /\ op = "baseline" /\ mode = "400" /\ comp = 0 /\ alone = FALSE
    /\ scan = [Ta |-> [c \in 0 .. 2 |-> 0], Td |-> [c \in 0 .. 2 |-> 0],
               Ss |-> 0, Ah |-> 0]
    /\ nq = 0 /\ ready = FALSE /\ phase = "headers" /\ scans = 0

-----------------------------------------------------------------------------
(* The marker loop, as far as the tables are concerned.                    *)

\* DHT: a baseline frame header already read allows tables 0 and 1 only.
DHT(s, n) ==
    /\ phase = "headers"
    /\ frame.coding = "baseline" => \A t \in s : t[2] <= 1
    /\ huff' = [t \in Tables |->
                  IF t \in s THEN [n    |-> IF t[1] = "ac" THEN n ELSE 12,
                                   from |-> "stream"]
                  ELSE huff[t]]
    /\ defined' = defined \union s
    /\ found' = TRUE
    /\ UNCHANGED <<fuse, frame, op, mode, scan, comp, alone, nq, ready, phase,
                   scans>>

\* SOF0 and SOF2, before the first scan of the picture; a decoder without
\* progressive pictures refuses one before it reads the markers.
SOF(coding, sampling, Tq) ==
    /\ phase = "headers" /\ scans = 0
    /\ coding = "progressive" => ~fuse
    /\ frame' = [coding |-> coding, sampling |-> sampling, Tq |-> Tq]
    /\ op' = coding
    /\ mode' = sampling
    /\ UNCHANGED <<fuse, huff, defined, found, scan, comp, alone, nq, ready,
                   phase, scans>>

\* A scan header with one component of three is refused for the samplings
\* whose chroma size the decoder does not know.
Accepted(c) ==
    \/ frame.sampling \in {"400", "420", "422", "440"}
    \/ c = 0 /\ mode # "444"

\* JpegDefaultHuffmanTables writes tables 0 and 1 of both kinds.
Defaults ==
    [t \in Tables |-> IF t[2] > 1 THEN huff[t]
                      ELSE [n    |-> IF t[1] = "ac" THEN 162 ELSE 12,
                            from |-> "default"]]

\* Mutant: every scan looks for tables of its own.
WithDefaults_PerScan == IF found /\ scans = 0 THEN huff ELSE Defaults

\* The header loop is over: default tables when it has met no DHT marker.
WithDefaults == IF found THEN huff ELSE Defaults

\* The loop ends and the hardware is started.
Start ==
    /\ scans < MaxScans
    /\ huff' = WithDefaults
    /\ phase' = "run"
    /\ scans' = scans + 1
    /\ UNCHANGED <<fuse, defined, found, frame, ready>>

\* SOS with one component; one component of a baseline colour frame makes
\* the picture a non-interleaved one.
SOSOne(c, td, ta, ss, ah) ==
    /\ phase = "headers" /\ frame # NoFrame /\ Accepted(c)
    /\ frame.sampling = "400" => c = 0
    /\ frame.coding = "baseline" => ss = 0 /\ ah = 0
    /\ op' = IF op = "baseline" /\ mode # "400" THEN "nonInterleaved" ELSE op
    /\ mode' = "400"
    /\ comp' = c
    /\ scan' = [scan EXCEPT !.Td[c] = td, !.Ta[c] = ta, !.Ss = ss, !.Ah = ah]
    /\ alone' = (op' # "baseline")
    /\ nq' = 1
    /\ Start

\* SOS with the three components.
SOSAll(td, ta, ah) ==
    /\ phase = "headers" /\ frame # NoFrame /\ frame.sampling # "400"
    /\ scans = 0 \/ frame.coding = "progressive"
    /\ frame.coding = "baseline" => ah = 0
    /\ scan' = [Td |-> td, Ta |-> ta, Ss |-> 0, Ah |-> ah]
    /\ mode' = frame.sampling
    /\ comp' = IF frame.coding = "progressive" THEN 0 ELSE comp
    /\ alone' = FALSE
    /\ nq' = 3
    /\ Start
    /\ UNCHANGED op

\* The hardware has finished the scan and another one follows.  After a
\* progressive scan of one component the call returns, and the next call
\* starts with findhufftable = 0; otherwise the same call reads on.
\* (JpegDecInitHW clears nonInterleavedScanReady once it has written the tables,
\* and nothing reads it between that and the end of the scan.)
ScanDone ==
    /\ phase = "run" /\ op # "baseline" /\ scans < MaxScans
    /\ phase' = "headers"
    /\ ready' = (op = "nonInterleaved")
    /\ found' = IF op = "progressive" /\ alone THEN FALSE ELSE found
    /\ UNCHANGED <<fuse, huff, defined, frame, op, mode, scan, comp, alone, nq,
                   scans>>

Ids == IF frame = NoFrame THEN {} ELSE TableIds[frame.coding]

Next ==
    \/ \E s \in Markers, n \in AcLengths : DHT(s, n)
    \/ \E c \in {"baseline", "progressive"}, m \in Modes, q \in QuantChoices :
           SOF(c, m, q)
    \/ \E c \in 0 .. 2, td, ta \in Ids, ss, ah \in 0 .. 1 :
           SOSOne(c, td, ta, ss, ah)
    \/ \E td, ta \in [0 .. 2 -> Ids], ah \in 0 .. 1 : SOSAll(td, ta, ah)
    \/ ScanDone

Spec == Init /\ [][Next]_vars

-----------------------------------------------------------------------------
(* What the driver writes for the scan: where each table lies in the       *)
(* buffer (in cells) and how many of its values survive the writing.       *)

WordsBefore(base, all) == 4 * (base - IF all THEN 0 ELSE 32)

\* JpegDecWriteTables: the two tables of a kind in the order the hardware
\* wants, the one of the luma component first; no second one in grey.
Luma == IF mode = "400" /\ ready THEN comp ELSE 0
Blank == <<"zero", 0>>
Pair(kind, n) ==
    <<<<kind, IF n = 0 THEN 0 ELSE 1>>,
      IF mode = "400" THEN Blank ELSE <<kind, IF n = 0 THEN 1 ELSE 0>>>>

Segments == Pair("ac", scan.Ta[Luma]) \o Pair("dc", scan.Td[Luma])
Offset == <<0, 162, 324, 336>>
Width(kind) == IF kind = "ac" THEN 162 ELSE 12
Missing(k) == Segments[k] # Blank /\ huff[Segments[k]].n = 0

\* The segments follow each other without alignment, and the one of a table
\* that was never defined clears the word it starts in.
Kept(k) ==
    (IF k <= 2 THEN 162 ELSE 12)
        - (IF k < 4 /\ Missing(k + 1) THEN Offset[k + 1] % 4 ELSE 0)

BaselineWrites ==
    {[tab |-> Segments[k], at |-> 64 * nq + Offset[k], kept |-> Kept(k)] :
        k \in 1 .. 4}

\* JpegDecWriteTablesNonInterleaved: one component, fixed places.
NonInterleavedWrites ==
    {[tab |-> <<"ac", scan.Ta[comp]>>, at |-> WordsBefore(48, FALSE), kept |-> 162],
     [tab |-> <<"dc", scan.Td[comp]>>, at |-> WordsBefore(129, FALSE), kept |-> 12]}

\* JpegDecWriteTablesProgressive: no table for a later DC stage; only the
\* AC table of component 0 is filled to a whole word, the others lose the
\* two values of the last word.
\* Mutant: a DC table is taken to fill two words.
DcBase_TwoWords == <<129, 131, 133>>

DcBase == <<129, 132, 135>>

ProgressiveAt(c) ==
    IF scan.Ss # 0 THEN WordsBefore(48, ~alone)
    ELSE IF alone THEN WordsBefore(DcBase[1], FALSE)
    ELSE WordsBefore(DcBase[c + 1], TRUE)

ProgressiveWrites ==
    IF scan.Ah # 0 /\ scan.Ss = 0 THEN {}
    ELSE {IF scan.Ss = 0
          THEN [tab |-> <<"dc", scan.Td[c]>>, at |-> ProgressiveAt(c), kept |-> 12]
          ELSE [tab |-> <<"ac", scan.Ta[c]>>, at |-> ProgressiveAt(c),
                kept |-> IF c = 0 THEN 162 ELSE 160] :
          c \in IF alone THEN {comp} ELSE 0 .. 2}

Writes ==
    CASE op = "baseline" -> BaselineWrites
      [] op = "nonInterleaved" -> NonInterleavedWrites
      [] op = "progressive" -> ProgressiveWrites

\* JPEGDEC_PROGRESSIVE_TABLE_SIZE and JPEGDEC_BASELINE_TABLE_SIZE.
TableSize == IF op = "progressive" THEN 576 ELSE 544

\* The quantisation tables follow each other from cell 0; only tables 0 and
\* 1 are ever written.
QuantWritten ==
    [j \in 1 .. (IF op = "baseline" \/ alone THEN nq ELSE 3) |->
        IF frame.Tq[1 + (j - 1) + (IF alone THEN comp ELSE 0)] = 0 THEN 0 ELSE 1]

-----------------------------------------------------------------------------
(* The code length counts in the registers of each hardware slot.          *)

BaselineLengths ==
    [s \in {"ac", "dc"} \X (1 .. 2) |->
        <<s[1], IF ((IF s[1] = "ac" THEN scan.Ta ELSE scan.Td)[0] = 0) = (s[2] = 1)
                THEN 0 ELSE 1>>]

NonInterleavedLengths ==
    [s \in {"ac", "dc"} \X {1} |->
        <<s[1], IF (IF s[1] = "ac" THEN scan.Ta ELSE scan.Td)[comp] = 0
                THEN 0 ELSE 1>>]

\* A later scan of the DC coefficients codes single bits: all counts are zero.
NoCodes == <<>>

AloneLengths ==
    IF scan.Ss # 0 THEN [s \in {<<"ac", 1>>} |-> <<"ac", scan.Ta[comp]>>]
    ELSE IF scan.Ah = 0 THEN [s \in {<<"dc", 1>>} |-> <<"dc", scan.Td[comp]>>]
    ELSE NoCodes

TogetherLengths == [s \in {"dc"} \X (1 .. 3) |-> <<"dc", scan.Td[s[2] - 1]>>]

ProgressiveLengths ==
    IF alone THEN AloneLengths
    ELSE IF scan.Ah = 0 THEN TogetherLengths
    ELSE NoCodes

Lengths ==
    CASE op = "baseline" -> BaselineLengths
      [] op = "nonInterleaved" -> NonInterleavedLengths
      [] op = "progressive" -> ProgressiveLengths

\* Mutant: the table numbers are used as they are.
ChromaSlot_Plain(kind, c) ==
    LET T == IF kind = "ac" THEN scan.Ta ELSE scan.Td
    IN IF kind = "dc" /\ op = "progressive" THEN (IF alone THEN 1 ELSE c + 1)
       ELSE T[c] + 1

\* JpegDecChromaTableSelectors: the slot a chroma component is told to use.
ChromaSlot(kind, c) ==
    LET T == IF kind = "ac" THEN scan.Ta ELSE scan.Td
    IN IF kind = "dc" /\ op = "progressive" THEN (IF alone THEN 1 ELSE c + 1)
       ELSE IF T[0] = 0 THEN T[c] + 1
       ELSE IF T[0] = T[c] THEN 1 ELSE 2

-----------------------------------------------------------------------------
(* The hardware.  One component is decoded as a grey picture, with the     *)
(* first slots; the places are those of the register description.          *)

Decoded == IF nq = 1 THEN {comp} ELSE 0 .. 2
Slot(kind, c) == IF nq = 1 \/ c = 0 THEN 1 ELSE ChromaSlot(kind, c)
SlotAt(kind, s) ==
    64 * nq + (IF kind = "ac" THEN 162 * (s - 1) ELSE 324 + 12 * (s - 1))
Used == IF frame.coding = "baseline" THEN {"ac", "dc"}
        ELSE IF scan.Ss # 0 THEN {"ac"} ELSE IF scan.Ah = 0 THEN {"dc"} ELSE {}
Named(kind, c) == <<kind, (IF kind = "ac" THEN scan.Ta ELSE scan.Td)[c]>>

\* The two cases in which the last two values of an AC table of more than
\* 160 values are known to be lost: a baseline colour picture in which only
\* one AC table was ever defined, a progressive scan of a chroma component.
TailLost(t, c) ==
    /\ t[1] = "ac" /\ huff[t].n > 160
    /\ \/ op = "baseline" /\ Missing(2)
       \/ op = "progressive" /\ c # 0

(***************************************************************************)
(* Properties.                                                             *)
(***************************************************************************)

\* For every component of a scan and every kind of table the scan uses, the
\* slot the hardware looks in holds the lengths and, in the right place, all
\* the values of the table the scan header names, and the quantisation table
\* is the one the frame header names if that is 0 or 1 (jpegdecinternal.c:
\* table writers, length writers and JpegDecChromaTableSelectors agree).
TablesAgree ==
    phase = "run" =>
        \A c \in Decoded :
            /\ \A kind \in {k \in Used : huff[Named(k, c)].n > 0} :
                   /\ Lengths[<<kind, Slot(kind, c)>>] = Named(kind, c)
                   /\ \E w \in Writes :
                         /\ w.tab = Named(kind, c)
                         /\ w.at = SlotAt(kind, Slot(kind, c))
                         /\ \/ w.kept >= huff[w.tab].n
                            \/ TailLost(w.tab, c)
            /\ frame.Tq[c + 1] <= 1 =>
                   QuantWritten[IF nq = 1 THEN 1 ELSE c + 1] = frame.Tq[c + 1]

\* What is written for a scan stays inside the table buffer of its kind of
\* picture, behind the quantisation tables, and no table is written over
\* another (the places of jpegdeccontainer.h:66 and the size the buffer is
\* allocated with, jpegdecinternal.c:1152).
WritesApart ==
    phase = "run" =>
        \A w \in Writes :
            /\ w.at >= 64 * Len(QuantWritten)
            /\ w.at + w.kept <= TableSize
            /\ \A v \in Writes :
                  v # w => \/ w.at + w.kept <= v.at
                           \/ v.at + v.kept <= w.at

\* A table that the stream of a baseline or non-interleaved picture defines is
\* the one its scans are decoded with: no standard table takes its place
\* (jpegdecapi.c:2073, findhufftable).  Not so for progressive pictures: every
\* call with a scan but without a DHT marker puts the standard tables back.
OwnTables ==
    phase = "run" /\ op # "progressive" =>
        \A c \in Decoded, kind \in Used :
            Named(kind, c) \in defined => huff[Named(kind, c)].from = "stream"
=============================================================================
