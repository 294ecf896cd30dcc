------------------------ MODULE JpegHeaders_proofs ------------------------
(***************************************************************************)
(* The headers of a JPEG picture.  First its tables (JpegTables), for any  *)
(* markers, table numbers, samplings, answers of the hardware query and    *)
(* number of scans: the tables of a baseline or non-interleaved picture    *)
(* are the stream's own, what is written for a scan stays in its place of  *)
(* the table buffer, and every component of a scan finds there the table   *)
(* its scan header names.  Then the walks over its segments (JpegMarkers), *)
(* for any streams of well-formed segments, cut anywhere: what the client  *)
(* is told is true, and the decoder finds the same picture.                *)
(***************************************************************************)
EXTENDS JpegTables, JpegMarkers, WellFoundedInduction, TLAPS

\* A picture that is not progressive is decoded in one call, and findhufftable
\* remembers its DHT markers from the first to the last scan.
MarkersRemembered ==
    scans = 0 \/ op # "progressive" =>
        /\ defined # {} => found
        /\ \A t \in defined : huff[t].from = "stream"

OwnInv ==
    /\ scans \in Nat
    /\ phase = "run" => scans > 0
    /\ defined \subseteq Tables
    /\ MarkersRemembered

LEMMA OwnInit == Init => OwnInv
BY DEF Init, OwnInv, MarkersRemembered

\* The header loop's end keeps the tables of the stream.
LEMMA OwnStart ==
    ASSUME OwnInv, TablesAssumption, Start, op' # "progressive" => op # "progressive"
    PROVE  OwnInv'
<1>1. scans' \in Nat /\ scans' > 0 /\ defined' = defined /\ found' = found /\ scans' = scans + 1
  BY DEF OwnInv, Start
<1>2. ASSUME op' # "progressive" PROVE huff' = huff \/ defined = {}
  BY <1>2 DEF OwnInv, MarkersRemembered, Start, WithDefaults
<1> QED BY <1>1, <1>2 DEF OwnInv, MarkersRemembered

LEMMA OwnStep == OwnInv /\ [Next]_vars => OwnInv'
<1> SUFFICES ASSUME OwnInv, [Next]_vars PROVE OwnInv'
  OBVIOUS
<1> USE TablesAssumption
<1>1. ASSUME NEW s \in Markers, NEW m \in AcLengths, DHT(s, m) PROVE OwnInv'
  <2>1. s \subseteq Tables
    BY DEF TablesAssumption, Tables
  <2>2. /\ huff' = [t \in Tables |->
                      IF t \in s THEN [n    |-> IF t[1] = "ac" THEN m ELSE 12,
                                       from |-> "stream"]
                      ELSE huff[t]]
        /\ defined' = defined \union s /\ found' = TRUE
        /\ scans' = scans /\ op' = op /\ phase' = phase
    BY <1>1 DEF DHT
  <2>3. \A t \in defined' : t \in s \/ huff'[t] = huff[t]
    BY <2>1, <2>2 DEF OwnInv
  <2>4. \A t \in s : huff'[t].from = "stream"
    BY <2>1, <2>2
  <2> QED BY <2>1, <2>2, <2>3, <2>4 DEF OwnInv, MarkersRemembered
<1>2. ASSUME NEW c, NEW m, NEW q, SOF(c, m, q) PROVE OwnInv'
  BY <1>2 DEF SOF, OwnInv, MarkersRemembered
<1>3. ASSUME NEW c, NEW td, NEW ta, NEW ss, NEW ah, SOSOne(c, td, ta, ss, ah)
      PROVE  OwnInv'
  BY <1>3, OwnStart DEF SOSOne
<1>4. ASSUME NEW td, NEW ta, NEW ah, SOSAll(td, ta, ah) PROVE OwnInv'
  BY <1>4, OwnStart DEF SOSAll
<1>5. CASE ScanDone
  BY <1>5 DEF ScanDone, OwnInv, MarkersRemembered
<1>6. CASE UNCHANGED vars
  BY <1>6 DEF vars, OwnInv, MarkersRemembered
<1> QED BY <1>1, <1>2, <1>3, <1>4, <1>5, <1>6 DEF Next

\* Every table that the stream of a baseline or non-interleaved picture has
\* defined is the one its scans are decoded with (jpegdecapi.c:2073).
THEOREM StreamTablesUsed == Spec => []OwnTables
<1>1. OwnInv => OwnTables
  BY DEF OwnInv, MarkersRemembered, OwnTables
<1> QED BY <1>1, OwnInit, OwnStep, PTL DEF Spec

-----------------------------------------------------------------------------
\* What a started scan has told: how many quantisation tables it writes, and
\* whether it is one component's.
PlaceInv ==
    /\ scans \in Nat
    /\ op \in {"baseline", "nonInterleaved", "progressive"}
    /\ op = "nonInterleaved" => scans > 0
    /\ frame.coding \in {"none", "baseline", "progressive"}
    /\ frame # NoFrame => frame.coding # "none"
    /\ op = "progressive" <=> frame.coding = "progressive"
    /\ phase = "run" =>
         /\ nq \in {1, 3}
         /\ op # "baseline" => alone = (nq = 1)
         /\ op = "nonInterleaved" => nq = 1
         /\ op = "progressive" /\ nq = 3 => scan.Ss = 0

LEMMA PlaceInit == Init => PlaceInv
BY DEF Init, PlaceInv, NoFrame

LEMMA PlaceStep == PlaceInv /\ [Next]_vars => PlaceInv'
<1> SUFFICES ASSUME PlaceInv, [Next]_vars PROVE PlaceInv'
  OBVIOUS
<1>1. ASSUME NEW s \in Markers, NEW m \in AcLengths, DHT(s, m) PROVE PlaceInv'
  BY <1>1 DEF DHT, PlaceInv
<1>2. ASSUME NEW c \in {"baseline", "progressive"}, NEW m, NEW q, SOF(c, m, q)
      PROVE  PlaceInv'
  BY <1>2 DEF SOF, PlaceInv, NoFrame
<1>3. ASSUME NEW c, NEW td, NEW ta, NEW ss, NEW ah, SOSOne(c, td, ta, ss, ah)
      PROVE  PlaceInv'
  <2>1. op' # "baseline" => alone' = (nq' = 1)
    BY <1>3 DEF SOSOne
  <2>2. /\ op' \in {op, "nonInterleaved"} /\ (op' # op => op = "baseline")
        /\ nq' = 1 /\ frame' = frame /\ scans' = scans + 1
    BY <1>3 DEF SOSOne, Start
  <2> QED BY <2>1, <2>2 DEF PlaceInv
<1>4. ASSUME NEW td, NEW ta, NEW ah, SOSAll(td, ta, ah) PROVE PlaceInv'
  <2>1. /\ alone' = FALSE /\ nq' = 3 /\ scan'.Ss = 0
        /\ op' = op /\ frame' = frame /\ scans' = scans + 1
    BY <1>4 DEF SOSAll, Start
  <2>3. alone' = (nq' = 1)
    <3>1. nq' # 1
      BY <2>1
    <3> QED BY <2>1, <3>1, Zenon
  <2>2. op # "nonInterleaved"
    BY <1>4 DEF SOSAll, PlaceInv
  <2> QED BY <2>1, <2>2, <2>3 DEF PlaceInv
<1>5. CASE ScanDone
  BY <1>5 DEF ScanDone, PlaceInv
<1>6. CASE UNCHANGED vars
  BY <1>6 DEF vars, PlaceInv
<1> QED BY <1>1, <1>2, <1>3, <1>4, <1>5, <1>6 DEF Next

\* A segment keeps no more values than its table may have.
LEMMA KeptBound ==
    ASSUME NEW k \in 1 .. 4
    PROVE  /\ Kept(k) \in Nat
           /\ Kept(k) <= (IF k <= 2 THEN 162 ELSE 12)
BY DEF Kept, Offset

LEMMA QuantLength ==
    ASSUME nq \in {1, 3}, op # "baseline" => alone = (nq = 1)
    PROVE  Len(QuantWritten) = nq
<1>1. (IF op = "baseline" \/ alone THEN nq ELSE 3) = nq
  OBVIOUS
<1> DEFINE q(j) == IF frame.Tq[1 + (j - 1) + (IF alone THEN comp ELSE 0)] = 0 THEN 0 ELSE 1
<1>2. QuantWritten = [j \in 1 .. nq |-> q(j)]
  BY <1>1 DEF QuantWritten
<1> HIDE DEF q
<1> QED BY <1>2

\* Every value of a scan lies behind the quantisation tables, inside the buffer,
\* and tables do not overlap: the four segments of a baseline picture follow each
\* other, the places of the other two kinds are fixed (jpegdeccontainer.h:66).
LEMMA PlacesApart == PlaceInv => WritesApart
<1> SUFFICES ASSUME PlaceInv, phase = "run"
             PROVE  \A w \in Writes :
                      /\ w.at >= 64 * Len(QuantWritten)
                      /\ w.at + w.kept <= TableSize
                      /\ \A v \in Writes :
                            v # w => \/ w.at + w.kept <= v.at
                                     \/ v.at + v.kept <= w.at
  BY DEF WritesApart
<1> USE DEF TableSize
<1>1. /\ Len(QuantWritten) = nq /\ nq \in {1, 3}
  BY QuantLength DEF PlaceInv
<1>2. CASE op = "baseline"
  <2> DEFINE W(k) == [tab |-> Segments[k], at |-> 64 * nq + Offset[k], kept |-> Kept(k)]
  <2>1. Writes = {W(k) : k \in 1 .. 4}
    BY <1>2 DEF Writes, BaselineWrites
  <2>2. ASSUME NEW k \in 1 .. 4
        PROVE  /\ W(k).at = 64 * nq + (IF k = 1 THEN 0 ELSE IF k = 2 THEN 162
                                       ELSE IF k = 3 THEN 324 ELSE 336)
               /\ W(k).kept \in Nat
               /\ W(k).kept <= (IF k <= 2 THEN 162 ELSE 12)
    BY KeptBound DEF Offset
  <2> HIDE DEF W
  <2>3. ASSUME NEW i \in 1 .. 4, NEW k \in 1 .. 4, i < k
        PROVE  W(i).at + W(i).kept <= W(k).at
    <3>1. /\ W(i).at = 64 * nq + (IF i = 1 THEN 0 ELSE IF i = 2 THEN 162
                                  ELSE IF i = 3 THEN 324 ELSE 336)
          /\ W(i).kept \in Nat
          /\ W(i).kept <= (IF i <= 2 THEN 162 ELSE 12)
      BY <2>2
    <3>2. W(k).at = 64 * nq + (IF k = 1 THEN 0 ELSE IF k = 2 THEN 162
                               ELSE IF k = 3 THEN 324 ELSE 336)
      BY <2>2
    <3> QED BY <1>1, <2>3, <3>1, <3>2
  <2>4. ASSUME NEW k \in 1 .. 4
        PROVE  W(k).at >= 64 * nq /\ W(k).at + W(k).kept <= 544
    <3>1. /\ W(k).at = 64 * nq + (IF k = 1 THEN 0 ELSE IF k = 2 THEN 162
                                  ELSE IF k = 3 THEN 324 ELSE 336)
          /\ W(k).kept \in Nat
          /\ W(k).kept <= (IF k <= 2 THEN 162 ELSE 12)
      BY <2>2
    <3> QED BY <1>1, <3>1
  <2> QED BY <1>1, <1>2, <2>1, <2>3, <2>4
<1>3. CASE op = "nonInterleaved"
  <2>1. nq = 1
    BY <1>3 DEF PlaceInv
  <2> QED BY <1>1, <1>3, <2>1 DEF Writes, NonInterleavedWrites, WordsBefore
<1>4. CASE op = "progressive"
  <2>1. alone = (nq = 1) /\ (nq = 3 => scan.Ss = 0)
    BY <1>4 DEF PlaceInv
  <2> DEFINE W(c) == IF scan.Ss = 0
          THEN [tab |-> <<"dc", scan.Td[c]>>, at |-> ProgressiveAt(c), kept |-> 12]
          ELSE [tab |-> <<"ac", scan.Ta[c]>>, at |-> ProgressiveAt(c),
                kept |-> IF c = 0 THEN 162 ELSE 160]
  <2>2. Writes \subseteq {W(c) : c \in IF alone THEN {comp} ELSE 0 .. 2}
    BY <1>4 DEF Writes, ProgressiveWrites
  <2>3. CASE nq = 1
    <3> alone = TRUE
      BY <2>1, <2>3
    <3>1. Writes \subseteq {W(comp)}
      BY <2>2
    <3>2. W(comp).at \in {64, 388} /\ W(comp).kept \in {12, 160, 162}
      BY DEF ProgressiveAt, WordsBefore, DcBase
    <3> HIDE DEF W
    <3> QED BY <1>1, <1>4, <2>3, <3>1, <3>2
  <2>4. CASE nq = 3
    <3> nq # 1
      BY <2>4
    <3> alone = FALSE /\ scan.Ss = 0
      BY <2>1, <2>4
    <3>1. Writes \subseteq {W(c) : c \in 0 .. 2}
      BY <2>2
    <3>2. ASSUME NEW c \in 0 .. 2
          PROVE  W(c).at = 516 + 12 * c /\ W(c).kept = 12
      BY DEF ProgressiveAt, WordsBefore, DcBase
    <3> HIDE DEF W
    <3> QED BY <1>1, <1>4, <2>4, <3>1, <3>2
  <2> QED BY <1>1, <2>3, <2>4
<1> QED BY <1>2, <1>3, <1>4 DEF PlaceInv

\* What the driver writes for a scan stays in its place of the table buffer, for
\* every table a stream may define and name.
THEOREM TablesApart == Spec => []WritesApart
<1> QED BY PlaceInit, PlaceStep, PlacesApart, PTL DEF Spec

-----------------------------------------------------------------------------
(***************************************************************************)
(* The three table writers, the three length writers and the selector      *)
(* agree.                                                                  *)
(***************************************************************************)
HuffTyped ==
    /\ huff \in [Tables -> [n : 0 .. 162, from : {"nobody", "stream", "default"}]]
    /\ \A t \in Tables : t[1] = "dc" => huff[t].n <= 12

\* The tables a scan names are of the number its coding allows; before the
\* first scan they are all 0.
ScanTyped ==
    /\ scan \in [Ta : [0 .. 2 -> 0 .. 3], Td : [0 .. 2 -> 0 .. 3], Ss : 0 .. 1, Ah : 0 .. 1]
    /\ \A c \in 0 .. 2 :
          /\ scans = 0 => scan.Ta[c] = 0 /\ scan.Td[c] = 0
          /\ frame.coding # "progressive" => scan.Ta[c] \in 0 .. 1 /\ scan.Td[c] \in 0 .. 1

\* A picture decoded as baseline is decoded whole, from its first component on.
FrameTyped ==
    /\ frame.Tq \in [1 .. 3 -> Nat]
    /\ comp \in 0 .. 2 /\ (scans = 0 => comp = 0)
    /\ op = "baseline" => comp = 0 /\ (frame # NoFrame => mode = frame.sampling)
    /\ phase = "run" => frame # NoFrame /\ (nq = 1 <=> mode = "400")

AgreeInv == PlaceInv /\ HuffTyped /\ ScanTyped /\ FrameTyped
LEMMA AgreeInit == Init => AgreeInv
<1> SUFFICES ASSUME Init PROVE AgreeInv
  OBVIOUS
<1>1. HuffTyped
  BY DEF Init, HuffTyped, Tables
<1>2. ScanTyped
  BY DEF Init, ScanTyped
<1>3. FrameTyped
  BY DEF Init, FrameTyped, NoFrame
<1> QED
  BY <1>1, <1>2, <1>3, PlaceInit DEF AgreeInv

\* The standard tables have as many values as a table may have.
LEMMA HuffStart == HuffTyped /\ Start => HuffTyped'
<1> SUFFICES ASSUME HuffTyped, Start PROVE HuffTyped'
  OBVIOUS
<1>1. CASE huff' = huff
  BY <1>1 DEF HuffTyped
<1>2. CASE huff' = [t \in Tables |-> IF t[2] > 1 THEN huff[t]
                       ELSE [n |-> IF t[1] = "ac" THEN 162 ELSE 12, from |-> "default"]]
  BY <1>2 DEF HuffTyped
<1> QED
  BY <1>1, <1>2 DEF Start, WithDefaults, Defaults

LEMMA HuffMarker ==
    ASSUME HuffTyped, NEW s \in Markers, NEW m \in AcLengths, DHT(s, m)
    PROVE  HuffTyped'
<1>1. m \in 0 .. 162
  BY TablesAssumption
<1> QED
  BY <1>1 DEF HuffTyped, DHT

LEMMA AgreeOne ==
    ASSUME AgreeInv, PlaceInv', NEW c \in 0 .. 2, NEW td \in Ids, NEW ta \in Ids,
           NEW ss \in 0 .. 1, NEW ah \in 0 .. 1, SOSOne(c, td, ta, ss, ah)
    PROVE  AgreeInv'
<1> USE DEF SOSOne
<1>1. Start /\ scans' > 0 /\ frame' = frame /\ frame # NoFrame /\ phase' = "run"
  BY DEF Start, AgreeInv, PlaceInv
<1>2. /\ td \in 0 .. 3 /\ ta \in 0 .. 3
      /\ frame.coding # "progressive" => td \in 0 .. 1 /\ ta \in 0 .. 1
  BY <1>1, TablesAssumption DEF Ids, AgreeInv, PlaceInv
<1>3. ScanTyped'
  <2>1. /\ scan'.Ta = [scan.Ta EXCEPT ![c] = ta] /\ scan'.Td = [scan.Td EXCEPT ![c] = td]
        /\ scan' \in [Ta : [0 .. 2 -> 0 .. 3], Td : [0 .. 2 -> 0 .. 3],
                      Ss : 0 .. 1, Ah : 0 .. 1]
    BY <1>2 DEF AgreeInv, ScanTyped
  <2>2. ASSUME NEW d \in 0 .. 2, frame.coding # "progressive"
        PROVE  scan'.Ta[d] \in 0 .. 1 /\ scan'.Td[d] \in 0 .. 1
    BY <1>2, <2>1, <2>2 DEF AgreeInv, ScanTyped
  <2> QED
    BY <1>1, <2>1, <2>2 DEF ScanTyped
<1>4. FrameTyped'
  <2>1. CASE op' = "baseline"
    <3>1. op = "baseline" /\ mode = "400" /\ frame.sampling = "400" /\ c = 0
      BY <1>1, <2>1 DEF AgreeInv, FrameTyped
    <3> QED
      BY <1>1, <3>1 DEF AgreeInv, FrameTyped
  <2>2. CASE op' # "baseline"
    BY <1>1, <2>2 DEF AgreeInv, FrameTyped
  <2> QED
    BY <2>1, <2>2
<1> QED
  BY <1>1, <1>3, <1>4, HuffStart DEF AgreeInv

LEMMA AgreeAll ==
    ASSUME AgreeInv, PlaceInv', NEW td \in [0 .. 2 -> Ids], NEW ta \in [0 .. 2 -> Ids],
           NEW ah \in 0 .. 1, SOSAll(td, ta, ah)
    PROVE  AgreeInv'
<1> USE DEF SOSAll
<1>1. Start /\ scans' > 0 /\ frame' = frame /\ frame # NoFrame /\ phase' = "run"
  BY DEF Start, AgreeInv, PlaceInv
<1>2. ASSUME NEW c \in 0 .. 2
      PROVE  /\ td[c] \in 0 .. 3 /\ ta[c] \in 0 .. 3
             /\ frame.coding # "progressive" => td[c] \in 0 .. 1 /\ ta[c] \in 0 .. 1
  BY <1>1, TablesAssumption DEF Ids, AgreeInv, PlaceInv
<1>3. ScanTyped'
  BY <1>1, <1>2 DEF ScanTyped
<1>4. FrameTyped'
  <2>1. op = "baseline" => comp = 0
    BY DEF AgreeInv, FrameTyped
  <2>2. nq' = 3 /\ mode' = frame.sampling /\ mode' # "400"
    OBVIOUS
  <2>3. comp' \in 0 .. 2 /\ (op' = "baseline" => comp' = 0)
    BY <2>1 DEF AgreeInv, FrameTyped
  <2> QED
    BY <1>1, <2>2, <2>3 DEF AgreeInv, FrameTyped
<1> QED
  BY <1>1, <1>3, <1>4, HuffStart DEF AgreeInv

LEMMA AgreeStep == AgreeInv /\ [Next]_vars => AgreeInv'
<1> SUFFICES ASSUME AgreeInv, [Next]_vars PROVE AgreeInv'
  OBVIOUS
<1>1. PlaceInv'
  BY PlaceStep DEF AgreeInv
<1>2. ASSUME NEW s \in Markers, NEW m \in AcLengths, DHT(s, m) PROVE AgreeInv'
  <2>1. HuffTyped'
    BY <1>2, HuffMarker DEF AgreeInv
  <2> QED
    BY <1>1, <1>2, <2>1 DEF DHT, AgreeInv, ScanTyped, FrameTyped
<1>3. ASSUME NEW c \in {"baseline", "progressive"}, NEW m \in Modes, NEW q \in QuantChoices,
             SOF(c, m, q)
      PROVE  AgreeInv'
  <2>1. /\ scans = 0 /\ phase' = "headers" /\ UNCHANGED <<huff, scan, comp, scans>>
        /\ mode' = m /\ frame' = [coding |-> c, sampling |-> m, Tq |-> q]
    BY <1>3 DEF SOF
  <2>2. q \in [1 .. 3 -> Nat]
    BY TablesAssumption
  <2>3. FrameTyped'
    BY <2>1, <2>2 DEF AgreeInv, FrameTyped
  <2>4. ScanTyped' /\ HuffTyped'
    BY <2>1 DEF AgreeInv, ScanTyped, HuffTyped
  <2> QED
    BY <1>1, <2>3, <2>4 DEF AgreeInv
<1>4. CASE ScanDone
  BY <1>1, <1>4 DEF ScanDone, AgreeInv, HuffTyped, ScanTyped, FrameTyped
<1>5. CASE UNCHANGED vars
  BY <1>1, <1>5 DEF vars, AgreeInv, HuffTyped, ScanTyped, FrameTyped
<1> QED
  BY <1>1, <1>2, <1>3, <1>4, <1>5, AgreeOne, AgreeAll DEF Next

\* The table that component c names, and how many values it has.
LEMMA NamedFacts ==
    ASSUME AgreeInv, NEW c \in 0 .. 2, NEW kind \in {"ac", "dc"}
    PROVE  /\ Named(kind, c) \in Tables
           /\ huff[Named(kind, c)].n \in 0 .. (IF kind = "ac" THEN 162 ELSE 12)
<1>1. Named(kind, c) = <<kind, (IF kind = "ac" THEN scan.Ta ELSE scan.Td)[c]>>
  BY DEF Named
<1>2. (IF kind = "ac" THEN scan.Ta ELSE scan.Td)[c] \in 0 .. 3
  BY DEF AgreeInv, ScanTyped
<1>3. Named(kind, c) \in Tables
  BY <1>1, <1>2 DEF Tables
<1>4. huff[Named(kind, c)].n \in 0 .. 162
  BY <1>3 DEF AgreeInv, HuffTyped
<1>5. kind = "dc" => huff[Named(kind, c)].n <= 12
  BY <1>1, <1>3 DEF AgreeInv, HuffTyped
<1> QED
  BY <1>3, <1>4, <1>5

\* What TablesAgree says of one table.
Found(kind, c) ==
    /\ Lengths[<<kind, Slot(kind, c)>>] = Named(kind, c)
    /\ \E w \in Writes :
          /\ w.tab = Named(kind, c)
          /\ w.at = SlotAt(kind, Slot(kind, c))
          /\ \/ w.kept >= huff[w.tab].n
             \/ TailLost(w.tab, c)

LEMMA TwoPairs ==
    ASSUME NEW a, NEW b, NEW c, NEW d
    PROVE  LET s == <<a, b>> \o <<c, d>>
           IN  s[1] = a /\ s[2] = b /\ s[3] = c /\ s[4] = d
<1> DEFINE S == {a, b, c, d}
<1>1. /\ <<a, b>> \in Seq(S) /\ <<c, d>> \in Seq(S)
      /\ Len(<<a, b>>) = 2 /\ Len(<<c, d>>) = 2
  OBVIOUS
<1>2. \A i \in 1 .. 4 :
        (<<a, b>> \o <<c, d>>)[i] = IF i <= 2 THEN <<a, b>>[i] ELSE <<c, d>>[i - 2]
  BY <1>1
<1> QED
  BY <1>2

\* The two tables of a kind lie in the order of the slots, the one of the first
\* component before the other.
LEMMA BaselineAgrees ==
    ASSUME AgreeInv, phase = "run", op = "baseline", NEW c \in Decoded, NEW kind \in {"ac", "dc"}
    PROVE  Found(kind, c)
<1> DEFINE T == IF kind = "ac" THEN scan.Ta ELSE scan.Td
           s == Slot(kind, c)
           k == (IF kind = "ac" THEN 0 ELSE 2) + s
           W(j) == [tab |-> Segments[j], at |-> 64 * nq + Offset[j], kept |-> Kept(j)]
<1>1. /\ comp = 0 /\ nq \in {1, 3} /\ (nq = 1 <=> mode = "400")
      /\ c \in 0 .. 2 /\ (nq = 1 => c = 0)
      /\ frame.coding # "progressive"
  BY DEF AgreeInv, PlaceInv, FrameTyped, Decoded
<1>2. T[0] \in 0 .. 1 /\ T[c] \in 0 .. 1
  BY <1>1 DEF AgreeInv, ScanTyped
<1>3. /\ s \in {1, 2} /\ (s = 2 => nq = 3)
      /\ T[c] = IF (T[0] = 0) = (s = 1) THEN 0 ELSE 1
  BY <1>1, <1>2 DEF Slot, ChromaSlot
<1>4. Named(kind, c) = <<kind, T[c]>>
  BY DEF Named
<1> HIDE DEF s, T
<1>5. Lengths[<<kind, s>>] = Named(kind, c)
  <2>1. Lengths = [r \in {"ac", "dc"} \X (1 .. 2) |->
                      <<r[1], IF ((IF r[1] = "ac" THEN scan.Ta ELSE scan.Td)[0] = 0) = (r[2] = 1)
                              THEN 0 ELSE 1>>]
    BY DEF Lengths, BaselineLengths
  <2>2. <<kind, s>> \in {"ac", "dc"} \X (1 .. 2)
    BY <1>3
  <2> QED
    BY <1>3, <1>4, <2>1, <2>2 DEF T
<1>6. k \in 1 .. 4 /\ Segments[k] = <<kind, T[c]>>
  <2>1. Segments = Pair("ac", scan.Ta[0]) \o Pair("dc", scan.Td[0])
    BY <1>1 DEF Segments, Luma
  <2>2. /\ Segments[1] = Pair("ac", scan.Ta[0])[1] /\ Segments[2] = Pair("ac", scan.Ta[0])[2]
        /\ Segments[3] = Pair("dc", scan.Td[0])[1] /\ Segments[4] = Pair("dc", scan.Td[0])[2]
    BY <2>1, TwoPairs DEF Pair
  <2>3. Segments[k] = Pair(kind, T[0])[s]
    BY <1>3, <2>2 DEF T
  <2>4. Pair(kind, T[0])[s] = <<kind, T[c]>>
    BY <1>1, <1>2, <1>3 DEF Pair
  <2> QED
    BY <1>3, <2>3, <2>4
<1>7. 64 * nq + Offset[k] = SlotAt(kind, s)
  BY <1>1, <1>3 DEF Offset, SlotAt
<1>8. W(k) \in Writes
  BY <1>6 DEF Writes, BaselineWrites
<1>9. Kept(k) >= huff[Named(kind, c)].n \/ TailLost(Named(kind, c), c)
  <2>1. huff[Named(kind, c)].n \in 0 .. (IF kind = "ac" THEN 162 ELSE 12)
    BY <1>1, NamedFacts
  <2>2. CASE kind = "dc" \/ s = 2 \/ ~Missing(2)
    <3>1. Kept(k) = IF kind = "ac" THEN 162 ELSE 12
      BY <1>3, <2>2 DEF Kept, Offset
    <3> QED
      BY <2>1, <3>1
  <2>3. CASE kind = "ac" /\ s = 1 /\ Missing(2)
    <3>1. Kept(k) = 160
      BY <2>3 DEF Kept, Offset
    <3>2. Named(kind, c)[1] = "ac"
      BY <1>4, <2>3
    <3> QED
      BY <2>1, <2>3, <3>1, <3>2 DEF TailLost
  <2> QED
    BY <1>3, <2>2, <2>3
<1>10. /\ W(k).tab = Named(kind, c) /\ W(k).at = SlotAt(kind, s) /\ W(k).kept = Kept(k)
  BY <1>4, <1>6, <1>7
<1> HIDE DEF W, k
<1> QED
  BY <1>5, <1>8, <1>9, <1>10 DEF Found, s

\* One component of a picture is decoded with the first slots, whichever table
\* it names.
LEMMA AloneAgrees ==
    ASSUME AgreeInv, phase = "run", op = "nonInterleaved", NEW c \in Decoded,
           NEW kind \in {"ac", "dc"}
    PROVE  Found(kind, c)
<1>1. /\ nq = 1 /\ c = comp /\ c \in 0 .. 2 /\ frame.coding # "progressive"
  BY DEF AgreeInv, PlaceInv, FrameTyped, Decoded
<1>2. scan.Ta[comp] \in 0 .. 1 /\ scan.Td[comp] \in 0 .. 1
  BY <1>1 DEF AgreeInv, ScanTyped
<1>3. Slot(kind, c) = 1 /\ Named(kind, c) = <<kind, (IF kind = "ac" THEN scan.Ta ELSE scan.Td)[comp]>>
  BY <1>1 DEF Slot, Named
<1>4. Lengths[<<kind, 1>>] = Named(kind, c)
  <2>1. Lengths = [s \in {"ac", "dc"} \X {1} |->
                     <<s[1], IF (IF s[1] = "ac" THEN scan.Ta ELSE scan.Td)[comp] = 0
                             THEN 0 ELSE 1>>]
    BY DEF Lengths, NonInterleavedLengths
  <2>2. <<kind, 1>> \in {"ac", "dc"} \X {1}
    OBVIOUS
  <2> QED
    BY <1>2, <1>3, <2>1, <2>2
<1>5. huff[Named(kind, c)].n \in 0 .. (IF kind = "ac" THEN 162 ELSE 12)
  BY <1>1, NamedFacts
<1>6. CASE kind = "ac"
  <2> DEFINE w == [tab |-> <<"ac", scan.Ta[comp]>>, at |-> WordsBefore(48, FALSE), kept |-> 162]
  <2>1. w \in Writes
    BY DEF Writes, NonInterleavedWrites
  <2>2. w.tab = Named(kind, c) /\ w.at = SlotAt(kind, 1) /\ w.kept >= huff[w.tab].n
    BY <1>1, <1>3, <1>5, <1>6 DEF SlotAt, WordsBefore
  <2> HIDE DEF w
  <2> QED
    BY <1>3, <1>4, <2>1, <2>2 DEF Found
<1>7. CASE kind = "dc"
  <2> DEFINE w == [tab |-> <<"dc", scan.Td[comp]>>, at |-> WordsBefore(129, FALSE), kept |-> 12]
  <2>1. w \in Writes
    BY DEF Writes, NonInterleavedWrites
  <2>2. w.tab = Named(kind, c) /\ w.at = SlotAt(kind, 1) /\ w.kept >= huff[w.tab].n
    BY <1>1, <1>3, <1>5, <1>7 DEF SlotAt, WordsBefore
  <2> HIDE DEF w
  <2> QED
    BY <1>3, <1>4, <2>1, <2>2 DEF Found
<1> QED
  BY <1>6, <1>7

\* A progressive scan writes the tables of one kind only, the one it uses.
LEMMA ProgressiveAgrees ==
    ASSUME AgreeInv, phase = "run", op = "progressive", NEW c \in Decoded, NEW kind \in Used
    PROVE  Found(kind, c)
<1>1. /\ nq \in {1, 3} /\ c \in 0 .. 2 /\ frame.coding = "progressive"
      /\ alone = (nq = 1) /\ (nq = 1 => c = comp) /\ (nq = 3 => scan.Ss = 0)
  BY DEF AgreeInv, PlaceInv, FrameTyped, Decoded
<1>2. IF scan.Ss # 0 THEN kind = "ac" ELSE kind = "dc" /\ scan.Ah = 0
  BY <1>1 DEF Used
<1>3. kind \in {"ac", "dc"} /\ scan.Ss \in 0 .. 1
  BY <1>2 DEF AgreeInv, ScanTyped
<1>4. huff[Named(kind, c)].n \in 0 .. (IF kind = "ac" THEN 162 ELSE 12)
  BY <1>1, <1>3, NamedFacts
<1> DEFINE W(d) == IF scan.Ss = 0
          THEN [tab |-> <<"dc", scan.Td[d]>>, at |-> ProgressiveAt(d), kept |-> 12]
          ELSE [tab |-> <<"ac", scan.Ta[d]>>, at |-> ProgressiveAt(d),
                kept |-> IF d = 0 THEN 162 ELSE 160]
<1>5. W(c) \in Writes
  <2>1. Writes = {W(d) : d \in IF alone THEN {comp} ELSE 0 .. 2}
    BY <1>2 DEF Writes, ProgressiveWrites
  <2>2. c \in IF alone THEN {comp} ELSE 0 .. 2
    BY <1>1
  <2> QED
    BY <2>1, <2>2
<1>6. W(c).tab = Named(kind, c)
  BY <1>2 DEF Named
<1>7. W(c).kept >= huff[Named(kind, c)].n \/ TailLost(Named(kind, c), c)
  <2>1. Named(kind, c)[1] = kind
    BY DEF Named
  <2> QED
    BY <1>1, <1>2, <1>4, <2>1 DEF TailLost
<1>8. CASE nq = 1
  <2>1. Slot(kind, c) = 1 /\ alone = TRUE /\ c = comp
    BY <1>1, <1>8 DEF Slot
  <2>2. Lengths[<<kind, 1>>] = Named(kind, c)
    BY <1>2, <2>1 DEF Lengths, ProgressiveLengths, AloneLengths, Named
  <2>3. W(c).at = SlotAt(kind, 1)
    BY <1>2, <1>8, <2>1 DEF ProgressiveAt, SlotAt, WordsBefore, DcBase
  <2> HIDE DEF W
  <2> QED
    BY <1>5, <1>6, <1>7, <2>1, <2>2, <2>3 DEF Found
<1>9. CASE nq = 3
  <2>1. kind = "dc" /\ scan.Ss = 0 /\ scan.Ah = 0
    BY <1>1, <1>2, <1>9
  <2>2. alone = FALSE
    <3>1. nq # 1
      BY <1>9
    <3> QED
      BY <1>1, <3>1, Zenon
  <2>3. Slot(kind, c) = c + 1
    BY <1>1, <1>9, <2>1, <2>2 DEF Slot, ChromaSlot
  <2>4. Lengths[<<kind, c + 1>>] = Named(kind, c)
    BY <1>1, <2>1, <2>2 DEF Lengths, ProgressiveLengths, TogetherLengths, Named
  <2>5. W(c).at = SlotAt(kind, c + 1)
    BY <1>1, <1>9, <2>1, <2>2 DEF ProgressiveAt, SlotAt, WordsBefore, DcBase
  <2> HIDE DEF W
  <2> QED
    BY <1>5, <1>6, <1>7, <2>3, <2>4, <2>5 DEF Found
<1> QED
  BY <1>1, <1>8, <1>9

LEMMA QuantAgrees ==
    ASSUME AgreeInv, phase = "run", NEW c \in Decoded, frame.Tq[c + 1] <= 1
    PROVE  QuantWritten[IF nq = 1 THEN 1 ELSE c + 1] = frame.Tq[c + 1]
<1>1. /\ nq \in {1, 3} /\ comp \in 0 .. 2 /\ c \in 0 .. 2 /\ (nq = 1 => c = comp)
      /\ op # "baseline" => alone = (nq = 1)
      /\ op = "baseline" => comp = 0
      /\ frame.Tq[c + 1] \in Nat
  BY DEF AgreeInv, PlaceInv, FrameTyped, Decoded
<1> DEFINE q(j) == IF frame.Tq[1 + (j - 1) + (IF alone THEN comp ELSE 0)] = 0 THEN 0 ELSE 1
           j0 == IF nq = 1 THEN 1 ELSE c + 1
<1>2. (IF op = "baseline" \/ alone THEN nq ELSE 3) = nq
  BY <1>1
<1>3. QuantWritten = [j \in 1 .. nq |-> q(j)]
  BY <1>2 DEF QuantWritten
<1>4. j0 \in 1 .. nq
  BY <1>1
<1>5. 1 + (j0 - 1) + (IF alone THEN comp ELSE 0) = c + 1
  <2>1. CASE nq = 1
    <3>1. op # "baseline" => alone
      BY <1>1, <2>1, Zenon
    <3>2. (IF alone THEN comp ELSE 0) = comp
      BY <1>1, <3>1
    <3> QED
      BY <1>1, <2>1, <3>2
  <2>2. CASE nq = 3 /\ op # "baseline"
    <3>1. nq # 1
      BY <2>2
    <3>2. ~alone
      BY <1>1, <2>2, <3>1, Zenon
    <3> QED
      BY <1>1, <2>2, <3>2
  <2>3. CASE nq = 3 /\ op = "baseline"
    BY <1>1, <2>3
  <2> QED
    BY <1>1, <2>1, <2>2, <2>3
<1>6. q(j0) = frame.Tq[c + 1]
  BY <1>1, <1>5
<1> HIDE DEF q
<1> QED
  BY <1>3, <1>4, <1>6

LEMMA AgreeDone == AgreeInv => TablesAgree
<1> SUFFICES ASSUME AgreeInv, phase = "run", NEW c \in Decoded
             PROVE  /\ \A kind \in {k \in Used : huff[Named(k, c)].n > 0} : Found(kind, c)
                    /\ frame.Tq[c + 1] <= 1 =>
                          QuantWritten[IF nq = 1 THEN 1 ELSE c + 1] = frame.Tq[c + 1]
  BY DEF TablesAgree, Found
<1>1. Used \subseteq {"ac", "dc"}
  BY DEF Used
<1>2. op \in {"baseline", "nonInterleaved", "progressive"}
  BY DEF AgreeInv, PlaceInv
<1> QED
  BY <1>1, <1>2, BaselineAgrees, AloneAgrees, ProgressiveAgrees, QuantAgrees

\* For every component of a scan, whatever tables its header names and whatever
\* the stream has defined, the hardware finds the lengths and the values of
\* the table the header names in the slot it looks in (jpegdecinternal.c).
THEOREM SlotsHoldTheTables == Spec => []TablesAgree
BY AgreeInit, AgreeStep, AgreeDone, PTL DEF Spec

-----------------------------------------------------------------------------
(* Induction over the naturals, for a set instead of an operator.          *)

\* A set that has 0 and the successor of each of its naturals has them all.
LEMMA NaturalsOf ==
    ASSUME NEW S, 0 \in S, \A i \in Nat : i \in S => i + 1 \in S
    PROVE Nat \subseteq S
<1>1. SUFFICES ASSUME Nat \ S # {} PROVE FALSE
  OBVIOUS
<1>2. PICK x \in Nat \ S : \A y \in Nat \ S : ~(<<y, x>> \in OpToRel(<, Nat))
  BY <1>1, NatLessThanWellFounded, WFMin
<1>3. x \in Nat /\ x # 0
  OBVIOUS
<1>4. x - 1 \in Nat \ S
  <2>1. x - 1 \in Nat /\ (x - 1) + 1 = x
    BY <1>3
  <2> QED BY <2>1
<1>5. <<x - 1, x>> \in OpToRel(<, Nat)
  BY <1>3 DEF OpToRel
<1> QED BY <1>2, <1>4, <1>5

\* What never falls from one index to the next does not fall over many.
LEMMA Rising ==
    ASSUME NEW f, NEW n \in Nat, \A k \in 1 .. n : f[k] \in Int,
           \A k \in 1 .. n - 1 : f[k] <= f[k + 1]
    PROVE \A j, k \in 1 .. n : j <= k => f[j] <= f[k]
<1> DEFINE S == {d \in Nat : \A j \in 1 .. n : j + d <= n => f[j] <= f[j + d]}
<1>1. 0 \in S
  OBVIOUS
<1>2. ASSUME NEW d \in Nat, d \in S PROVE d + 1 \in S
  <2>1. ASSUME NEW j \in 1 .. n, j + (d + 1) <= n PROVE f[j] <= f[j + (d + 1)]
    <3>1. f[j] <= f[j + d]
      BY <1>2, <2>1
    <3>2. j + d \in 1 .. n - 1 /\ (j + d) + 1 = j + (d + 1)
      BY <2>1
    <3>3. f[j + d] <= f[(j + d) + 1]
      BY <3>2
    <3> QED BY <3>1, <3>2, <3>3
  <2> QED BY <2>1
<1>3. Nat \subseteq S
  BY <1>1, <1>2, NaturalsOf
<1> QED
  <2>1. TAKE j, k \in 1 .. n
  <2>2. HAVE j <= k
  <2>3. k - j \in Nat /\ j + (k - j) = k
    BY <2>2
  <2>4. k - j \in S
    BY <1>3, <2>3
  <2> QED BY <2>3, <2>4

-----------------------------------------------------------------------------
(* Streams.                                                                *)

\* What the format says of one stream.
LEMMA StreamForm ==
    ASSUME NEW s \in Streams
    PROVE /\ s.segs \in Seq(Outer) /\ s.data \in Nat /\ WellFormed(s)
          /\ Len(s.segs) \in Nat \ {0}
          /\ \A k \in 1 .. Len(s.segs) : s.segs[k] \in Outer
<1>1. s.segs \in Seq(Outer) /\ s.data \in Nat /\ WellFormed(s)
  BY MarkersAssumption
<1>2. s.segs # <<>>
  BY <1>1 DEF WellFormed
<1> QED BY <1>1, <1>2

\* The segments of a thumbnail follow each other within its APP0 segment.
LEMMA ThumbnailLayout ==
    ASSUME NEW g \in Outer, g.inner # <<>>, Thumbnail(g)
    PROVE /\ Len(g.inner) \in Nat \ {0}
          /\ \A k \in 1 .. Len(g.inner) :
                /\ g.inner[k] \in Inner /\ Lengthy(g.inner[k])
                /\ g.inner[k].at >= g.at + g.fill + 9
                /\ End(g.inner[k]) <= End(g)
                /\ g.inner[k].turn >= g.turn + g.fill - 1
                /\ g.inner[k].turn + (g.inner[k].fill + 1) \div 2 <= After(g)
          /\ \A j, k \in 1 .. Len(g.inner) : j < k => End(g.inner[j]) <= g.inner[k].at
<1> DEFINE q == g.inner
           n == Len(q)
           Taken(x) == (x.fill + 1) \div 2
<1>1. q \in Seq(Inner) /\ n \in Nat \ {0}
  BY DEF Outer, SegmentsWith
<1>2. \A k \in 1 .. n : q[k] \in Inner /\ Lengthy(q[k])
  BY <1>1 DEF Thumbnail
<1>3. \A k \in 1 .. n : /\ q[k].at \in Nat /\ q[k].turn \in Nat /\ q[k].fill \in Nat \ {0}
                        /\ Size(q[k]) \in Nat /\ Taken(q[k]) \in Nat
  BY <1>2, SMTT(30) DEF Inner, SegmentsWith, Size
<1>4. \A k \in 1 .. n - 1 : q[k + 1].at = q[k].at + Size(q[k])
                            /\ q[k + 1].turn = q[k].turn + Taken(q[k])
  BY DEF Thumbnail, End
<1> DEFINE A == [k \in 1 .. n |-> q[k].at]
           T == [k \in 1 .. n |-> q[k].turn]
<1> HIDE DEF q, n, Taken
<1>5. \A j, k \in 1 .. n : j <= k => q[j].at <= q[k].at
  <2>1. /\ \A k \in 1 .. n : A[k] \in Int
        /\ \A k \in 1 .. n - 1 : A[k] <= A[k + 1]
    <3>1. ASSUME NEW k \in 1 .. n - 1 PROVE q[k].at <= q[k + 1].at
      <4>1. k \in 1 .. n /\ q[k].at \in Nat /\ Size(q[k]) \in Nat
        BY <1>1, <1>3
      <4>2. q[k + 1].at = q[k].at + Size(q[k])
        BY <1>4
      <4> QED BY <4>1, <4>2
    <3> QED BY <1>1, <1>3, <3>1, SMTT(30)
  <2>2. \A j, k \in 1 .. n : j <= k => A[j] <= A[k]
    BY <1>1, <2>1, Rising
  <2> QED BY <2>2
<1>6. \A j, k \in 1 .. n : j <= k => q[j].turn <= q[k].turn
  <2>1. /\ \A k \in 1 .. n : T[k] \in Int
        /\ \A k \in 1 .. n - 1 : T[k] <= T[k + 1]
    <3>1. ASSUME NEW k \in 1 .. n - 1 PROVE q[k].turn <= q[k + 1].turn
      <4>1. k \in 1 .. n /\ q[k].turn \in Nat /\ Taken(q[k]) \in Nat
        BY <1>1, <1>3
      <4>2. q[k + 1].turn = q[k].turn + Taken(q[k])
        BY <1>4
      <4> QED BY <4>1, <4>2
    <3> QED BY <1>1, <1>3, <3>1
  <2>2. \A j, k \in 1 .. n : j <= k => T[j] <= T[k]
    BY <1>1, <2>1, Rising
  <2> QED BY <2>2
<1>7. \A j, k \in 1 .. n : j < k => /\ q[j].at + Size(q[j]) <= q[k].at
                                    /\ q[j].turn + Taken(q[j]) <= q[k].turn
  <2>1. TAKE j, k \in 1 .. n
  <2>2. HAVE j < k
  <2>3. j \in 1 .. n - 1 /\ j + 1 \in 1 .. n /\ j + 1 <= k
    BY <1>1, <2>2
  <2> QED BY <1>4, <1>5, <1>6, <2>3
<1>8. /\ q[1].at = g.at + g.fill + 9 /\ q[1].turn = g.turn + g.fill - 1
      /\ q[n].at + Size(q[n]) <= End(g) /\ After(g) = q[n].turn + Taken(q[n])
  BY DEF q, n, Taken, Thumbnail, End, After, Last
<1>9. ASSUME NEW k \in 1 .. n
      PROVE /\ q[k].at >= g.at + g.fill + 9 /\ q[k].at + Size(q[k]) <= End(g)
            /\ q[k].turn >= g.turn + g.fill - 1 /\ q[k].turn + Taken(q[k]) <= After(g)
  <2>0. End(g) \in Nat /\ g.at \in Nat /\ g.fill \in Nat /\ g.turn \in Nat
    BY DEF Outer, SegmentsWith, End, Size
  <2>1. 1 \in 1 .. n /\ n \in 1 .. n /\ 1 <= k /\ k <= n
    BY <1>1
  <2>2. q[1].at <= q[k].at /\ q[1].turn <= q[k].turn
    BY <1>5, <1>6, <2>1
  <2>3. k # n => q[k].at + Size(q[k]) <= q[n].at /\ q[k].turn + Taken(q[k]) <= q[n].turn
    BY <1>7, <2>1
  <2>4. q[k].at + Size(q[k]) <= q[n].at + Size(q[n])
        /\ q[k].turn + Taken(q[k]) <= q[n].turn + Taken(q[n])
    <3>1. CASE k = n
      BY <1>3, <2>1, <3>1
    <3>2. CASE k # n
      BY <1>3, <2>1, <2>3, <3>2, SMTT(30)
    <3> QED BY <3>1, <3>2
  <2>5. /\ q[1].at \in Nat /\ q[1].turn \in Nat /\ q[n].turn \in Nat /\ Taken(q[n]) \in Nat
        /\ q[k].at \in Nat /\ q[k].turn \in Nat /\ Taken(q[k]) \in Nat
        /\ Size(q[k]) \in Nat /\ q[n].at \in Nat /\ Size(q[n]) \in Nat
    BY <1>3, <2>1
  <2>6. q[k].at >= g.at + g.fill + 9 /\ q[k].turn >= g.turn + g.fill - 1
    BY <1>8, <2>0, <2>2, <2>5
  <2>7. q[k].at + Size(q[k]) <= End(g)
    <3>1. q[n].at + Size(q[n]) <= End(g)
      BY <1>8
    <3>2. q[k].at + Size(q[k]) <= q[n].at + Size(q[n])
      BY <2>4
    <3> DEFINE a == q[k].at + Size(q[k])
               b == q[n].at + Size(q[n])
    <3>3. a \in Int
      BY <2>5
    <3>4. b \in Int
      BY <2>5
    <3>5. a <= b
      BY <3>2
    <3>6. b <= End(g)
      BY <3>1
    <3>7. End(g) \in Int
      BY <2>0
    <3> HIDE DEF a, b
    <3>8. a <= End(g)
      BY <3>3, <3>4, <3>5, <3>6, <3>7
    <3> QED BY <3>8 DEF a
  <2>8. q[k].turn + Taken(q[k]) <= After(g)
    BY <1>8, <2>4
  <2> QED BY <2>6, <2>7, <2>8
<1> QED
  BY <1>1, <1>2, <1>7, <1>9 DEF q, n, Taken, End

\* The segments of a stream follow each other, and the turns counted do not fall.
LEMMA StreamLayout ==
    ASSUME NEW s \in Streams
    PROVE /\ \A k \in 1 .. Len(s.segs) :
                /\ End(s.segs[k]) \in Nat /\ After(s.segs[k]) \in Nat
                /\ s.segs[k].turn + s.segs[k].fill <= After(s.segs[k])
          /\ \A j, k \in 1 .. Len(s.segs) :
                j < k => /\ End(s.segs[j]) <= s.segs[k].at
                         /\ After(s.segs[j]) <= s.segs[k].turn
<1> DEFINE q == s.segs
           n == Len(q)
<1>1. n \in Nat \ {0} /\ WellFormed(s) /\ \A k \in 1 .. n : q[k] \in Outer
  BY StreamForm
<1>2. \A k \in 1 .. n : /\ q[k].at \in Nat /\ q[k].turn \in Nat /\ q[k].fill \in Nat \ {0}
                        /\ End(q[k]) \in Nat /\ q[k].at <= End(q[k])
  BY <1>1, SMTT(30) DEF Outer, SegmentsWith, Size, End
<1>3. ASSUME NEW k \in 1 .. n
      PROVE After(q[k]) \in Nat /\ q[k].turn + q[k].fill <= After(q[k])
  <2>1. CASE q[k].inner = <<>>
    BY <1>2, <2>1 DEF After
  <2>2. CASE q[k].inner # <<>>
    <3>1. Thumbnail(q[k]) /\ q[k] \in Outer
      BY <1>1, <2>2 DEF WellFormed
    <3> DEFINE x == Last(q[k].inner)
    <3>2. /\ x \in Inner /\ x.turn >= q[k].turn + q[k].fill - 1
          /\ After(q[k]) = x.turn + (x.fill + 1) \div 2
      BY <2>2, <3>1, ThumbnailLayout DEF Last, After
    <3>3. x.turn \in Nat /\ x.fill \in Nat \ {0}
      BY <3>2 DEF Inner, SegmentsWith
    <3> DEFINE d == (x.fill + 1) \div 2
    <3> HIDE DEF x
    <3>4. d \in Nat \ {0}
      BY <3>3
    <3>5. After(q[k]) = x.turn + d
      BY <3>2
    <3> HIDE DEF d
    <3>6. q[k].turn \in Nat /\ q[k].fill \in Nat /\ x.turn >= q[k].turn + q[k].fill - 1
      BY <1>2, <3>2
    <3> QED BY <3>3, <3>4, <3>5, <3>6, SMTT(30)
  <2> QED BY <2>1, <2>2
<1>4. \A k \in 1 .. n - 1 : q[k + 1].at = End(q[k]) /\ q[k + 1].turn = After(q[k])
  BY <1>1 DEF WellFormed
<1> DEFINE A == [k \in 1 .. n |-> q[k].at]
           T == [k \in 1 .. n |-> q[k].turn]
<1> HIDE DEF q, n
<1>5. \A j, k \in 1 .. n : j <= k => q[j].at <= q[k].at
  <2>1. /\ \A k \in 1 .. n : A[k] \in Int
        /\ \A k \in 1 .. n - 1 : A[k] <= A[k + 1]
    BY <1>1, <1>2, <1>4
  <2>2. \A j, k \in 1 .. n : j <= k => A[j] <= A[k]
    BY <1>1, <2>1, Rising
  <2> QED BY <2>2
<1>6. \A j, k \in 1 .. n : j <= k => q[j].turn <= q[k].turn
  <2>1. /\ \A k \in 1 .. n : T[k] \in Int
        /\ \A k \in 1 .. n - 1 : T[k] <= T[k + 1]
    <3>1. ASSUME NEW k \in 1 .. n - 1 PROVE q[k].turn <= q[k + 1].turn
      BY <1>1, <1>2, <1>3, <1>4
    <3> QED BY <1>1, <1>2, <3>1
  <2>2. \A j, k \in 1 .. n : j <= k => T[j] <= T[k]
    BY <1>1, <2>1, Rising
  <2> QED BY <2>2
<1>7. ASSUME NEW j \in 1 .. n, NEW k \in 1 .. n, j < k
      PROVE End(q[j]) <= q[k].at /\ After(q[j]) <= q[k].turn
  <2>1. j \in 1 .. n - 1 /\ j + 1 \in 1 .. n /\ j + 1 <= k
    BY <1>1, <1>7
  <2> QED BY <1>4, <1>5, <1>6, <2>1
<1> QED BY <1>2, <1>3, <1>7 DEF q, n

\* The prefixes and markers of two segments lie apart.
LEMMA PartsApart ==
    ASSUME NEW s \in Streams, NEW a \in Parts[s], NEW b \in Parts[s]
    PROVE /\ a.at \in Nat /\ a.fill \in Nat \ {0} /\ a.m \in MarkerCodes
          /\ a # b => a.at + a.fill < b.at \/ b.at + b.fill < a.at
<1> DEFINE q == s.segs
           n == Len(q)
           Whose(x, j) == q[j].inner # <<>> /\ x \in Among(q[j].inner)
<1>1. n \in Nat \ {0} /\ WellFormed(s) /\ \A k \in 1 .. n : q[k] \in Outer
  BY StreamForm
<1>2. DOMAIN q = 1 .. n
  BY StreamForm
<1>3. ASSUME NEW x \in Parts[s]
      PROVE \E j \in 1 .. n : x = q[j] \/ Whose(x, j)
  <2>1. x \in Among(q) \/ \E g \in Among(q) : x \in Among(g.inner)
    BY <1>3 DEF Parts
  <2>2. CASE x \in Among(q)
    BY <1>2, <2>2 DEF Among
  <2>3. CASE \E g \in Among(q) : x \in Among(g.inner)
    <3>1. PICK j \in 1 .. n : x \in Among(q[j].inner)
      BY <1>2, <2>3 DEF Among
    <3>2. q[j].inner # <<>>
      BY <3>1 DEF Among
    <3> QED BY <3>1, <3>2
  <2> QED BY <2>1, <2>2, <2>3
<1>4. ASSUME NEW x, NEW j \in 1 .. n, Whose(x, j)
      PROVE /\ x \in Inner /\ x.at >= q[j].at + q[j].fill + 9
            /\ End(x) <= End(q[j]) /\ Thumbnail(q[j])
            /\ \E k \in 1 .. Len(q[j].inner) : x = q[j].inner[k]
  <2>1. Thumbnail(q[j]) /\ q[j] \in Outer
    BY <1>1, <1>4 DEF WellFormed
  <2>2. q[j].inner \in Seq(Inner)
    BY <2>1 DEF Outer, SegmentsWith
  <2>3. PICK k \in 1 .. Len(q[j].inner) : x = q[j].inner[k]
    BY <1>4, <2>2 DEF Among
  <2> QED BY <1>4, <2>1, <2>3, ThumbnailLayout
<1>5. ASSUME NEW x \in Inner \union Outer
      PROVE /\ x.at \in Nat /\ x.fill \in Nat \ {0} /\ x.m \in MarkerCodes
            /\ x.at + x.fill < End(x) /\ End(x) \in Nat
  BY DEF Inner, Outer, SegmentsWith, End, Size
<1>6. ASSUME NEW x \in Parts[s] PROVE x \in Inner \union Outer
  BY <1>1, <1>3, <1>4
<1>7. ASSUME NEW j \in 1 .. n, NEW k \in 1 .. n, j < k
      PROVE End(q[j]) <= q[k].at
  BY <1>7, StreamLayout
<1>8. ASSUME NEW x \in Parts[s], NEW y \in Parts[s],
             NEW j \in 1 .. n, NEW k \in 1 .. n, j < k,
             x = q[j] \/ Whose(x, j), y = q[k] \/ Whose(y, k)
      PROVE x.at + x.fill < y.at
  <2>0. x \in Inner \union Outer /\ y \in Inner \union Outer
        /\ q[j] \in Inner \union Outer /\ q[k] \in Inner \union Outer
    BY <1>1, <1>6
  <2>1. x.at + x.fill < End(x) /\ End(x) \in Nat /\ x.at + x.fill \in Nat
    BY <1>5, <2>0
  <2>2. End(x) <= End(q[j]) /\ End(q[j]) \in Nat
    <3>1. End(q[j]) \in Nat
      BY <1>5, <2>0
    <3>2. Whose(x, j) => End(x) <= End(q[j])
      BY <1>4
    <3>3. x = q[j] \/ Whose(x, j)
      BY <1>8
    <3> HIDE DEF Whose, q, n
    <3> QED BY <2>1, <3>1, <3>2, <3>3
  <2>3. q[k].at <= y.at /\ y.at \in Nat /\ q[k].at \in Nat
    <3>1. y.at \in Nat /\ q[k].at \in Nat /\ q[k].fill \in Nat
      BY <1>5, <2>0
    <3>2. Whose(y, k) => y.at >= q[k].at + q[k].fill + 9
      BY <1>4
    <3>3. y = q[k] \/ Whose(y, k)
      BY <1>8
    <3> HIDE DEF Whose
    <3> QED BY <3>1, <3>2, <3>3
  <2>4. End(q[j]) <= q[k].at
    BY <1>7, <1>8
  <2> HIDE DEF q, n
  <2> QED BY <2>1, <2>2, <2>3, <2>4
<1>9. ASSUME NEW x \in Parts[s], NEW j \in 1 .. n, Whose(x, j)
      PROVE q[j].at + q[j].fill < x.at
  <2>1. q[j].at \in Nat /\ q[j].fill \in Nat /\ x.at \in Nat
    BY <1>1, <1>5, <1>6
  <2>2. x.at >= q[j].at + q[j].fill + 9
    BY <1>4, <1>9
  <2> HIDE DEF q, n
  <2> QED BY <2>1, <2>2
<1>10. ASSUME NEW x \in Parts[s], NEW y \in Parts[s], NEW j \in 1 .. n,
              Whose(x, j), Whose(y, j), x # y
       PROVE x.at + x.fill < y.at \/ y.at + y.fill < x.at
  <2>1. PICK k \in 1 .. Len(q[j].inner) : x = q[j].inner[k]
    BY <1>4, <1>10
  <2>2. PICK i \in 1 .. Len(q[j].inner) : y = q[j].inner[i]
    BY <1>4, <1>10
  <2>3. Thumbnail(q[j]) /\ q[j] \in Outer /\ q[j].inner # <<>>
    BY <1>1, <1>4, <1>10
  <2>4. /\ x.at + x.fill < End(x) /\ End(x) \in Nat /\ x.at + x.fill \in Nat /\ x.at \in Nat
        /\ y.at + y.fill < End(y) /\ End(y) \in Nat /\ y.at + y.fill \in Nat /\ y.at \in Nat
    BY <1>5, <1>6, SMTT(30)
  <2>5. k < i => End(x) <= y.at
    BY <2>1, <2>2, <2>3, ThumbnailLayout
  <2>6. i < k => End(y) <= x.at
    BY <2>1, <2>2, <2>3, ThumbnailLayout
  <2>7. Len(q[j].inner) \in Nat
    BY <2>3, ThumbnailLayout
  <2>8. k < i \/ i < k
    BY <1>10, <2>1, <2>2, <2>7
  <2> HIDE DEF q, n
  <2> QED BY <2>4, <2>5, <2>6, <2>8
<1>11. ASSUME a # b PROVE a.at + a.fill < b.at \/ b.at + b.fill < a.at
  <2>1. PICK j \in 1 .. n : a = q[j] \/ Whose(a, j)
    BY <1>3
  <2>2. PICK k \in 1 .. n : b = q[k] \/ Whose(b, k)
    BY <1>3
  <2>3. CASE j < k
    BY <1>8, <2>1, <2>2, <2>3
  <2>4. CASE k < j
    BY <1>8, <2>1, <2>2, <2>4
  <2>5. CASE j = k
    <3> HIDE DEF Whose
    <3>1. \/ Whose(a, j) /\ Whose(b, j)
          \/ a = q[j] /\ Whose(b, j)
          \/ Whose(a, j) /\ b = q[j]
      BY <1>11, <2>1, <2>2, <2>5
    <3> QED BY <1>9, <1>10, <1>11, <3>1
  <2>6. n \in Nat /\ (j < k \/ k < j \/ j = k)
    BY <1>1
  <2> QED BY <2>3, <2>4, <2>5, <2>6
<1> QED BY <1>5, <1>6, <1>11

\* Both kinds of segments are parts of the stream.
LEMMA PartOf ==
    ASSUME NEW s \in Streams, NEW k \in 1 .. Len(s.segs)
    PROVE /\ s.segs[k] \in Parts[s]
          /\ \A j \in 1 .. Len(s.segs[k].inner) : s.segs[k].inner[j] \in Parts[s]
<1>1. DOMAIN s.segs = 1 .. Len(s.segs) /\ s.segs[k] \in Outer
  BY StreamForm
<1>2. DOMAIN s.segs[k].inner = 1 .. Len(s.segs[k].inner)
  BY <1>1 DEF Outer, SegmentsWith
<1>3. s.segs[k] \in Among(s.segs)
  BY <1>1 DEF Among
<1>4. ASSUME NEW j \in 1 .. Len(s.segs[k].inner)
      PROVE s.segs[k].inner[j] \in Among(s.segs[k].inner)
  BY <1>2 DEF Among
<1> QED BY <1>3, <1>4 DEF Parts

\* What the bytes of a segment are, and whose they are.
LEMMA Bytes ==
    ASSUME stream \in Streams, NEW g \in Parts[stream]
    PROVE /\ \A i \in 0 .. g.fill - 1 : Byte(g.at + i) = "FF"
          /\ Byte(g.at + g.fill) = g.m
          /\ \A v : v.pos - 1 = g.at + g.fill => Here(v) = g
<1>1. g.at \in Nat /\ g.fill \in Nat \ {0} /\ g.m \in MarkerCodes
  BY PartsApart
<1>2. ASSUME NEW i \in 0 .. g.fill - 1 PROVE Byte(g.at + i) = "FF"
  <2>1. g.at + i \in g.at .. g.at + g.fill - 1
    BY <1>1
  <2> QED BY <2>1 DEF Byte
<1>3. ASSUME NEW h \in Parts[stream], h.at + h.fill = g.at + g.fill PROVE h = g
  BY <1>1, <1>3, PartsApart
<1>4. ~ \E h \in Parts[stream] : g.at + g.fill \in h.at .. h.at + h.fill - 1
  <2>1. SUFFICES ASSUME NEW h \in Parts[stream], g.at + g.fill \in h.at .. h.at + h.fill - 1
                 PROVE FALSE
    OBVIOUS
  <2>2. h.at \in Nat /\ h.fill \in Nat
    BY PartsApart
  <2>3. h # g
    BY <1>1, <2>1
  <2>4. g.at + g.fill < h.at \/ h.at + h.fill < g.at
    BY <2>3, PartsApart
  <2> QED BY <1>1, <2>1, <2>2, <2>4
<1>5. Byte(g.at + g.fill) = g.m
  <2>1. (CHOOSE h \in Parts[stream] : g.at + g.fill = h.at + h.fill) = g
    BY <1>3
  <2> QED BY <1>4, <2>1 DEF Byte
<1>6. ASSUME NEW v, v.pos - 1 = g.at + g.fill PROVE Here(v) = g
  BY <1>3, <1>6 DEF Here
<1> QED BY <1>2, <1>5, <1>6

-----------------------------------------------------------------------------
(* What the walks have found before a segment.                             *)

\* The frame and the thumbnail that the segments before the k-th describe, and
\* whether the first walk has let them all pass.
FrameSoFar(s, k) ==
    IF \E j \in 1 .. k - 1 : s.segs[j].m \in FrameMarkers THEN Said(FrameOf(s))
    ELSE NoPicture
ThumbSoFar(s, k) ==
    IF \E j \in 1 .. k - 1 : s.segs[j].inner # <<>>
    THEN Said(Last((CHOOSE g \in Thumbs(s) : TRUE).inner))
    ELSE NoPicture
Passed(s, k, l) == \A j \in 1 .. k - 1 : Acceptable(s.segs[j], l)

\* A frame stays a frame when it is rounded up or marked as not interleaved.
LEMMA FramesStayFrames ==
    ASSUME NEW g, g.frame \in Frames, g.m \in FrameMarkers \union {"SOF1"}
    PROVE /\ Said(g) \in Frames /\ Said(g).mode = g.m /\ NoPicture \in Frames
          /\ \A f \in Frames : \A h : /\ Coding(f, h) \in Frames
                                      /\ f.mode = "SOF2" <=> Coding(f, h).mode = "SOF2"
<1>1. \A x \in Nat : RoundUp(x) \in Nat
  BY DEF RoundUp
<1>3. Output(g.frame) \in Frames
  <2>1. RoundUp(g.frame.w) \in Nat /\ RoundUp(g.frame.h) \in Nat
    BY <1>1 DEF Frames
  <2> DEFINE more == IF g.frame.s = "411" /\ RoundUp(g.frame.w) % 32 # 0 THEN 16 ELSE 0
  <2>2. more \in Nat
    OBVIOUS
  <2>3. Output(g.frame) = [g.frame EXCEPT !.h = RoundUp(g.frame.h),
                                          !.w = RoundUp(g.frame.w) + more]
    BY DEF Output
  <2> HIDE DEF more
  <2>4. \A x, y \in Nat : [g.frame EXCEPT !.h = x, !.w = y] \in Frames
    BY DEF Frames
  <2>5. RoundUp(g.frame.w) + more \in Nat
    BY <2>1, <2>2
  <2>6. [g.frame EXCEPT !.h = RoundUp(g.frame.h), !.w = RoundUp(g.frame.w) + more] \in Frames
    BY <2>1, <2>4, <2>5
  <2> QED BY <2>3, <2>6
<1>4. Said(g) \in Frames /\ Said(g).mode = g.m
  BY <1>3 DEF Said, Frames
<1>5. NoPicture \in Frames
  BY DEF NoPicture, Frames
<1>6. \A f \in Frames : \A h : /\ Coding(f, h) \in Frames
                               /\ f.mode = "SOF2" <=> Coding(f, h).mode = "SOF2"
  BY DEF Coding, Frames
<1> QED BY <1>4, <1>5, <1>6

\* The frame header is the only one, and each passed segment adds what it says.
LEMMA FrameKnown ==
    ASSUME NEW s \in Streams
    PROVE /\ FrameOf(s) \in Headers(s) /\ FrameOf(s).m \in FrameMarkers \union {"SOF1"}
          /\ FrameSoFar(s, 1) = NoPicture
          /\ \A k \in 1 .. Len(s.segs) - 1 :
                FrameSoFar(s, k + 1) = IF s.segs[k].m \in FrameMarkers THEN Said(s.segs[k])
                                       ELSE FrameSoFar(s, k)
          /\ \A k \in 1 .. Len(s.segs) : s.segs[k].m \in FrameMarkers => s.segs[k] = FrameOf(s)
          /\ \A l : Passed(s, Len(s.segs), l) => FrameSoFar(s, Len(s.segs)) = Said(FrameOf(s))
<1> DEFINE q == s.segs
           n == Len(q)
           Header(g) == g.m \in FrameMarkers \union {"SOF1"}
<1>1. n \in Nat \ {0} /\ WellFormed(s) /\ \A k \in 1 .. n : q[k] \in Outer
  BY StreamForm
<1>2. PICK f \in 1 .. n : \A j \in 1 .. n : Header(q[j]) <=> j = f
  BY <1>1 DEF WellFormed
<1>3. f \in 1 .. n - 1
  <2>1. q[n].m = "SOS"
    BY <1>1 DEF WellFormed
  <2>2. f # n
    BY <1>1, <1>2, <2>1 DEF FrameMarkers
  <2> QED BY <1>1, <2>2
<1>4. \A g \in Headers(s) : Header(g) <=> g = q[f]
  <2>1. TAKE g \in Headers(s)
  <2>2. PICK j \in 1 .. n - 1 : g = q[j]
    BY DEF Headers
  <2>3. j \in 1 .. n
    BY <1>1, <2>2
  <2> QED BY <1>2, <2>2, <2>3
<1>5. q[f] \in Headers(s)
  BY <1>3 DEF Headers
<1>6. FrameOf(s) = q[f] /\ Header(FrameOf(s))
  BY <1>4, <1>5 DEF FrameOf
<1> HIDE DEF q, n
<1>7. \A k \in 1 .. n : q[k].m \in FrameMarkers => k = f
  BY <1>2
<1>8. ASSUME NEW k \in 1 .. n - 1
      PROVE (\E j \in 1 .. (k + 1) - 1 : q[j].m \in FrameMarkers)
            <=> q[k].m \in FrameMarkers \/ \E j \in 1 .. k - 1 : q[j].m \in FrameMarkers
  BY <1>1
<1>9. ASSUME NEW k \in 1 .. n - 1
      PROVE FrameSoFar(s, k + 1) = IF q[k].m \in FrameMarkers THEN Said(q[k])
                                   ELSE FrameSoFar(s, k)
  <2>1. q[k].m \in FrameMarkers => q[k] = FrameOf(s)
    BY <1>1, <1>6, <1>7
  <2> QED BY <1>8, <2>1 DEF FrameSoFar, q
<1>10. ASSUME NEW l, Passed(s, n, l) PROVE FrameSoFar(s, n) = Said(FrameOf(s))
  <2>1. q[f].m \notin Others
    BY <1>3, <1>10 DEF Passed, Acceptable, q
  <2>2. q[f].m \in FrameMarkers
    BY <1>6, <2>1 DEF Others
  <2> QED BY <1>3, <2>2 DEF FrameSoFar, q
<1>11. FrameSoFar(s, 1) = NoPicture
  BY DEF FrameSoFar
<1> QED BY <1>5, <1>6, <1>7, <1>9, <1>10, <1>11 DEF q, n

\* The same of the thumbnail.
LEMMA ThumbnailKnown ==
    ASSUME NEW s \in Streams
    PROVE /\ ThumbSoFar(s, 1) = NoPicture
          /\ \A k \in 1 .. Len(s.segs) - 1 :
                ThumbSoFar(s, k + 1) = IF s.segs[k].inner # <<>> THEN Said(Last(s.segs[k].inner))
                                       ELSE ThumbSoFar(s, k)
          /\ ThumbSoFar(s, Len(s.segs)) = Described(s).thumb
<1> DEFINE q == s.segs
           n == Len(q)
<1>1. n \in Nat \ {0} /\ WellFormed(s)
  BY StreamForm
<1>2. \A j, k \in 1 .. n : q[j].inner # <<>> /\ q[k].inner # <<>> => j = k
  BY <1>1 DEF WellFormed
<1>3. Thumbs(s) = {g \in {q[k] : k \in 1 .. n - 1} : g.inner # <<>>}
  BY DEF Thumbs, Headers
<1> HIDE DEF q, n
<1>4. ASSUME NEW k \in 1 .. n - 1, q[k].inner # <<>>
      PROVE (CHOOSE g \in Thumbs(s) : TRUE) = q[k]
  <2>1. q[k] \in Thumbs(s)
    BY <1>3, <1>4
  <2>2. ASSUME NEW g \in Thumbs(s) PROVE g = q[k]
    <3>1. PICK j \in 1 .. n - 1 : g = q[j] /\ q[j].inner # <<>>
      BY <1>3
    <3> QED BY <1>1, <1>2, <1>4, <3>1
  <2> QED BY <2>1, <2>2
<1>5. ASSUME NEW k \in 1 .. n - 1
      PROVE ThumbSoFar(s, k + 1) = IF q[k].inner # <<>> THEN Said(Last(q[k].inner))
                                   ELSE ThumbSoFar(s, k)
  <2>1. (\E j \in 1 .. (k + 1) - 1 : q[j].inner # <<>>)
        <=> q[k].inner # <<>> \/ \E j \in 1 .. k - 1 : q[j].inner # <<>>
    BY <1>1
  <2>2. ThumbSoFar(s, k + 1) = IF \E j \in 1 .. (k + 1) - 1 : q[j].inner # <<>>
                                THEN Said(Last((CHOOSE g \in Thumbs(s) : TRUE).inner))
                                ELSE NoPicture
    BY DEF ThumbSoFar, q
  <2>3. ThumbSoFar(s, k) = IF \E j \in 1 .. k - 1 : q[j].inner # <<>>
                            THEN Said(Last((CHOOSE g \in Thumbs(s) : TRUE).inner))
                            ELSE NoPicture
    BY DEF ThumbSoFar, q
  <2>4. CASE q[k].inner # <<>>
    BY <1>4, <2>1, <2>2, <2>4
  <2>5. CASE q[k].inner = <<>>
    BY <2>1, <2>2, <2>3, <2>5
  <2> QED BY <2>4, <2>5
<1>6. (\E j \in 1 .. n - 1 : q[j].inner # <<>>) <=> Thumbs(s) # {}
  BY <1>3
<1>7. ThumbSoFar(s, n) = Described(s).thumb
  BY <1>6 DEF ThumbSoFar, Described, q
<1>8. ThumbSoFar(s, 1) = NoPicture
  BY DEF ThumbSoFar
<1> QED BY <1>5, <1>7, <1>8 DEF q, n

\* All headers have passed exactly if the first walk is to take the stream.
LEMMA PassedAll ==
    ASSUME NEW s \in Streams, NEW l
    PROVE /\ Passed(s, Len(s.segs), l) <=> \A g \in Headers(s) : Acceptable(g, l)
          /\ \A k \in 1 .. Len(s.segs) - 1 :
                Passed(s, k + 1, l) <=> Passed(s, k, l) /\ Acceptable(s.segs[k], l)
          /\ Passed(s, 1, l)
<1>1. Len(s.segs) \in Nat
  BY StreamForm
<1>2. ASSUME NEW k \in 1 .. Len(s.segs) - 1
      PROVE Passed(s, k + 1, l) <=> Passed(s, k, l) /\ Acceptable(s.segs[k], l)
  <2>1. 1 .. (k + 1) - 1 = (1 .. k - 1) \union {k}
    BY <1>1
  <2> QED BY <2>1 DEF Passed
<1> QED BY <1>2 DEF Passed, Headers

\* In a whole stream there is room for each segment, with all that is counted.
LEMMA Room ==
    ASSUME stream \in Streams, Whole, NEW k \in 1 .. Len(stream.segs)
    PROVE /\ length \in Nat
          /\ 8 * End(stream.segs[k]) + After(stream.segs[k]) + 7 < 8 * length
<1> DEFINE q == stream.segs
           n == Len(q)
<1>1. n \in Nat \ {0} /\ WellFormed(stream) /\ stream.data \in Nat
      /\ \A j \in 1 .. n : q[j] \in Outer
  BY StreamForm
<1>2. q[n].m = "SOS" /\ q[n].inner = <<>> /\ After(q[n]) = q[n].turn + q[n].fill
  BY <1>1 DEF WellFormed, Thumbnail, After
<1>3. /\ q[n].at \in Nat /\ q[n].turn \in Nat /\ q[n].fill \in Nat
      /\ q[n].at <= End(q[n]) /\ End(q[n]) \in Nat /\ End(q[k]) \in Nat /\ After(q[k]) \in Nat
  <2>1. n \in 1 .. n /\ q[n] \in Outer
    BY <1>1
  <2>2. q[n].at \in Nat /\ q[n].turn \in Nat /\ q[n].fill \in Nat /\ q[n].at <= End(q[n])
    BY <2>1 DEF Outer, SegmentsWith, End, Size
  <2> QED BY <2>1, <2>2, StreamLayout
<1>4. length = End(q[n]) + stream.data /\ After(q[n]) + 7 < 8 * stream.data
  BY <1>2 DEF Whole, Total, ScanOf, Last
<1>5. k # n => End(q[k]) <= q[n].at /\ After(q[k]) <= q[n].turn
  <2>1. k # n => k < n
    BY <1>1
  <2> QED BY <1>1, <2>1, StreamLayout
<1>6. End(q[k]) <= End(q[n]) /\ After(q[k]) <= After(q[n]) /\ After(q[n]) \in Nat
  <2>1. CASE k = n
    BY <1>2, <1>3, <2>1
  <2>2. CASE k # n
    BY <1>2, <1>3, <1>5, <2>2, SMTT(30)
  <2> QED BY <2>1, <2>2
<1> HIDE DEF q, n
<1>7. length \in Nat /\ 8 * End(q[k]) + After(q[k]) + 7 < 8 * length
  <2>1. /\ End(q[k]) \in Nat /\ End(q[n]) \in Nat /\ After(q[k]) \in Nat /\ After(q[n]) \in Nat
        /\ stream.data \in Nat
    BY <1>1, <1>3, <1>6
  <2> DEFINE a == End(q[k])  b == End(q[n])  c == After(q[k])  d == After(q[n])
             e == stream.data  l == length
  <2>2. /\ a \in Nat /\ b \in Nat /\ c \in Nat /\ d \in Nat /\ e \in Nat
        /\ l = b + e /\ d + 7 < 8 * e /\ a <= b /\ c <= d
    BY <1>4, <1>6, <2>1
  <2> HIDE DEF a, b, c, d, e, l
  <2>3. l \in Nat /\ 8 * a + c + 7 < 8 * l
    BY <2>2
  <2> QED BY <2>3 DEF a, c, l
<1> QED BY <1>7 DEF q

-----------------------------------------------------------------------------
(* Reading.                                                                *)

Typed(v) ==
    v \in [pos : Int, bits : Int, cur : MarkerCodes \union {"FF", "end", "other", "none"},
           frame : Frames, thumb : Frames, scan : {0}, app : Int, used : Int]

\* Moving on changes the position and the count, and nothing else.
LEMMA Moving ==
    ASSUME NEW v, Typed(v), NEW k \in Int
    PROVE /\ Typed(Move(v, k))
          /\ Move(v, k).pos = v.pos + k /\ Move(v, k).bits = v.bits + 8 * k
          /\ Move(v, k).cur = v.cur /\ Move(v, k).frame = v.frame /\ Move(v, k).thumb = v.thumb
          /\ Move(v, k).app = v.app /\ Move(v, k).used = v.used
<1> DEFINE a == v.pos + k
           b == v.bits + 8 * k
           u == Move(v, k)
<1>1. a \in Int /\ b \in Int
  BY DEF Typed
<1>2. u = [v EXCEPT !.pos = a, !.bits = b]
  BY DEF Move
<1> HIDE DEF a, b, u
<1>3. /\ Typed(u) /\ u.pos = a /\ u.bits = b /\ u.cur = v.cur /\ u.frame = v.frame
      /\ u.thumb = v.thumb /\ u.app = v.app /\ u.used = v.used
  BY <1>1, <1>2 DEF Typed
<1> QED BY <1>3 DEF a, b, u

\* Any byte is a prefix, a marker or something else.
LEMMA ByteTyped ==
    ASSUME stream \in Streams, NEW p
    PROVE Byte(p) \in MarkerCodes \union {"FF", "other"}
<1>1. CASE \E g \in Parts[stream] : p = g.at + g.fill
  <2> DEFINE h == CHOOSE g \in Parts[stream] : p = g.at + g.fill
  <2>1. h \in Parts[stream]
    BY <1>1
  <2>2. h.m \in MarkerCodes
    BY <2>1, PartsApart
  <2> QED BY <1>1, <2>2 DEF Byte
<1>2. CASE ~ \E g \in Parts[stream] : p = g.at + g.fill
  BY <1>2 DEF Byte
<1> QED BY <1>1, <1>2

\* Reading a marker: two bytes, or one after a prefix; nothing behind the end.
LEMMA MarkerRead ==
    ASSUME stream \in Streams, length \in Nat, NEW v, Typed(v),
           NEW d, d = IF v.cur = "FF" THEN 1 ELSE 2
    PROVE /\ Typed(Coded(v))
          /\ Coded(v).frame = v.frame /\ Coded(v).thumb = v.thumb
          /\ Coded(v).app = v.app /\ Coded(v).used = v.used
          /\ Has(v, d) => /\ Coded(v).pos = v.pos + d /\ Coded(v).bits = v.bits + 8 * d
                          /\ Coded(v).cur = Byte(v.pos + d - 1)
          /\ ~Has(v, d) => /\ Coded(v).cur = "end"
                           /\ Coded(v).bits + 8 > 8 * length
<1> DEFINE x == IF v.cur = "FF" THEN v ELSE Move(v, 1)
<1>1. /\ Typed(x) /\ x.pos = v.pos + d - 1 /\ x.bits = v.bits + 8 * (d - 1)
      /\ x.frame = v.frame /\ x.thumb = v.thumb /\ x.app = v.app /\ x.used = v.used
  <2>1. CASE v.cur = "FF"
    BY <2>1 DEF Typed
  <2>2. CASE v.cur # "FF"
    <3>1. x = Move(v, 1) /\ 1 \in Int /\ d = 2 /\ v.pos \in Int /\ v.bits \in Int
      BY <2>2 DEF Typed
    <3>2. /\ Typed(x) /\ x.pos = v.pos + 1 /\ x.bits = v.bits + 8 * 1
          /\ x.frame = v.frame /\ x.thumb = v.thumb /\ x.app = v.app /\ x.used = v.used
      <4> HIDE DEF x
      <4> QED BY <3>1, Moving
    <3> HIDE DEF x
    <3> QED BY <3>1, <3>2
  <2> QED BY <2>1, <2>2
<1>2. v.pos \in Int /\ v.bits \in Int /\ d \in {1, 2} /\ x.pos \in Int /\ x.bits \in Int
  BY <1>1 DEF Typed
<1>3. Coded(v) = IF Has(x, 1) THEN [Move(x, 1) EXCEPT !.cur = Byte(x.pos)]
                 ELSE [x EXCEPT !.cur = "end"]
  BY DEF Coded
<1> HIDE DEF x
<1>4. Has(x, 1) <=> Has(v, d)
  BY <1>1, <1>2 DEF Has
<1>5. CASE Has(v, d)
  <2> DEFINE y == Move(x, 1)
  <2>1. /\ Typed(y) /\ y.pos = x.pos + 1 /\ y.bits = x.bits + 8
        /\ y.frame = x.frame /\ y.thumb = x.thumb /\ y.app = x.app /\ y.used = x.used
    <3>1. Typed(x) /\ 1 \in Int
      BY <1>1
    <3>2. Move(x, 1).bits = x.bits + 8 * 1
      BY <3>1, Moving
    <3> QED BY <3>1, <3>2, Moving
  <2> HIDE DEF y
  <2>2. Coded(v) = [y EXCEPT !.cur = Byte(x.pos)]
    BY <1>3, <1>4, <1>5 DEF y
  <2>3. Byte(x.pos) \in MarkerCodes \union {"FF", "end", "other", "none"}
    BY ByteTyped
  <2>4. /\ Typed(Coded(v)) /\ Coded(v).cur = Byte(x.pos)
        /\ Coded(v).pos = y.pos /\ Coded(v).bits = y.bits
        /\ Coded(v).frame = y.frame /\ Coded(v).thumb = y.thumb
        /\ Coded(v).app = y.app /\ Coded(v).used = y.used
    BY <2>1, <2>2, <2>3 DEF Typed
  <2> QED BY <1>1, <1>2, <1>5, <2>1, <2>4
<1>6. CASE ~Has(v, d)
  <2>1. Coded(v) = [x EXCEPT !.cur = "end"]
    BY <1>3, <1>4, <1>6
  <2>2. /\ Typed(Coded(v)) /\ Coded(v).cur = "end" /\ Coded(v).bits = x.bits
        /\ Coded(v).frame = x.frame /\ Coded(v).thumb = x.thumb
        /\ Coded(v).app = x.app /\ Coded(v).used = x.used
    BY <1>1, <2>1 DEF Typed
  <2>3. x.bits + 8 > 8 * length
    BY <1>2, <1>4, <1>6 DEF Has
  <2> QED BY <1>1, <1>6, <2>2, <2>3
<1> QED BY <1>5, <1>6

\* A walk at a segment: i of its FF bytes have been taken for markers.
Reaches(v, g, i) ==
    /\ i \in 0 .. g.fill - 1
    /\ i = 0 => v.cur # "FF" /\ v.pos = g.at
    /\ i > 0 => v.cur = "FF" /\ v.pos = g.at + i + 1

\* The bytes that are left to be read up to the next marker or FF byte.
Wanted(i) == IF i = 0 THEN 2 ELSE 1

\* What the loops read at a segment: another FF byte, or its marker.
LEMMA Reading ==
    ASSUME stream \in Streams, length \in Nat, NEW g \in Parts[stream], NEW i,
           NEW v, Typed(v), Reaches(v, g, i)
    PROVE /\ Typed(Coded(v))
          /\ Coded(v).frame = v.frame /\ Coded(v).thumb = v.thumb
          /\ Coded(v).app = v.app /\ Coded(v).used = v.used
          /\ Has(v, Wanted(i)) =>
                /\ Prefix(v)
                /\ Coded(v).pos = g.at + i + 2 /\ Coded(v).bits = v.bits + 8 * Wanted(i)
                /\ i + 1 < g.fill => Coded(v).cur = "FF" /\ Reaches(Coded(v), g, i + 1)
                /\ i + 1 = g.fill => Coded(v).cur = g.m /\ Here(Coded(v)) = g
          /\ ~Has(v, Wanted(i)) => /\ Coded(v).cur = "end"
                           /\ Coded(v).bits + 8 > 8 * length
<1> DEFINE d == Wanted(i)
<1>1. g.at \in Nat /\ g.fill \in Nat \ {0} /\ i \in Nat /\ i < g.fill
  BY PartsApart DEF Reaches
<1>2. d = (IF v.cur = "FF" THEN 1 ELSE 2) /\ d = IF i = 0 THEN 2 ELSE 1
  BY <1>1 DEF Reaches, Wanted
<1> HIDE DEF d
<1>3. v.pos \in Int /\ v.bits \in Int /\ v.pos + d = g.at + i + 2 /\ d \in {1, 2}
  BY <1>1, <1>2 DEF Reaches, Typed
<1>4. ASSUME Has(v, d)
      PROVE /\ Prefix(v)
            /\ Coded(v).pos = g.at + i + 2 /\ Coded(v).bits = v.bits + 8 * d
            /\ i + 1 < g.fill => Coded(v).cur = "FF" /\ Reaches(Coded(v), g, i + 1)
            /\ i + 1 = g.fill => Coded(v).cur = g.m /\ Here(Coded(v)) = g
  <2>1. /\ Coded(v).pos = g.at + i + 2 /\ Coded(v).bits = v.bits + 8 * d
        /\ Coded(v).cur = Byte(v.pos + d - 1)
    BY <1>2, <1>3, <1>4, MarkerRead
  <2>2. v.pos + d - 1 = g.at + (i + 1)
    BY <1>1, <1>3
  <2>3. ASSUME i + 1 < g.fill PROVE Coded(v).cur = "FF" /\ Reaches(Coded(v), g, i + 1)
    <3>1. i + 1 \in 0 .. g.fill - 1
      BY <1>1, <2>3
    <3>2. Byte(g.at + (i + 1)) = "FF"
      BY <3>1, Bytes
    <3>3. Coded(v).cur = "FF"
      BY <2>1, <2>2, <3>2
    <3>4. Coded(v).pos = g.at + (i + 1) + 1 /\ i + 1 > 0
      BY <1>1, <2>1
    <3> QED BY <3>1, <3>3, <3>4 DEF Reaches
  <2>4. ASSUME i + 1 = g.fill PROVE Coded(v).cur = g.m /\ Here(Coded(v)) = g
    <3>1. Byte(g.at + (i + 1)) = g.m
      BY <2>4, Bytes
    <3>2. Coded(v).pos - 1 = g.at + g.fill
      BY <1>1, <2>1, <2>4
    <3>3. Here(Coded(v)) = g
      BY <3>2, Bytes
    <3> QED BY <2>1, <2>2, <3>1, <3>3
  <2>5. Prefix(v)
    <3>1. CASE i = 0
      <4>1. v.pos = g.at + 0 /\ Has(v, 1)
        BY <1>1, <1>3, <1>4, <3>1 DEF Reaches, Has
      <4>2. 0 \in 0 .. g.fill - 1
        BY <1>1
      <4>3. Byte(v.pos) = "FF"
        BY <4>1, <4>2, Bytes
      <4> QED BY <4>1, <4>3 DEF Prefix
    <3>2. CASE i # 0
      BY <1>1, <3>2 DEF Reaches, Prefix
    <3> QED BY <3>1, <3>2
  <2> QED BY <2>1, <2>3, <2>4, <2>5
<1> QED BY <1>2, <1>4, MarkerRead DEF d

-----------------------------------------------------------------------------
(* The first walk, segment by segment.                                     *)

\* The walk is in the prefix of the k-th segment, and has found what the
\* segments before it say; or it has read its marker.
AtSegment(v, s, l, k, i) ==
    /\ Reaches(v, s.segs[k], i)
    /\ v.bits = 8 * v.pos + s.segs[k].turn + i
    /\ v.frame = FrameSoFar(s, k) /\ v.thumb = ThumbSoFar(s, k)
    /\ Passed(s, k, l)
Arrived(v, s, l, k) ==
    /\ Typed(v) /\ v.cur = s.segs[k].m
    /\ v.pos = s.segs[k].at + s.segs[k].fill + 1
    /\ v.bits = 8 * v.pos + s.segs[k].turn + s.segs[k].fill - 1
    /\ v.frame = FrameSoFar(s, k) /\ v.thumb = ThumbSoFar(s, k)
    /\ Passed(s, k, l)

\* The loop in the thumbnail is at its j-th segment, i pairs of bytes behind its start.
AtThumbnail(v, s, l, k, j, i) ==
    LET g == s.segs[k]
        x == g.inner[j]
    IN /\ g.inner # <<>> /\ i \in Nat /\ 2 * i <= x.fill
       /\ v.pos = x.at + 2 * i /\ v.bits = 8 * v.pos + x.turn + i
       /\ v.app = g.len /\ v.used = v.pos - (g.at + g.fill + 1)
       /\ \A h \in 1 .. j - 1 : g.inner[h].fill % 2 = 1
       /\ v.frame = FrameSoFar(s, k)
       /\ Passed(s, k, l)

CutOff(v, l) == v.cur = "end" /\ v.bits + 8 > 8 * l

\* What the client is told holds for the stream, which reaches behind its scan header.
ToldRight(s, l, i) ==
    Passed(s, Len(s.segs), l) /\ i = Described(s) /\ l >= End(ScanOf(s)) + 2

\* The places of the first walk.
InInfo(v, s, l) ==
    \E k \in 1 .. Len(s.segs) : \E i \in 0 .. s.segs[k].fill : AtSegment(v, s, l, k, i)
InThumbnail(v, s, l) ==
    \E k \in 1 .. Len(s.segs) : \E j \in 1 .. Len(s.segs[k].inner) :
        \E i \in 0 .. s.segs[k].inner[j].fill : AtThumbnail(v, s, l, k, j, i)

\* The numbers of a segment.
LEMMA SegmentTyped ==
    ASSUME NEW s \in Streams, NEW k \in 1 .. Len(s.segs)
    PROVE /\ s.segs[k].at \in Nat /\ s.segs[k].turn \in Nat /\ s.segs[k].fill \in Nat \ {0}
          /\ s.segs[k].len \in Nat /\ s.segs[k].ri \in Nat /\ s.segs[k].m \in MarkerCodes
          /\ s.segs[k].frame \in Frames /\ s.segs[k] \in Outer /\ s.segs[k].m \notin {"FF", "end"}
          /\ End(s.segs[k]) = s.segs[k].at + s.segs[k].fill + 1 + s.segs[k].len
          /\ s.segs[k].m \in Alone => s.segs[k].len = 0
          /\ s.segs[k].m \notin Alone => s.segs[k].len >= 2
          /\ s.segs[k].m = "DRI" => s.segs[k].len = 4
          /\ s.segs[k].m = "SOS" <=> k = Len(s.segs)
          /\ s.segs[k].inner # <<>> =>
                /\ Thumbnail(s.segs[k]) /\ s.segs[k].m = "APP0" /\ s.segs[k].id = "JFXX"
<1>1. WellFormed(s) /\ s.segs[k] \in Outer
  BY StreamForm
<1>2. /\ s.segs[k].at \in Nat /\ s.segs[k].turn \in Nat /\ s.segs[k].fill \in Nat \ {0}
      /\ s.segs[k].len \in Nat /\ s.segs[k].ri \in Nat /\ s.segs[k].m \in MarkerCodes
      /\ s.segs[k].frame \in Frames
  BY <1>1 DEF Outer, SegmentsWith
<1>3. s.segs[k].m \notin {"FF", "end"}
  BY <1>2 DEF MarkerCodes, FrameMarkers, Skipped, Others, Alone
<1>4. Lengthy(s.segs[k]) /\ (s.segs[k].m = "SOS" <=> k = Len(s.segs))
      /\ (s.segs[k].inner # <<>> => Thumbnail(s.segs[k]))
  BY <1>1 DEF WellFormed
<1>5. End(s.segs[k]) = s.segs[k].at + s.segs[k].fill + 1 + s.segs[k].len
  <2>1. End(s.segs[k]) = s.segs[k].at + (s.segs[k].fill + 1 + s.segs[k].len)
    BY DEF End, Size
  <2> DEFINE a == s.segs[k].at  b == s.segs[k].fill  c == s.segs[k].len  e == End(s.segs[k])
  <2>2. a \in Nat /\ b \in Nat /\ c \in Nat /\ e = a + (b + 1 + c)
    BY <1>2, <2>1
  <2> HIDE DEF a, b, c, e
  <2>3. e = a + b + 1 + c
    BY <2>2
  <2> QED BY <2>3 DEF a, b, c, e
<1>6. /\ s.segs[k].m \in Alone => s.segs[k].len = 0
      /\ s.segs[k].m \notin Alone => s.segs[k].len >= 2
      /\ s.segs[k].m = "DRI" => s.segs[k].len = 4
  BY <1>4 DEF Lengthy
<1>7. Thumbnail(s.segs[k]) => s.segs[k].m = "APP0" /\ s.segs[k].id = "JFXX"
  BY DEF Thumbnail
<1> QED BY <1>1, <1>2, <1>3, <1>4, <1>5, <1>6, <1>7

\* A turn of the loop behind the k-th segment is one at the next.
LEMMA Onward ==
    ASSUME NEW s \in Streams, NEW l, NEW k \in 1 .. Len(s.segs) - 1,
           NEW x, Typed(x), x.cur # "FF",
           x.pos = End(s.segs[k]), x.bits = 8 * x.pos + After(s.segs[k]) - 1,
           x.frame = FrameSoFar(s, k + 1), x.thumb = ThumbSoFar(s, k + 1),
           Passed(s, k + 1, l),
           NEW u, u = [x EXCEPT !.bits = @ + 1]
    PROVE Typed(u) /\ InInfo(u, s, l)
<1>1. /\ s.segs[k + 1].at = End(s.segs[k]) /\ s.segs[k + 1].turn = After(s.segs[k])
      /\ Len(s.segs) \in Nat
  BY StreamForm DEF WellFormed
<1>2. k \in 1 .. Len(s.segs) /\ k + 1 \in 1 .. Len(s.segs)
  BY <1>1
<1>3. s.segs[k + 1].fill \in Nat \ {0}
  BY <1>2, SegmentTyped
<1>4. End(s.segs[k]) \in Nat /\ After(s.segs[k]) \in Nat
  BY <1>2, StreamLayout
<1>5. /\ Typed(u) /\ u.bits = x.bits + 1 /\ u.pos = x.pos /\ u.cur = x.cur
      /\ u.frame = x.frame /\ u.thumb = x.thumb
  <2>1. x.bits \in Int
    BY DEF Typed
  <2> QED BY <2>1 DEF Typed
<1>6. Reaches(u, s.segs[k + 1], 0)
  BY <1>1, <1>3, <1>5 DEF Reaches
<1>7. u.bits = 8 * u.pos + s.segs[k + 1].turn + 0
  BY <1>1, <1>4, <1>5
<1>8. AtSegment(u, s, l, k + 1, 0) /\ 0 \in 0 .. s.segs[k + 1].fill
  BY <1>3, <1>5, <1>6, <1>7 DEF AtSegment
<1> QED BY <1>2, <1>5, <1>8 DEF InInfo

\* A segment the first walk is not to take is a reason to refuse the stream.
LEMMA RefusedRightly ==
    ASSUME stream \in Streams, Whole, NEW k \in 1 .. Len(stream.segs) - 1,
           ~Acceptable(stream.segs[k], length)
    PROVE ~Supported(stream)
<1>1. stream.segs[k] \in Headers(stream)
  BY DEF Headers
<1> QED BY <1>1 DEF Supported, Whole

\* What a turn of the first walk may lead to.
InfoOutcome ==
    /\ UNCHANGED call
    /\ \/ /\ at' = "info" /\ Typed(walk') /\ UNCHANGED init
          /\ InInfo(walk', stream, length) \/ (CutOff(walk', length) /\ ~Whole)
       \/ /\ at' = "thumb" /\ Typed(walk') /\ UNCHANGED init
          /\ InThumbnail(walk', stream, length) \/ (CutOff(walk', length) /\ ~Whole)
       \/ at' = "told" /\ walk' = Begin /\ ToldRight(stream, length, info')
       \/ at' = "idle" /\ ret' = "info" /\ (Whole => ~Supported(stream))

\* The check of the length of a segment never refuses one of a whole stream.
LEMMA LengthFits ==
    ASSUME stream \in Streams, length \in Nat, NEW k \in 1 .. Len(stream.segs),
           NEW v, Arrived(v, stream, length, k), stream.segs[k].m \notin Alone
    PROVE /\ Whole => Fits(v, stream.segs[k])
          /\ Fits(v, stream.segs[k]) <=>
                8 * End(stream.segs[k]) + stream.segs[k].turn + stream.segs[k].fill - 1
                    <= 8 * length
<1> DEFINE g == stream.segs[k]
<1>1. /\ g.at \in Nat /\ g.turn \in Nat /\ g.fill \in Nat \ {0} /\ g.len \in Nat /\ g.len >= 2
      /\ End(g) = g.at + g.fill + 1 + g.len
  BY SegmentTyped
<1>2. v.pos = g.at + g.fill + 1 /\ v.bits = 8 * v.pos + g.turn + g.fill - 1
  BY DEF Arrived
<1>3. g.turn + g.fill <= After(g) /\ After(g) \in Nat
  BY StreamLayout
<1>4. Whole => 8 * End(g) + After(g) + 7 < 8 * length
  BY Room
<1> HIDE DEF g
<1>5. Fits(v, g) <=> 8 * End(g) + g.turn + g.fill - 1 <= 8 * length
  <2>1. \A a, f, n, t \in Nat : \A b :
            n >= 2 /\ b = 8 * (a + f + 1) + t + f - 1 =>
                ((b + 8 * 2 <= 8 * length /\ b + 8 * n <= 8 * length)
                 <=> 8 * (a + f + 1 + n) + t + f - 1 <= 8 * length)
    OBVIOUS
  <2>2. v.bits = 8 * (g.at + g.fill + 1) + g.turn + g.fill - 1
    BY <1>2
  <2> QED BY <1>1, <2>1, <2>2 DEF Fits, Has
<1>6. Whole => Fits(v, g)
  <2>1. \A e, t, f, a \in Nat :
            t + f <= a /\ 8 * e + a + 7 < 8 * length => 8 * e + t + f - 1 <= 8 * length
    OBVIOUS
  <2>2. End(g) \in Nat
    BY StreamLayout DEF g
  <2> QED BY <1>1, <1>3, <1>4, <1>5, <2>1, <2>2
<1> QED BY <1>5, <1>6 DEF g

\* The count behind a segment of which the marker has been read, and what the
\* interval of a DRI segment is held against.
LEMMA CountBehind ==
    ASSUME NEW s \in Streams, NEW l, NEW k \in 1 .. Len(s.segs), NEW v, Arrived(v, s, l, k)
    PROVE /\ v.bits + 8 * s.segs[k].len
                = 8 * End(s.segs[k]) + (s.segs[k].turn + s.segs[k].fill) - 1
          /\ s.segs[k].m = "DRI" =>
                v.bits + 32 + 8 * s.segs[k].ri - 16
                    = 8 * (End(s.segs[k]) + s.segs[k].ri) + s.segs[k].turn + s.segs[k].fill - 17
<1> DEFINE g == s.segs[k]
           a == g.at  f == g.fill  z == g.len  t == g.turn  r == g.ri  b == v.bits  e == End(g)
<1>1. /\ a \in Nat /\ f \in Nat /\ z \in Nat /\ t \in Nat /\ r \in Nat
      /\ e = a + f + 1 + z
  BY SegmentTyped
<1>2. g.m = "DRI" => z = 4
  BY SegmentTyped
<1>3. b = 8 * (a + f + 1) + t + f - 1
  BY DEF Arrived
<1> HIDE DEF a, f, z, t, r, b, e
<1>4. b + 8 * z = 8 * e + (t + f) - 1
  BY <1>1, <1>3
<1>5. z = 4 => b + 32 + 8 * r - 16 = 8 * (e + r) + t + f - 17
  BY <1>1, <1>3
<1> QED BY <1>2, <1>4, <1>5 DEF f, z, t, r, b, e

\* A turn of the loop that leaves a segment behind.
LEMMA TurnBehind ==
    ASSUME stream \in Streams, NEW k \in 1 .. Len(stream.segs) - 1,
           NEW v, Arrived(v, stream, length, k), stream.segs[k].inner = <<>>,
           Acceptable(stream.segs[k], length),
           NEW x, Typed(x), x.cur # "FF", x.pos = End(stream.segs[k]),
           x.bits = v.bits + 8 * stream.segs[k].len,
           x.frame = FrameSoFar(stream, k + 1), x.thumb = v.thumb,
           Turn(x, "info")
    PROVE InfoOutcome
<1> DEFINE g == stream.segs[k]
<1>0. k \in 1 .. Len(stream.segs)
  BY StreamForm
<1>1. /\ g.at \in Nat /\ g.turn \in Nat /\ g.fill \in Nat \ {0} /\ g.len \in Nat
      /\ End(g) = g.at + g.fill + 1 + g.len
  BY <1>0, SegmentTyped
<1>2. /\ v.pos = g.at + g.fill + 1 /\ v.bits = 8 * v.pos + g.turn + g.fill - 1
      /\ v.thumb = ThumbSoFar(stream, k) /\ Passed(stream, k, length)
  BY DEF Arrived
<1>3. After(g) = g.turn + g.fill
  BY DEF After
<1>4. x.thumb = ThumbSoFar(stream, k + 1) /\ Passed(stream, k + 1, length)
  BY <1>2, ThumbnailKnown, PassedAll
<1>5. x.bits = 8 * x.pos + After(g) - 1
  BY <1>0, <1>3, CountBehind
<1>6. /\ walk' = [x EXCEPT !.bits = @ + 1] /\ at' = "info"
      /\ UNCHANGED <<init, call>>
  BY DEF Turn
<1>7. Typed(walk') /\ InInfo(walk', stream, length)
  BY <1>4, <1>5, <1>6, Onward
<1> QED BY <1>6, <1>7 DEF InfoOutcome

\* What the walk knows after it has moved over a segment.
LEMMA MovedBehind ==
    ASSUME NEW s \in Streams, NEW l, NEW k \in 1 .. Len(s.segs), NEW v, Arrived(v, s, l, k),
           NEW x, x = Move(v, s.segs[k].len)
    PROVE /\ Typed(x) /\ x.cur # "FF" /\ x.pos = End(s.segs[k])
          /\ x.bits = v.bits + 8 * s.segs[k].len
          /\ x.frame = v.frame /\ x.thumb = v.thumb /\ x.cur = v.cur
<1>1. /\ s.segs[k].len \in Int /\ Typed(v) /\ v.cur # "FF"
      /\ v.pos + s.segs[k].len = End(s.segs[k])
  BY SegmentTyped, SMTT(30) DEF Arrived
<1>2. Move(v, s.segs[k].len).pos = v.pos + s.segs[k].len
      /\ Move(v, s.segs[k].len).bits = v.bits + 8 * s.segs[k].len
  BY <1>1, Moving
<1> QED BY <1>1, <1>2, Moving

\* Segments of which only the length is read.
LEMMA SkipStep ==
    ASSUME stream \in Streams, length \in Nat, NEW k \in 1 .. Len(stream.segs) - 1,
           NEW v, Arrived(v, stream, length, k), stream.segs[k].inner = <<>>,
           Acceptable(stream.segs[k], length), stream.segs[k].m \notin FrameMarkers \union Alone,
           InfoSkip(v, stream.segs[k])
    PROVE InfoOutcome
<1>1. k \in 1 .. Len(stream.segs)
  BY StreamForm
<1>2. CASE Fits(v, stream.segs[k])
  <2> DEFINE x == Move(v, stream.segs[k].len)
  <2>1. /\ Typed(x) /\ x.cur # "FF" /\ x.pos = End(stream.segs[k])
        /\ x.bits = v.bits + 8 * stream.segs[k].len /\ x.frame = v.frame /\ x.thumb = v.thumb
    BY <1>1, MovedBehind
  <2>2. Turn(x, "info")
    BY <1>2 DEF InfoSkip
  <2>3. x.frame = FrameSoFar(stream, k + 1)
    BY <2>1, FrameKnown DEF Arrived
  <2> HIDE DEF x
  <2> QED BY <2>1, <2>2, <2>3, TurnBehind
<1>3. CASE ~Fits(v, stream.segs[k])
  <2>1. ~Whole
    BY <1>1, <1>3, LengthFits
  <2>2. Refused("info")
    BY <1>3 DEF InfoSkip
  <2> QED BY <2>1, <2>2 DEF Refused, InfoOutcome, call
<1> QED BY <1>2, <1>3

\* A frame header.
LEMMA FrameStep ==
    ASSUME stream \in Streams, length \in Nat, NEW k \in 1 .. Len(stream.segs) - 1,
           NEW v, Arrived(v, stream, length, k), stream.segs[k].m \in FrameMarkers,
           InfoFrame(v, stream.segs[k])
    PROVE InfoOutcome
<1> DEFINE g == stream.segs[k]
           Fine == Fits(v, g) /\ Sized(g.frame) /\ g.frame.s \in Formats
<1>1. /\ k \in 1 .. Len(stream.segs) /\ g.m \notin Others \union Alone \union {"DRI", "APP0"}
      /\ g.frame \in Frames
  BY StreamForm, SegmentTyped DEF FrameMarkers, Others, Alone
<1>2. g.inner = <<>>
  BY <1>1, SegmentTyped
<1>3. CASE Fine
  <2> DEFINE y == Move(v, g.len)
             x == [y EXCEPT !.frame = Said(g)]
  <2>1. /\ Typed(y) /\ y.cur # "FF" /\ y.pos = End(g)
        /\ y.bits = v.bits + 8 * g.len /\ y.thumb = v.thumb
    BY <1>1, MovedBehind
  <2>2. Turn(x, "info")
    BY <1>3 DEF InfoFrame, Said
  <2>3. Said(g) \in Frames
    BY <1>1, FramesStayFrames
  <2> HIDE DEF y
  <2>4. /\ Typed(x) /\ x.cur = y.cur /\ x.pos = y.pos /\ x.bits = y.bits /\ x.thumb = y.thumb
        /\ x.frame = Said(g)
    BY <2>1, <2>3 DEF Typed
  <2>5. x.frame = FrameSoFar(stream, k + 1)
    BY <2>4, FrameKnown
  <2>6. Acceptable(g, length)
    BY <1>1, <1>2, <1>3 DEF Acceptable
  <2> HIDE DEF x
  <2> QED BY <1>2, <2>1, <2>2, <2>4, <2>5, <2>6, TurnBehind
<1>4. CASE ~Fine
  <2>1. Refused("info")
    BY <1>4 DEF InfoFrame
  <2>2. Whole => ~Supported(stream)
    <3>1. ASSUME Whole PROVE ~Acceptable(g, length)
      BY <1>1, <1>4, <3>1, LengthFits DEF Acceptable
    <3> QED BY <3>1, RefusedRightly
  <2> QED BY <2>1, <2>2 DEF Refused, InfoOutcome, call
<1> QED BY <1>3, <1>4

\* A restart interval, taken for the length of a segment.
LEMMA IntervalStep ==
    ASSUME stream \in Streams, length \in Nat, NEW k \in 1 .. Len(stream.segs) - 1,
           NEW v, Arrived(v, stream, length, k), stream.segs[k].m = "DRI",
           InfoInterval(v, stream.segs[k])
    PROVE InfoOutcome
<1> DEFINE g == stream.segs[k]
           Fine == Fits(v, g) /\ v.bits + 32 + 8 * g.ri - 16 <= 8 * length
<1>1. /\ k \in 1 .. Len(stream.segs) /\ g.m \notin FrameMarkers \union Others \union Alone
      /\ g.len = 4 /\ g.inner = <<>>
  BY StreamForm, SegmentTyped DEF FrameMarkers, Others, Alone
<1>2. v.bits + 32 + 8 * g.ri - 16 = 8 * (End(g) + g.ri) + g.turn + g.fill - 17
  BY <1>1, CountBehind
<1>3. Acceptable(g, length) <=> v.bits + 32 + 8 * g.ri - 16 <= 8 * length
  BY <1>1, <1>2 DEF Acceptable
<1>4. CASE Fine
  <2> DEFINE x == Move(v, g.len)
  <2>1. /\ Typed(x) /\ x.cur # "FF" /\ x.pos = End(g)
        /\ x.bits = v.bits + 8 * g.len /\ x.frame = v.frame /\ x.thumb = v.thumb
    BY <1>1, MovedBehind
  <2>2. Turn(x, "info")
    BY <1>1, <1>4 DEF InfoInterval
  <2>3. x.frame = FrameSoFar(stream, k + 1)
    BY <1>1, <2>1, FrameKnown DEF Arrived
  <2>4. Acceptable(g, length)
    BY <1>3, <1>4
  <2> HIDE DEF x
  <2> QED BY <1>1, <2>1, <2>2, <2>3, <2>4, TurnBehind
<1>5. CASE ~Fine
  <2>1. Refused("info")
    BY <1>5 DEF InfoInterval
  <2>2. Whole => ~Supported(stream)
    <3>1. ASSUME Whole PROVE ~Acceptable(g, length)
      BY <1>1, <1>3, <1>5, <3>1, LengthFits
    <3> QED BY <3>1, RefusedRightly
  <2> QED BY <2>1, <2>2 DEF Refused, InfoOutcome, call
<1> QED BY <1>4, <1>5

\* The scan header: the client is told what has been found.
LEMMA ScanStep ==
    ASSUME stream \in Streams, length \in Nat, NEW k, k = Len(stream.segs),
           NEW v, Arrived(v, stream, length, k), InfoScan(v, stream.segs[k])
    PROVE InfoOutcome
<1> DEFINE g == stream.segs[k]
           y == Move(v, g.len)
           x == [y EXCEPT !.frame = Coding(@, g)]
           Fine == Fits(v, g) /\ x.bits + 8 < 8 * length
<1>1. /\ k \in 1 .. Len(stream.segs) /\ g.m = "SOS" /\ g.m \notin Alone /\ g = ScanOf(stream)
      /\ g.turn \in Nat /\ g.fill \in Nat \ {0}
  BY StreamForm, SegmentTyped DEF Alone, ScanOf, Last
<1>2. /\ Typed(y) /\ y.pos = End(g) /\ y.bits = v.bits + 8 * g.len
      /\ y.frame = v.frame /\ y.thumb = v.thumb
  BY <1>1, MovedBehind
<1>3. y.bits = 8 * End(g) + (g.turn + g.fill) - 1 /\ End(g) \in Nat
  BY <1>1, <1>2, CountBehind, StreamLayout, SMTT(30)
<1>4. /\ Passed(stream, Len(stream.segs), length)
      /\ v.frame = FrameSoFar(stream, Len(stream.segs)) /\ v.thumb = Described(stream).thumb
  BY <1>1, ThumbnailKnown DEF Arrived
<1>5. v.frame = Said(FrameOf(stream))
  BY <1>4, FrameKnown
<1> HIDE DEF y
<1>6. x.pos = y.pos /\ x.bits = y.bits /\ x.thumb = y.thumb /\ x.frame = Coding(y.frame, g)
  BY <1>2 DEF Typed
<1>7. InfoScan(v, g) <=> IF Fine THEN Told(x) /\ init' = TRUE ELSE Refused("info")
  BY DEF InfoScan, y
<1>8. CASE Fine
  <2>1. Told(x)
    BY <1>7, <1>8
  <2>2. info' = Described(stream)
    <3>1. info' = [frame |-> x.frame, thumb |-> x.thumb, scan |-> x.pos]
      BY <2>1 DEF Told
    <3>2. Described(stream) = [frame |-> Coding(Said(FrameOf(stream)), g),
                               thumb |-> Described(stream).thumb, scan |-> End(g)]
      BY <1>1 DEF Described
    <3> QED BY <1>2, <1>4, <1>5, <1>6, <3>1, <3>2
  <2>3. length >= End(g) + 2
    <3> DEFINE e == End(g)  t == g.turn  f == g.fill  b == x.bits
    <3>1. /\ e \in Nat /\ t \in Nat /\ f \in Nat \ {0} /\ b = 8 * e + (t + f) - 1
          /\ b + 8 < 8 * length
      BY <1>1, <1>3, <1>6, <1>8
    <3> HIDE DEF e, t, f, b
    <3>2. length >= e + 2
      BY <3>1
    <3> QED BY <3>2 DEF e
  <2>4. at' = "told" /\ walk' = Begin /\ UNCHANGED call
    BY <2>1 DEF Told
  <2> QED BY <1>1, <1>4, <2>2, <2>3, <2>4 DEF InfoOutcome, ToldRight
<1>9. CASE ~Fine
  <2>1. Refused("info")
    BY <1>7, <1>9
  <2>2. ~Whole
    <3>1. SUFFICES ASSUME Whole PROVE FALSE
      OBVIOUS
    <3>2. Fits(v, g)
      BY <1>1, <3>1, LengthFits
    <3>3. 8 * End(g) + After(g) + 7 < 8 * length /\ g.turn + g.fill <= After(g) /\ After(g) \in Nat
      BY <1>1, <3>1, Room, StreamLayout
    <3> DEFINE e == End(g)  t == g.turn  f == g.fill  b == x.bits  a == After(g)
    <3>4. /\ e \in Nat /\ t \in Nat /\ f \in Nat /\ a \in Nat /\ b = 8 * e + (t + f) - 1
          /\ 8 * e + a + 7 < 8 * length /\ t + f <= a
      BY <1>1, <1>3, <1>6, <3>3
    <3> HIDE DEF e, t, f, b, a
    <3>5. b + 8 < 8 * length
      BY <3>4
    <3> QED BY <1>9, <3>2, <3>5 DEF b
  <2> QED BY <2>1, <2>2 DEF Refused, InfoOutcome, call
<1> QED BY <1>8, <1>9

\* Into a thumbnail: the length of its segment and what has been used are noted.
Entered(v, z) == [Move(v, 8) EXCEPT !.app = z, !.used = 8]
LEMMA Entering ==
    ASSUME NEW v, Typed(v), NEW z \in Int
    PROVE /\ Typed(Entered(v, z))
          /\ Entered(v, z).pos = v.pos + 8 /\ Entered(v, z).bits = v.bits + 64
          /\ Entered(v, z).frame = v.frame
          /\ Entered(v, z).app = z /\ Entered(v, z).used = 8
<1> DEFINE y == Move(v, 8)
           u == Entered(v, z)
           n == 8
<1>1. /\ Typed(y) /\ y.pos = v.pos + 8 /\ y.bits = v.bits + 64 /\ y.frame = v.frame
  <2>0. 8 \in Int
    OBVIOUS
  <2>1. Move(v, 8).bits = v.bits + 8 * 8
    BY <2>0, Moving
  <2> QED BY <2>0, <2>1, Moving
<1>2. n \in Int /\ u = [y EXCEPT !.app = z, !.used = n]
  BY DEF Entered
<1> HIDE DEF n, u, y
<1>3. Typed(u)
  BY <1>1, <1>2 DEF Typed
<1>4. u.pos = y.pos /\ u.bits = y.bits /\ u.frame = y.frame /\ u.app = z /\ u.used = n
  BY <1>1, <1>2 DEF Typed
<1> QED BY <1>1, <1>3, <1>4 DEF n, u

\* An APP0 segment is skipped, or its thumbnail looked into.
LEMMA AppStep ==
    ASSUME stream \in Streams, length \in Nat, NEW k \in 1 .. Len(stream.segs) - 1,
           NEW v, Arrived(v, stream, length, k), stream.segs[k].m = "APP0",
           InfoApp(v, stream.segs[k])
    PROVE InfoOutcome
<1> DEFINE g == stream.segs[k]
<1>1. /\ k \in 1 .. Len(stream.segs) /\ g.m \notin FrameMarkers \union Others \union Alone
      /\ g.m # "DRI" /\ g.len \in Int /\ g \in Outer
      /\ g.inner # <<>> => Thumbnail(g) /\ g.id = "JFXX"
  BY StreamForm, SegmentTyped DEF FrameMarkers, Others, Alone
<1>2. CASE g.inner = <<>>
  <2>1. InfoSkip(v, g)
    BY <1>2 DEF InfoApp
  <2>2. Acceptable(g, length)
    BY <1>1, <1>2 DEF Acceptable
  <2> QED BY <1>1, <1>2, <2>1, <2>2, SkipStep
<1>3. CASE g.inner # <<>> /\ ~Fits(v, g)
  <2>1. ~Whole
    BY <1>1, <1>3, LengthFits
  <2>2. Refused("info")
    BY <1>3 DEF InfoApp, InfoSkip
  <2> QED BY <2>1, <2>2 DEF Refused, InfoOutcome, call
<1>4. CASE g.inner # <<>> /\ Fits(v, g)
  <2> DEFINE x == g.inner[1]
  <2>1. walk' = Entered(v, g.len) /\ at' = "thumb" /\ UNCHANGED <<init, call>>
    BY <1>1, <1>4 DEF InfoApp, Entered
  <2>2. /\ x.at = g.at + g.fill + 9 /\ x.turn = g.turn + g.fill - 1 /\ x.fill \in Nat
        /\ 1 \in 1 .. Len(g.inner)
    <3>1. /\ Thumbnail(g) /\ Len(g.inner) \in Nat \ {0}
          /\ \A j \in 1 .. Len(g.inner) : g.inner[j] \in Inner
      BY <1>1, <1>4, ThumbnailLayout
    <3>2. 1 \in 1 .. Len(g.inner) /\ x \in Inner
      BY <3>1
    <3>3. x.fill \in Nat
      BY <3>2 DEF Inner, SegmentsWith
    <3>4. x.at = g.at + g.fill + 9 /\ x.turn = g.turn + g.fill - 1
      BY <3>1 DEF Thumbnail
    <3> QED BY <3>2, <3>3, <3>4
  <2>3. Typed(v) /\ g.len \in Int
    BY <1>1 DEF Arrived
  <2>4. /\ Typed(walk') /\ walk'.pos = v.pos + 8 /\ walk'.bits = v.bits + 64
        /\ walk'.frame = v.frame /\ walk'.app = g.len /\ walk'.used = 8
    BY <2>1, <2>3, Entering
  <2>5. /\ walk'.pos = x.at + 2 * 0 /\ walk'.bits = 8 * walk'.pos + x.turn + 0
        /\ walk'.used = walk'.pos - (g.at + g.fill + 1)
    <3> DEFINE a == g.at  f == g.fill  t == g.turn  p == v.pos  b == v.bits
               p2 == walk'.pos  b2 == walk'.bits  c == x.at  d == x.turn
    <3>1. /\ a \in Nat /\ f \in Nat /\ t \in Nat /\ p = a + f + 1 /\ b = 8 * p + t + f - 1
          /\ p2 = p + 8 /\ b2 = b + 64 /\ c = a + f + 9 /\ d = t + f - 1
      BY <1>1, <2>2, <2>4, SegmentTyped DEF Arrived
    <3> HIDE DEF a, f, t, p, b, p2, b2, c, d
    <3>2. p2 = c + 2 * 0
      BY <3>1
    <3>3. b2 = 8 * p2 + d + 0
      BY <3>1
    <3>4. 8 = p2 - (a + f + 1)
      BY <3>1
    <3> QED BY <2>4, <3>2, <3>3, <3>4 DEF a, f, p2, b2, c, d
  <2>6. /\ walk'.frame = FrameSoFar(stream, k) /\ Passed(stream, k, length)
        /\ \A h \in 1 .. 1 - 1 : g.inner[h].fill % 2 = 1
    BY <2>4 DEF Arrived
  <2>7. AtThumbnail(walk', stream, length, k, 1, 0)
    BY <1>4, <2>2, <2>4, <2>5, <2>6 DEF AtThumbnail
  <2>8. 0 \in 0 .. g.inner[1].fill
    BY <2>2
  <2>9. InThumbnail(walk', stream, length)
    BY <1>1, <2>2, <2>7, <2>8 DEF InThumbnail
  <2> QED BY <2>1, <2>4, <2>9 DEF InfoOutcome
<1> QED BY <1>2, <1>3, <1>4

\* A whole stream has the bytes of a marker that the walk is at.
LEMMA Present ==
    ASSUME stream \in Streams, Whole, NEW k \in 1 .. Len(stream.segs), NEW i,
           NEW v, AtSegment(v, stream, length, k, i)
    PROVE Has(v, Wanted(i)) /\ v.bits \div 8 < length
<1> DEFINE g == stream.segs[k]
           a == g.at  f == g.fill  t == g.turn  z == g.len  e == End(g)  r == After(g)
           b == v.bits  l == length  d == Wanted(i)
<1>0. d = IF i = 0 THEN 2 ELSE 1
  BY DEF Wanted
<1>1. /\ a \in Nat /\ f \in Nat \ {0} /\ t \in Nat /\ z \in Nat /\ e = a + f + 1 + z
      /\ r \in Nat /\ t + f <= r
  BY SegmentTyped, StreamLayout
<1>2. l \in Nat /\ 8 * e + r + 7 < 8 * l
  BY Room
<1>3. i \in Nat /\ i < f /\ b = 8 * v.pos + t + i /\ v.pos = IF i = 0 THEN a ELSE a + i + 1
  BY <1>1 DEF AtSegment, Reaches
<1> DEFINE p == v.pos
<1> HIDE DEF a, f, t, z, e, r, b, l, p, d
<1>4. /\ d \in {1, 2} /\ b \in Int
      /\ b + 8 * d = 8 * (a + i + 2) + t + i
  <2>1. b = 8 * p + t + i /\ p = IF i = 0 THEN a ELSE a + i + 1
    BY <1>3 DEF p
  <2>2. CASE i = 0
    BY <1>0, <1>1, <1>3, <2>1, <2>2
  <2>3. CASE i # 0
    BY <1>0, <1>1, <1>3, <2>1, <2>3
  <2> QED BY <2>2, <2>3
<1>5. 8 * (a + i + 2) + t + i <= 8 * e + r
  BY <1>1, <1>3
<1>6. b + 8 * d <= 8 * l
  BY <1>1, <1>2, <1>3, <1>4, <1>5
<1>7. b + 8 <= 8 * l
  BY <1>2, <1>4, <1>6
<1>8. b \div 8 < l
  BY <1>2, <1>4, <1>7
<1> QED BY <1>6, <1>8 DEF b, l, d, Has

\* A turn of a loop counts a bit, and changes nothing else.
LEMMA Turned ==
    ASSUME NEW v, Typed(v), NEW level, Turn(v, level)
    PROVE /\ Typed(walk') /\ walk'.bits = v.bits + 1
          /\ walk'.pos = v.pos /\ walk'.cur = v.cur /\ walk'.frame = v.frame
          /\ walk'.thumb = v.thumb /\ walk'.app = v.app /\ walk'.used = v.used
          /\ at' = level /\ UNCHANGED <<init, call>>
<1> DEFINE b == v.bits + 1
           u == [v EXCEPT !.bits = @ + 1]
<1>1. b \in Int /\ u = [v EXCEPT !.bits = b]
  BY DEF Typed
<1> HIDE DEF b, u
<1>2. /\ Typed(u) /\ u.bits = b /\ u.pos = v.pos /\ u.cur = v.cur /\ u.frame = v.frame
      /\ u.thumb = v.thumb /\ u.app = v.app /\ u.used = v.used
  BY <1>1 DEF Typed
<1>3. walk' = u /\ at' = level /\ UNCHANGED <<init, call>>
  BY DEF Turn, u
<1> QED BY <1>2, <1>3 DEF b

\* The kinds of markers are apart, and each segment has one of its own kind.
LEMMA Kinds ==
    ASSUME NEW s \in Streams, NEW k \in 1 .. Len(s.segs), NEW m, m = s.segs[k].m
    PROVE /\ m = "SOS" <=> k = Len(s.segs)
          /\ m # "SOS" => k \in 1 .. Len(s.segs) - 1
          /\ m # "APP0" => s.segs[k].inner = <<>>
          /\ m \in Bare => m \in Alone /\ s.segs[k].len = 0
          /\ m \in Skipped \union Alone => m \notin FrameMarkers \union Others \union {"SOS", "DRI", "APP0"}
          /\ m \in Skipped => m \notin Alone
<1>1. /\ m = "SOS" <=> k = Len(s.segs)
      /\ m # "APP0" => s.segs[k].inner = <<>>
      /\ m \in Alone => s.segs[k].len = 0
      /\ m \in MarkerCodes
  BY SegmentTyped
<1>2. m \in Bare => m \in Alone
  BY <1>1 DEF MarkerCodes, Bare, FrameMarkers, Skipped, Others, Alone
<1>3. /\ m \in Skipped \union Alone => m \notin FrameMarkers \union Others \union {"SOS", "DRI", "APP0"}
      /\ m \in Skipped => m \notin Alone
  BY DEF FrameMarkers, Skipped, Others, Alone
<1>4. Len(s.segs) \in Nat
  BY StreamForm
<1> QED BY <1>1, <1>2, <1>3, <1>4

\* The marker of a segment has been read.
LEMMA SegmentStep ==
    ASSUME stream \in Streams, length \in Nat, NEW k \in 1 .. Len(stream.segs),
           Arrived(Coded(walk), stream, length, k), Here(Coded(walk)) = stream.segs[k],
           Prefix(walk), InfoMarker
    PROVE InfoOutcome
<1> DEFINE g == stream.segs[k]
           v == Coded(walk)
<1>1. /\ v.cur = g.m /\ Here(v) = g /\ Typed(v)
      /\ Arrived(v, stream, length, k)
  BY DEF Arrived
<1>2. \/ g.m \in FrameMarkers /\ InfoFrame(v, g)
      \/ g.m = "SOS" /\ InfoScan(v, g)
      \/ g.m \in Skipped /\ InfoSkip(v, g)
      \/ g.m = "DRI" /\ InfoInterval(v, g)
      \/ g.m = "APP0" /\ InfoApp(v, g)
      \/ g.m \in Others /\ Refused("info")
      \/ g.m \in Bare /\ Turn(v, "info")
  BY <1>1 DEF InfoMarker
<1> HIDE DEF v
<1>3. CASE g.m \in FrameMarkers /\ InfoFrame(v, g)
  <2>1. g.m # "SOS"
    BY <1>3 DEF FrameMarkers
  <2>2. k \in 1 .. Len(stream.segs) - 1
    BY <2>1, Kinds
  <2> QED BY <1>1, <1>3, <2>2, FrameStep
<1>4. CASE g.m = "SOS" /\ InfoScan(v, g)
  BY <1>1, <1>4, Kinds, ScanStep
<1>5. CASE g.m \in Skipped /\ InfoSkip(v, g)
  <2>1. /\ k \in 1 .. Len(stream.segs) - 1 /\ g.inner = <<>>
        /\ g.m \notin FrameMarkers \union Alone /\ g.m \notin Others /\ g.m # "DRI"
    BY <1>5, Kinds
  <2>2. Acceptable(g, length)
    BY <2>1 DEF Acceptable
  <2> QED BY <1>1, <1>5, <2>1, <2>2, SkipStep
<1>6. CASE g.m = "DRI" /\ InfoInterval(v, g)
  BY <1>1, <1>6, Kinds, IntervalStep
<1>7. CASE g.m = "APP0" /\ InfoApp(v, g)
  BY <1>1, <1>7, Kinds, AppStep
<1>8. CASE g.m \in Others /\ Refused("info")
  <2>1. g.m # "SOS"
    BY <1>8 DEF Others
  <2>2. k \in 1 .. Len(stream.segs) - 1
    BY <2>1, Kinds
  <2>3. Whole => ~Supported(stream)
    BY <1>8, <2>2, RefusedRightly DEF Acceptable
  <2> QED BY <1>8, <2>3 DEF Refused, InfoOutcome, call
<1>9. CASE g.m \in Bare /\ Turn(v, "info")
  <2>1. g.m \in Alone /\ g.len = 0
    BY <1>9, Kinds
  <2>2. /\ k \in 1 .. Len(stream.segs) - 1 /\ g.inner = <<>>
        /\ g.m \notin FrameMarkers /\ g.m \notin Others /\ g.m # "DRI"
    BY <2>1, Kinds
  <2>3. Acceptable(g, length)
    BY <2>2 DEF Acceptable
  <2>4. v.cur # "FF" /\ v.pos = End(g) /\ v.bits = v.bits + 8 * g.len
    <3>1. /\ g.at \in Nat /\ g.fill \in Nat /\ End(g) = g.at + g.fill + 1 + g.len /\ g.m # "FF"
      BY SegmentTyped
    <3>2. v.pos = g.at + g.fill + 1 /\ v.bits \in Int
      BY <1>1 DEF Arrived, Typed
    <3> QED BY <1>1, <2>1, <3>1, <3>2
  <2>5. v.frame = FrameSoFar(stream, k + 1)
    BY <1>1, <2>2, FrameKnown DEF Arrived
  <2> HIDE DEF g
  <2> QED BY <1>1, <1>9, <2>2, <2>3, <2>4, <2>5, TurnBehind DEF g
<1> QED BY <1>2, <1>3, <1>4, <1>5, <1>6, <1>7, <1>8, <1>9

\* The place and the count after the last FF byte of a marker.
LEMMA LastFill ==
    ASSUME NEW a \in Nat, NEW i \in Nat, NEW t \in Nat, NEW f, NEW p, NEW b,
           f = i + 1, p = a + i + 2, b = 8 * p + t + i
    PROVE p = a + f + 1 /\ b = 8 * p + t + f - 1
OBVIOUS

\* One turn of the outer loop of the first walk.
LEMMA InfoMarkerStep ==
    ASSUME stream \in Streams, length \in Nat, Typed(walk),
           InInfo(walk, stream, length) \/ (CutOff(walk, length) /\ ~Whole), InfoMarker
    PROVE InfoOutcome
<1> DEFINE v == Coded(walk)
<1>1. \/ ~Prefix(walk) /\ Refused("info")
      \/ Prefix(walk)
  BY DEF InfoMarker
<1>2. ASSUME ~Whole, Refused("info") PROVE InfoOutcome
  BY <1>2 DEF Refused, InfoOutcome, call
<1>3. CASE CutOff(walk, length) /\ ~Whole
  <2>1. ~Has(walk, 1)
    BY <1>3 DEF CutOff, Has, Typed
  <2>2. ~Prefix(walk)
    BY <1>3, <2>1 DEF Prefix, CutOff
  <2> QED BY <1>1, <1>2, <1>3, <2>2
<1>4. CASE InInfo(walk, stream, length)
  <2>1. PICK k \in 1 .. Len(stream.segs) : \E i \in 0 .. stream.segs[k].fill :
            AtSegment(walk, stream, length, k, i)
    BY <1>4 DEF InInfo
  <2>2. PICK i \in 0 .. stream.segs[k].fill : AtSegment(walk, stream, length, k, i)
    BY <2>1
  <2> DEFINE g == stream.segs[k]
             d == Wanted(i)
  <2>3. /\ g.at \in Nat /\ g.fill \in Nat \ {0} /\ g.turn \in Nat /\ g \in Parts[stream]
    BY SegmentTyped, PartOf
  <2>4. Reaches(walk, g, i) /\ i \in Nat /\ i < g.fill
    BY <2>2, <2>3 DEF AtSegment, Reaches
  <2>5. /\ Typed(v) /\ v.frame = walk.frame /\ v.thumb = walk.thumb
        /\ Has(walk, d) =>
              /\ Prefix(walk)
              /\ v.pos = g.at + i + 2 /\ v.bits = walk.bits + 8 * d
              /\ i + 1 < g.fill => v.cur = "FF" /\ Reaches(v, g, i + 1)
              /\ i + 1 = g.fill => v.cur = g.m /\ Here(v) = g
        /\ ~Has(walk, d) => v.cur = "end" /\ v.bits + 8 > 8 * length
    <3> HIDE DEF g
    <3>1. g \in Parts[stream] /\ Reaches(walk, g, i)
      BY <2>3, <2>4
    <3>2. /\ Typed(Coded(walk))
          /\ Coded(walk).frame = walk.frame /\ Coded(walk).thumb = walk.thumb
          /\ Coded(walk).app = walk.app /\ Coded(walk).used = walk.used
          /\ Has(walk, Wanted(i)) =>
                /\ Prefix(walk)
                /\ Coded(walk).pos = g.at + i + 2 /\ Coded(walk).bits = walk.bits + 8 * Wanted(i)
                /\ i + 1 < g.fill => Coded(walk).cur = "FF" /\ Reaches(Coded(walk), g, i + 1)
                /\ i + 1 = g.fill => Coded(walk).cur = g.m /\ Here(Coded(walk)) = g
          /\ ~Has(walk, Wanted(i)) => Coded(walk).cur = "end" /\ Coded(walk).bits + 8 > 8 * length
      BY <3>1, Reading
    <3> QED BY <3>2
  <2>6. ~Has(walk, d) => ~Whole
    BY <2>2, Present
  <2> HIDE DEF v
  <2>7. CASE ~Has(walk, d)
    <3>1. CASE Prefix(walk)
      <4>1. Turn(v, "info")
        <5>1. v.cur = "end"
          BY <2>5, <2>7
        <5>2. v.cur \notin FrameMarkers \union Skipped \union Others \union {"SOS", "DRI", "APP0"}
          BY <5>1 DEF FrameMarkers, Skipped, Others
        <5> QED BY <3>1, <5>2 DEF InfoMarker, v
      <4>2. /\ Typed(walk') /\ walk'.bits = v.bits + 1 /\ walk'.cur = v.cur /\ at' = "info"
            /\ UNCHANGED <<init, call>>
        BY <2>5, <4>1, Turned
      <4>3. CutOff(walk', length)
        <5>1. v.bits \in Int
          BY <2>5 DEF Typed
        <5> QED BY <2>5, <2>7, <4>2, <5>1 DEF CutOff
      <4> QED BY <2>6, <2>7, <4>2, <4>3 DEF InfoOutcome
    <3>2. CASE ~Prefix(walk)
      BY <1>1, <1>2, <2>6, <2>7, <3>2
    <3> QED BY <3>1, <3>2
  <2>8. ASSUME Has(walk, d)
        PROVE v.bits = 8 * v.pos + g.turn + i
    <3>1. walk.bits = 8 * walk.pos + g.turn + i /\ walk.pos = IF i = 0 THEN g.at ELSE g.at + i + 1
      BY <2>2, <2>4 DEF AtSegment, Reaches
    <3> DEFINE a == g.at  t == g.turn  p == v.pos  b == v.bits  w == walk.bits
    <3>2. /\ a \in Nat /\ t \in Nat /\ i \in Nat /\ p = a + i + 2 /\ b = w + 8 * d
          /\ w = 8 * (IF i = 0 THEN a ELSE a + i + 1) + t + i /\ d = IF i = 0 THEN 2 ELSE 1
      BY <2>3, <2>4, <2>5, <2>8, <3>1 DEF Wanted
    <3> HIDE DEF a, t, p, b, w, d
    <3>3. b = 8 * p + t + i
      <4>1. CASE i = 0
        BY <3>2, <4>1
      <4>2. CASE i # 0
        BY <3>2, <4>2
      <4> QED BY <4>1, <4>2
    <3> QED BY <3>3 DEF t, p, b
  <2>9. CASE Has(walk, d) /\ i + 1 < g.fill
    <3>1. v.cur = "FF" /\ Reaches(v, g, i + 1)
      BY <2>5, <2>9
    <3>2. Turn(v, "info")
      <4>1. v.cur \notin FrameMarkers \union Skipped \union Others \union {"SOS", "DRI", "APP0"}
        BY <3>1 DEF FrameMarkers, Skipped, Others
      <4> QED BY <2>5, <2>9, <4>1 DEF InfoMarker, v
    <3>3. /\ Typed(walk') /\ walk'.bits = v.bits + 1 /\ walk'.pos = v.pos /\ walk'.cur = v.cur
          /\ walk'.frame = v.frame /\ walk'.thumb = v.thumb /\ at' = "info"
          /\ UNCHANGED <<init, call>>
      BY <2>5, <3>2, Turned
    <3>4. Reaches(walk', g, i + 1)
      BY <3>1, <3>3 DEF Reaches
    <3>5. walk'.bits = 8 * walk'.pos + g.turn + (i + 1)
      <4>1. v.pos \in Int
        BY <2>5 DEF Typed
      <4> DEFINE t == g.turn  p == v.pos  b == v.bits
      <4>2. t \in Nat /\ i \in Nat /\ p \in Int /\ b = 8 * p + t + i
        BY <2>3, <2>4, <2>8, <2>9, <4>1
      <4>3. walk'.bits = b + 1 /\ walk'.pos = p
        BY <3>3
      <4> HIDE DEF t, p, b
      <4>4. b + 1 = 8 * p + t + (i + 1)
        BY <4>2
      <4> QED BY <4>3, <4>4 DEF t
    <3>6. AtSegment(walk', stream, length, k, i + 1)
      BY <2>2, <2>5, <3>3, <3>4, <3>5 DEF AtSegment
    <3>7. i + 1 \in 0 .. g.fill
      BY <2>3, <2>4
    <3>8. InInfo(walk', stream, length)
      BY <3>6, <3>7 DEF InInfo
    <3> QED BY <3>3, <3>8 DEF InfoOutcome
  <2>10. CASE Has(walk, d) /\ i + 1 = g.fill
    <3>1. v.cur = g.m /\ Here(v) = g /\ Prefix(walk)
      BY <2>5, <2>10
    <3>2. v.pos = g.at + g.fill + 1 /\ v.bits = 8 * v.pos + g.turn + g.fill - 1
      <4>1. v.pos = g.at + i + 2 /\ v.pos \in Int /\ v.bits = 8 * v.pos + g.turn + i
        BY <2>5, <2>8, <2>10 DEF Typed
      <4> DEFINE a == g.at  f == g.fill  t == g.turn  p == v.pos  b == v.bits
      <4>2. /\ a \in Nat /\ f = i + 1 /\ i \in Nat /\ t \in Nat /\ p = a + i + 2 /\ b = 8 * p + t + i
        BY <2>3, <2>4, <2>10, <4>1
      <4> HIDE DEF a, f, t, p, b
      <4>3. p = a + f + 1 /\ b = 8 * p + t + f - 1
        BY <4>2, LastFill
      <4> QED BY <4>3 DEF a, f, t, p, b
    <3>3. Arrived(v, stream, length, k)
      BY <2>2, <2>5, <3>1, <3>2 DEF Arrived, AtSegment
    <3> QED BY <3>1, <3>3, SegmentStep DEF v
  <2>11. i + 1 < g.fill \/ i + 1 = g.fill
    BY <2>3, <2>4
  <2> QED BY <2>7, <2>9, <2>10, <2>11
<1> QED BY <1>3, <1>4
-----------------------------------------------------------------------------
(* The loop in a thumbnail.                                                *)

\* What the two bytes read there make of the walk.
ThumbRead(v) == [Coded([v EXCEPT !.cur = "none"]) EXCEPT !.used = @ + 2]
LEMMA ThumbReading ==
    ASSUME stream \in Streams, length \in Nat, NEW v, Typed(v)
    PROVE /\ Typed(ThumbRead(v)) /\ ThumbRead(v).frame = v.frame
          /\ ThumbRead(v).app = v.app /\ ThumbRead(v).used = v.used + 2
          /\ Has(v, 2) => /\ ThumbRead(v).pos = v.pos + 2 /\ ThumbRead(v).bits = v.bits + 16
                          /\ ThumbRead(v).cur = Byte(v.pos + 1)
          /\ ~Has(v, 2) => ThumbRead(v).cur = "end" /\ ThumbRead(v).bits + 8 > 8 * length
<1> DEFINE w == [v EXCEPT !.cur = "none"]
           y == Coded(w)
           u == ThumbRead(v)
           n == y.used + 2
           d == 2
<1>1. /\ Typed(w) /\ w.cur = "none" /\ w.pos = v.pos /\ w.bits = v.bits /\ w.frame = v.frame
      /\ w.app = v.app /\ w.used = v.used
  BY DEF Typed
<1> HIDE DEF w
<1>2. d = IF w.cur = "FF" THEN 1 ELSE 2
  BY <1>1
<1> HIDE DEF d
<1>3. /\ Typed(y) /\ y.frame = w.frame /\ y.app = w.app /\ y.used = w.used
      /\ Has(w, d) => y.pos = w.pos + d /\ y.bits = w.bits + 8 * d /\ y.cur = Byte(w.pos + d - 1)
      /\ ~Has(w, d) => y.cur = "end" /\ y.bits + 8 > 8 * length
  BY <1>1, <1>2, MarkerRead
<1>4. u = [y EXCEPT !.used = n]
  BY DEF ThumbRead, w
<1> HIDE DEF y, u
<1>5. n \in Int /\ v.pos \in Int /\ v.bits \in Int
  BY <1>3 DEF Typed
<1> HIDE DEF n
<1>6. Typed(u)
  BY <1>3, <1>4, <1>5 DEF Typed
<1>7. u.frame = y.frame /\ u.app = y.app /\ u.used = n /\ u.pos = y.pos /\ u.bits = y.bits /\ u.cur = y.cur
  BY <1>3, <1>4, <1>5 DEF Typed
<1>8. Has(w, d) <=> Has(v, 2)
  BY <1>1 DEF d, Has
<1>9. n = v.used + 2
  BY <1>1, <1>3 DEF n
<1>10. ASSUME Has(v, 2)
       PROVE u.pos = v.pos + 2 /\ u.bits = v.bits + 16 /\ u.cur = Byte(v.pos + 1)
  <2>1. d = 2 /\ v.pos + 2 - 1 = v.pos + 1 /\ v.bits + 8 * 2 = v.bits + 16
    BY <1>5 DEF d
  <2>2. y.pos = v.pos + 2 /\ y.bits = v.bits + 8 * 2 /\ y.cur = Byte(v.pos + 2 - 1)
    BY <1>1, <1>3, <1>8, <1>10, <2>1
  <2> QED BY <1>7, <2>1, <2>2
<1>11. ~Has(v, 2) => u.cur = "end" /\ u.bits + 8 > 8 * length
  BY <1>3, <1>7, <1>8
<1> QED BY <1>1, <1>3, <1>6, <1>7, <1>9, <1>10, <1>11 DEF u

\* Where a segment ends.
LEMMA EndOf ==
    ASSUME NEW x, x.at \in Nat, x.fill \in Nat, x.len \in Nat
    PROVE End(x) = x.at + x.fill + 1 + x.len /\ End(x) \in Nat
<1> DEFINE a == x.at  b == x.fill  c == x.len  e == End(x)
<1>1. e = a + (b + 1 + c) /\ a \in Nat /\ b \in Nat /\ c \in Nat
  BY DEF End, Size
<1> HIDE DEF a, b, c, e
<1>2. e = a + b + 1 + c /\ e \in Nat
  BY <1>1
<1> QED BY <1>2 DEF a, b, c, e

\* The numbers of a segment of a thumbnail, and where the next one is.
LEMMA ThumbPart ==
    ASSUME NEW s \in Streams, NEW k \in 1 .. Len(s.segs), NEW j \in 1 .. Len(s.segs[k].inner),
           s.segs[k].inner # <<>>,
           NEW x, x = s.segs[k].inner[j]
    PROVE /\ x.at \in Nat /\ x.turn \in Nat /\ x.fill \in Nat \ {0} /\ x.len \in Nat
          /\ x.m \in MarkerCodes \ {"SOS"} /\ x.frame \in Frames /\ x \in Parts[s]
          /\ End(x) = x.at + x.fill + 1 + x.len /\ End(x) <= End(s.segs[k]) /\ End(s.segs[k]) \in Nat
          /\ x.turn + (x.fill + 1) \div 2 <= After(s.segs[k]) /\ After(s.segs[k]) \in Nat
          /\ x.m \in FrameMarkers \union Others <=> j = Len(s.segs[k].inner)
          /\ x.m \in Alone => x.len = 0
          /\ x.m \notin Alone => x.len >= 2
<1> DEFINE g == s.segs[k]
           n == Len(g.inner)
<1>1. g \in Outer /\ Thumbnail(g) /\ End(g) \in Nat /\ After(g) \in Nat
  BY SegmentTyped, StreamLayout
<1>2. /\ n \in Nat \ {0}
      /\ \A h \in 1 .. n : g.inner[h] \in Inner
      /\ Lengthy(x) /\ End(x) <= End(g) /\ x.turn + (x.fill + 1) \div 2 <= After(g)
  BY <1>1, ThumbnailLayout
<1>3. x \in Inner /\ x \in Parts[s]
  BY <1>2, PartOf
<1>4. /\ x.at \in Nat /\ x.turn \in Nat /\ x.fill \in Nat \ {0} /\ x.len \in Nat
      /\ x.m \in MarkerCodes /\ x.frame \in Frames
  BY <1>3 DEF Inner, SegmentsWith
<1>5. x.m # "SOS" /\ (x.m \in FrameMarkers \union Others <=> j = n)
  BY <1>1 DEF Thumbnail
<1>6. /\ x.m \in Alone => x.len = 0
      /\ x.m \notin Alone => x.len >= 2
  BY <1>2 DEF Lengthy
<1>7. End(x) = x.at + x.fill + 1 + x.len
  BY <1>4, EndOf
<1> QED BY <1>1, <1>2, <1>3, <1>4, <1>5, <1>6, <1>7

\* Where the next one is, and at which turn of the loop it is reached.
LEMMA ThumbNext ==
    ASSUME NEW s \in Streams, NEW k \in 1 .. Len(s.segs), NEW g, g = s.segs[k],
           NEW j \in 1 .. Len(g.inner), g.inner # <<>>, j # Len(g.inner),
           NEW y, y = g.inner[j + 1]
    PROVE /\ j + 1 \in 1 .. Len(g.inner) /\ y.fill \in Nat
          /\ y.at = End(g.inner[j])
          /\ y.turn = g.inner[j].turn + (g.inner[j].fill + 1) \div 2
<1>1. g \in Outer /\ Thumbnail(g)
  BY SegmentTyped
<1>2. Len(g.inner) \in Nat \ {0} /\ \A h \in 1 .. Len(g.inner) : g.inner[h] \in Inner
  BY <1>1, ThumbnailLayout
<1>3. j \in 1 .. Len(g.inner) - 1 /\ j + 1 \in 1 .. Len(g.inner)
  BY <1>2
<1>4. y.fill \in Nat
  BY <1>2, <1>3 DEF Inner, SegmentsWith
<1> QED BY <1>1, <1>3, <1>4 DEF Thumbnail

\* The loop has read the marker of the j-th segment of the thumbnail; half is the
\* number of pairs of bytes before that.
AtMark(v, s, l, k, j, half) ==
    LET g == s.segs[k]
        x == g.inner[j]
    IN /\ g.inner # <<>> /\ half \in Nat /\ x.fill = 2 * half + 1
       /\ Typed(v) /\ v.cur = x.m
       /\ v.pos = x.at + x.fill + 1 /\ v.bits = 8 * v.pos + x.turn + half
       /\ v.app = g.len /\ v.used = v.pos - (g.at + g.fill + 1)
       /\ \A h \in 1 .. j - 1 : g.inner[h].fill % 2 = 1
       /\ v.frame = FrameSoFar(s, k)
       /\ Passed(s, k, l)

\* A whole stream has all that the loop wants of a segment of the thumbnail, and
\* the rest of the thumbnail's segment.
LEMMA ThumbRoom ==
    ASSUME stream \in Streams, Whole, NEW k \in 1 .. Len(stream.segs),
           NEW j \in 1 .. Len(stream.segs[k].inner), stream.segs[k].inner # <<>>,
           NEW x, x = stream.segs[k].inner[j], NEW i \in Nat, i < (x.fill + 1) \div 2
    PROVE /\ 8 * End(x) + x.turn + i < 8 * length
          /\ 8 * End(stream.segs[k]) + x.turn + i < 8 * length
<1> DEFINE e == End(x)  t == x.turn  f == (x.fill + 1) \div 2
           ee == End(stream.segs[k])  r == After(stream.segs[k])  l == length
           a == x.at  b == x.fill  c == x.len
<1>1. e <= ee /\ t + f <= r
  BY ThumbPart
<1>2. 8 * ee + r + 7 < 8 * l /\ l \in Nat
  BY Room
<1>3. /\ ee \in Nat /\ r \in Nat /\ t \in Nat /\ a \in Nat /\ b \in Nat /\ c \in Nat
      /\ e = a + b + 1 + c
  <2>1. ee \in Nat /\ r \in Nat
    BY ThumbPart
  <2>2. t \in Nat /\ a \in Nat /\ b \in Nat /\ c \in Nat
    BY ThumbPart
  <2>3. e = a + b + 1 + c
    BY <2>2, EndOf
  <2> QED BY <2>1, <2>2, <2>3
<1>4. i < f /\ f = (b + 1) \div 2
  OBVIOUS
<1> HIDE DEF e, t, ee, r, l, a, b, c, f
<1>5. f \in Int
  BY <1>3, <1>4
<1>6. e \in Nat
  BY <1>3
<1>7. 8 * ee + t + i < 8 * l
  BY <1>1, <1>2, <1>3, <1>4, <1>5
<1>8. 8 * e + t + i < 8 * l
  BY <1>1, <1>2, <1>3, <1>6, <1>7
<1> QED BY <1>7, <1>8 DEF e, t, ee, l

\* The loop has moved behind the j-th segment of the thumbnail.
BehindPart(u, s, l, k, j, half) ==
    LET g == s.segs[k]
        x == g.inner[j]
    IN /\ g.inner # <<>> /\ half \in Nat /\ x.fill = 2 * half + 1
       /\ Typed(u) /\ u.pos = End(x) /\ u.bits = 8 * u.pos + x.turn + half
       /\ u.app = g.len /\ u.used = u.pos - (g.at + g.fill + 1)
       /\ \A h \in 1 .. j - 1 : g.inner[h].fill % 2 = 1
       /\ u.frame = FrameSoFar(s, k)
       /\ Passed(s, k, l)

\* A turn of the loop there is one at the next segment.
LEMMA ThumbOnward ==
    ASSUME stream \in Streams, NEW k \in 1 .. Len(stream.segs),
           NEW g, g = stream.segs[k],
           NEW j \in 1 .. Len(g.inner), j # Len(g.inner),
           NEW half, NEW u, BehindPart(u, stream, length, k, j, half), Turn(u, "thumb")
    PROVE InfoOutcome
<1>a. PICK x : x = g.inner[j]
  OBVIOUS
<1>b. /\ g.inner # <<>> /\ half \in Nat /\ x.fill = 2 * half + 1
      /\ Typed(u) /\ u.pos = End(x) /\ u.bits = 8 * u.pos + x.turn + half
      /\ u.app = g.len /\ u.used = u.pos - (g.at + g.fill + 1)
      /\ \A h \in 1 .. j - 1 : g.inner[h].fill % 2 = 1
      /\ u.frame = FrameSoFar(stream, k)
      /\ Passed(stream, k, length)
  BY <1>a DEF BehindPart
<1>0. PICK y : y = g.inner[j + 1]
  OBVIOUS
<1>1. /\ x.turn \in Nat /\ j + 1 \in 1 .. Len(g.inner)
      /\ y.at = End(x) /\ y.turn = x.turn + (x.fill + 1) \div 2 /\ y.fill \in Nat
  <2>0. g.inner # <<>>
    BY <1>b
  <2>1. x.turn \in Nat
    BY <1>a, <2>0, ThumbPart
  <2>2. /\ j + 1 \in 1 .. Len(g.inner) /\ y.fill \in Nat
        /\ y.at = End(g.inner[j])
        /\ y.turn = g.inner[j].turn + (g.inner[j].fill + 1) \div 2
    BY <1>0, <2>0, ThumbNext
  <2> QED BY <1>a, <1>b, <2>1, <2>2
<1>2. /\ Typed(walk') /\ walk'.bits = u.bits + 1 /\ walk'.pos = u.pos
      /\ walk'.frame = u.frame /\ walk'.app = u.app /\ walk'.used = u.used
      /\ at' = "thumb" /\ UNCHANGED <<init, call>>
  BY <1>b, Turned
<1> DEFINE t == x.turn  ty == y.turn  p == u.pos  b == u.bits  f == x.fill
<1>3. /\ t \in Nat /\ f = 2 * half + 1 /\ half \in Nat /\ ty = t + (f + 1) \div 2 /\ p \in Int
      /\ b = 8 * p + t + half
  BY <1>b, <1>1 DEF Typed
<1>4. walk'.bits = b + 1 /\ walk'.pos = p
  BY <1>2
<1> HIDE DEF t, ty, p, b, f
<1>5. (f + 1) \div 2 = half + 1
  BY <1>3
<1>6. b + 1 = 8 * p + ty + 0
  BY <1>3, <1>5
<1>7. f % 2 = 1
  BY <1>3
<1>8. \A h \in 1 .. (j + 1) - 1 : g.inner[h].fill % 2 = 1
  <2>1. TAKE h \in 1 .. (j + 1) - 1
  <2>2. h \in 1 .. j - 1 \/ h = j
    BY <1>1, <2>1
  <2>3. g.inner[j].fill % 2 = 1
    BY <1>a, <1>7 DEF f
  <2> QED BY <1>b, <2>2, <2>3
<1>9. walk'.pos = y.at + 2 * 0 /\ walk'.bits = 8 * walk'.pos + y.turn + 0
  <2>1. walk'.bits = 8 * walk'.pos + y.turn + 0
    BY <1>4, <1>6 DEF ty
  <2>2. y.at = p /\ p + 2 * 0 = p
    BY <1>b, <1>1, <1>3 DEF p
  <2> QED BY <1>4, <2>1, <2>2
<1>10. 0 \in Nat /\ 2 * 0 <= y.fill /\ 0 \in 0 .. y.fill
  BY <1>1
<1>11. AtThumbnail(walk', stream, length, k, j + 1, 0)
  BY <1>0, <1>b, <1>2, <1>8, <1>9, <1>10 DEF AtThumbnail
<1>12. InThumbnail(walk', stream, length)
  BY <1>0, <1>1, <1>10, <1>11 DEF InThumbnail
<1> QED BY <1>2, <1>12 DEF InfoOutcome

\* The position and the count behind a segment of the thumbnail.
LEMMA ThumbBehind ==
    ASSUME NEW s \in Streams, NEW l, NEW k \in 1 .. Len(s.segs), NEW g, g = s.segs[k],
           NEW j \in 1 .. Len(g.inner), NEW half, NEW v, AtMark(v, s, l, k, j, half),
           NEW x, x = g.inner[j], NEW y, y = Move(v, x.len)
    PROVE /\ Typed(y) /\ y.pos = End(x) /\ y.bits = 8 * End(x) + x.turn + half
          /\ y.bits = v.bits + 8 * x.len
          /\ v.used + x.len = End(x) - (g.at + g.fill + 1)
          /\ y.frame = v.frame /\ y.thumb = v.thumb /\ y.app = v.app /\ y.used = v.used
          /\ y.cur = v.cur
<1>1. /\ Typed(v) /\ v.pos = x.at + x.fill + 1 /\ v.bits = 8 * v.pos + x.turn + half
      /\ v.used = v.pos - (g.at + g.fill + 1) /\ g.inner # <<>> /\ half \in Nat
  BY DEF AtMark
<1>2. /\ x.at \in Nat /\ x.turn \in Nat /\ x.fill \in Nat /\ x.len \in Nat
      /\ g.at \in Nat /\ g.fill \in Nat
  BY <1>1, ThumbPart, SegmentTyped
<1>3. End(x) = x.at + x.fill + 1 + x.len /\ End(x) \in Nat
  BY <1>2, EndOf
<1>4. /\ Typed(y) /\ y.pos = v.pos + x.len /\ y.bits = v.bits + 8 * x.len
      /\ y.frame = v.frame /\ y.thumb = v.thumb /\ y.app = v.app /\ y.used = v.used /\ y.cur = v.cur
  <2>1. x.len \in Int
    BY <1>2
  <2> QED BY <1>1, <2>1, Moving
<1> DEFINE a == x.at  f == x.fill  n == x.len  t == x.turn  e == End(x)  p == v.pos  b == v.bits
           ga == g.at  gf == g.fill  w == v.used
<1>5. /\ a \in Nat /\ f \in Nat /\ n \in Nat /\ t \in Nat /\ e = a + f + 1 + n
      /\ p = a + f + 1 /\ b = 8 * p + t + half /\ ga \in Nat /\ gf \in Nat
      /\ w = p - (ga + gf + 1) /\ half \in Nat
  BY <1>1, <1>2, <1>3
<1> HIDE DEF a, f, n, t, e, p, b, ga, gf, w
<1>6. p + n = e /\ b + 8 * n = 8 * e + t + half /\ w + n = e - (ga + gf + 1)
  BY <1>5
<1> QED BY <1>4, <1>6 DEF a, f, n, t, e, p, b, ga, gf, w

\* Segments of which only the length is read.
LEMMA ThumbSkipStep ==
    ASSUME stream \in Streams, length \in Nat, NEW k \in 1 .. Len(stream.segs),
           NEW g, g = stream.segs[k],
           NEW j \in 1 .. Len(g.inner), NEW half, NEW v, AtMark(v, stream, length, k, j, half),
           NEW x, x = g.inner[j], x.m \in Skipped \union {"DRI", "APP0"}, ThumbSkip(v, x)
    PROVE InfoOutcome
<1>1. /\ x.m \notin Alone /\ x.m \notin FrameMarkers \union Others
  BY DEF Skipped, Alone, FrameMarkers, Others
<1>2. /\ g.inner # <<>> /\ half \in Nat /\ x.fill = 2 * half + 1 /\ v.app = g.len
      /\ v.used = v.pos - (g.at + g.fill + 1) /\ v.frame = FrameSoFar(stream, k)
      /\ \A h \in 1 .. j - 1 : g.inner[h].fill % 2 = 1
      /\ Passed(stream, k, length)
  BY DEF AtMark
<1>3. j # Len(g.inner) /\ x.len >= 2 /\ x.len \in Nat /\ x.turn \in Nat
  BY <1>1, <1>2, ThumbPart
<1> DEFINE y == Move(v, x.len)
           z == x.len
           n == y.used + z
           u == [y EXCEPT !.used = n]
<1>4. /\ Typed(y) /\ y.pos = End(x) /\ y.bits = 8 * End(x) + x.turn + half
      /\ y.bits = v.bits + 8 * x.len
      /\ v.used + x.len = End(x) - (g.at + g.fill + 1)
      /\ y.frame = v.frame /\ y.app = v.app /\ y.used = v.used
  BY ThumbBehind
<1>5. u = [y EXCEPT !.used = @ + x.len]
  OBVIOUS
<1>6. ThumbSkip(v, x) <=> IF Has(v, 2) THEN Turn(u, "thumb") ELSE Refused("info")
  BY <1>5 DEF ThumbSkip
<1>7. n \in Int /\ n = End(x) - (g.at + g.fill + 1)
  BY <1>3, <1>4, SMTT(30) DEF Typed
<1> HIDE DEF y, n, z
<1>8. /\ Typed(u) /\ u.pos = y.pos /\ u.bits = y.bits /\ u.frame = y.frame /\ u.app = y.app
      /\ u.used = n
  BY <1>4, <1>7 DEF Typed
<1> HIDE DEF u
<1>9. CASE Has(v, 2)
  <2>1. Turn(u, "thumb")
    BY <1>6, <1>9
  <2>2. /\ u.pos = End(x) /\ u.bits = 8 * u.pos + x.turn + half
        /\ u.app = g.len /\ u.used = u.pos - (g.at + g.fill + 1)
        /\ u.frame = FrameSoFar(stream, k) /\ Typed(u)
    BY <1>2, <1>4, <1>7, <1>8
  <2>3. BehindPart(u, stream, length, k, j, half)
    BY <1>2, <2>2 DEF BehindPart
  <2> QED BY <1>3, <2>1, <2>3, ThumbOnward
<1>10. CASE ~Has(v, 2)
  <2>1. ~Whole
    <3>1. SUFFICES ASSUME Whole PROVE FALSE
      OBVIOUS
    <3> DEFINE e == End(x)  t == x.turn  b == v.bits  l == length  f == x.fill  m == x.len
    <3>2. f = 2 * half + 1 /\ half \in Nat
      BY <1>2
    <3>3. half < (f + 1) \div 2
      <4> HIDE DEF f
      <4> QED BY <3>2
    <3>4. 8 * e + t + half < 8 * l
      BY <1>2, <3>1, <3>2, <3>3, ThumbRoom
    <3>5. b + 8 * m = 8 * e + t + half /\ m >= 2 /\ m \in Nat /\ b \in Int /\ l \in Nat
          /\ e \in Int /\ t \in Nat
      <4>1. y.bits = v.bits + 8 * x.len /\ y.bits = 8 * End(x) + x.turn + half
        BY <1>4
      <4>2. Typed(v) /\ x.at \in Nat /\ x.fill \in Nat
        BY <1>2, ThumbPart DEF AtMark
      <4>3. End(x) \in Nat
        BY <1>3, <4>2, EndOf
      <4> QED BY <1>3, <4>1, <4>2, <4>3 DEF Typed
    <3> HIDE DEF e, t, b, l, m
    <3>6. b + 8 * 2 <= 8 * l
      BY <3>2, <3>4, <3>5
    <3> QED BY <1>10, <3>6 DEF Has, b, l
  <2>2. Refused("info")
    BY <1>6, <1>10
  <2> QED BY <2>1, <2>2 DEF Refused, InfoOutcome, call
<1> QED BY <1>9, <1>10
\* The frame header of the thumbnail: the rest of its segment is skipped.
LEMMA ThumbFrameStep ==
    ASSUME stream \in Streams, length \in Nat, NEW k \in 1 .. Len(stream.segs),
           NEW g, g = stream.segs[k],
           NEW j \in 1 .. Len(g.inner), NEW half, NEW v, AtMark(v, stream, length, k, j, half),
           NEW x, x = g.inner[j], x.m \in FrameMarkers, ThumbFrame(v, x)
    PROVE InfoOutcome
<1>1. /\ g.inner # <<>> /\ half \in Nat /\ x.fill = 2 * half + 1 /\ v.app = g.len /\ v.cur = x.m
      /\ v.frame = FrameSoFar(stream, k) /\ Passed(stream, k, length)
      /\ \A h \in 1 .. j - 1 : g.inner[h].fill % 2 = 1
  BY DEF AtMark
<1>2. /\ j = Len(g.inner) /\ x.frame \in Frames /\ x.turn \in Nat /\ x = Last(g.inner)
      /\ x.at \in Nat /\ x.fill \in Nat /\ x.len \in Nat /\ x.m # "FF"
  <2>1. x.m \in FrameMarkers \union Others
    OBVIOUS
  <2>2. j = Len(g.inner) /\ x.frame \in Frames /\ x.turn \in Nat
        /\ x.at \in Nat /\ x.fill \in Nat /\ x.len \in Nat
    BY <1>1, <2>1, ThumbPart
  <2> QED BY <2>2 DEF Last, FrameMarkers
<1>3. /\ g.at \in Nat /\ g.fill \in Nat /\ g.len \in Nat /\ g.m = "APP0"
      /\ End(g) = g.at + g.fill + 1 + g.len /\ End(x) \in Nat /\ End(g) \in Nat
  <2>1. g.at \in Nat /\ g.fill \in Nat /\ g.len \in Nat /\ g.m = "APP0"
    BY <1>1, SegmentTyped
  <2> QED BY <1>2, <2>1, EndOf
<1>4. k \in 1 .. Len(stream.segs) - 1 /\ g.m \notin FrameMarkers \union Others \union {"DRI"}
  BY <1>3, Kinds DEF FrameMarkers, Others
<1> DEFINE y == Move(v, x.len)
           z == [y EXCEPT !.thumb = Said(x)]
           rest == v.app - (v.used + x.len)
           u == Move(z, rest)
           Fine == Has(v, x.len) /\ ThumbSized(x.frame) /\ x.frame.s \in ThumbFormats /\ Has(z, rest)
<1>5. /\ Typed(y) /\ y.pos = End(x) /\ y.bits = 8 * End(x) + x.turn + half
      /\ y.bits = v.bits + 8 * x.len
      /\ v.used + x.len = End(x) - (g.at + g.fill + 1)
      /\ y.frame = v.frame /\ y.cur = v.cur
  BY ThumbBehind
<1>6. ThumbFrame(v, x) <=> IF Fine THEN Turn(u, "info") ELSE Refused("info")
  BY DEF ThumbFrame
<1>7. rest = End(g) - End(x)
  <2> DEFINE e == End(x)  ge == End(g)  a == g.at  f == g.fill  n == g.len  w == v.used + x.len
  <2>1. /\ e \in Nat /\ a \in Nat /\ f \in Nat /\ n \in Nat /\ ge = a + f + 1 + n
        /\ w = e - (a + f + 1) /\ v.app = n
    BY <1>1, <1>3, <1>5
  <2> HIDE DEF e, ge, a, f, n, w
  <2>2. n - w = ge - e
    BY <2>1
  <2> QED BY <2>1, <2>2 DEF e, ge, w
<1>8. Said(x) \in Frames
  <2>1. x.m \in FrameMarkers \union {"SOF1"}
    OBVIOUS
  <2> QED BY <1>2, <2>1, FramesStayFrames
<1> HIDE DEF y
<1>9. /\ Typed(z) /\ z.pos = y.pos /\ z.bits = y.bits /\ z.frame = y.frame /\ z.cur = y.cur
      /\ z.thumb = Said(x)
  BY <1>5, <1>8 DEF Typed
<1>10. rest \in Int
  BY <1>3, <1>7
<1> HIDE DEF z, rest
<1>11. /\ Typed(u) /\ u.pos = z.pos + rest /\ u.bits = z.bits + 8 * rest
       /\ u.cur = z.cur /\ u.frame = z.frame /\ u.thumb = z.thumb
  BY <1>9, <1>10, Moving
<1> HIDE DEF u
<1>12. u.pos = End(g) /\ u.bits = 8 * End(g) + x.turn + half /\ z.bits + 8 * rest = u.bits
  <2> DEFINE e == End(x)  ge == End(g)  t == x.turn
  <2>1. e \in Nat /\ ge \in Nat /\ t \in Nat /\ half \in Nat /\ rest = ge - e
    BY <1>1, <1>2, <1>3, <1>7
  <2>2. u.pos = e + rest /\ u.bits = (8 * e + t + half) + 8 * rest /\ z.bits + 8 * rest = u.bits
    BY <1>5, <1>9, <1>11
  <2> HIDE DEF e, ge, t
  <2>3. e + rest = ge /\ (8 * e + t + half) + 8 * rest = 8 * ge + t + half
    BY <2>1
  <2> QED BY <2>2, <2>3 DEF ge, t
<1>13. After(g) = x.turn + half + 1
  <2> DEFINE f == x.fill  t == x.turn
  <2>1. After(g) = t + (f + 1) \div 2
    BY <1>1, <1>2 DEF After
  <2>2. f = 2 * half + 1 /\ half \in Nat /\ t \in Nat
    BY <1>1, <1>2
  <2> HIDE DEF f, t
  <2>3. t + (f + 1) \div 2 = t + half + 1
    BY <2>2
  <2> QED BY <2>1, <2>3 DEF t
<1>14. CASE Fine
  <2>1. Turn(u, "info")
    BY <1>6, <1>14
  <2>2. \A h \in 1 .. Len(g.inner) : g.inner[h].fill % 2 = 1
    <3>1. TAKE h \in 1 .. Len(g.inner)
    <3>2. CASE h = j
      <4> DEFINE f == x.fill
      <4>1. f = 2 * half + 1 /\ half \in Nat
        BY <1>1
      <4> HIDE DEF f
      <4>2. f % 2 = 1
        BY <4>1
      <4> QED BY <3>2, <4>2 DEF f
    <3>3. CASE h # j
      <4>1. h \in 1 .. j - 1
        BY <1>2, <3>1, <3>3
      <4> QED BY <1>1, <4>1
    <3> QED BY <3>2, <3>3
  <2>3. \A w \in Among(g.inner) : w.fill % 2 = 1
    <3>1. DOMAIN g.inner = 1 .. Len(g.inner)
      BY SegmentTyped DEF Outer, SegmentsWith
    <3> QED BY <2>2, <3>1 DEF Among
  <2>4. Acceptable(g, length)
    BY <1>1, <1>2, <1>3, <1>4, <1>14, <2>3 DEF Acceptable
  <2>5. Passed(stream, k + 1, length)
    BY <1>1, <1>4, <2>4, PassedAll
  <2>6. u.thumb = ThumbSoFar(stream, k + 1)
    BY <1>1, <1>2, <1>4, <1>9, <1>11, ThumbnailKnown
  <2>7. u.frame = FrameSoFar(stream, k + 1)
    BY <1>1, <1>4, <1>5, <1>9, <1>11, FrameKnown
  <2>8. u.bits = 8 * u.pos + After(g) - 1
    <3> DEFINE ge == End(g)  t == x.turn
    <3>1. /\ u.pos = ge /\ u.bits = 8 * ge + t + half /\ After(g) = t + half + 1
          /\ ge \in Nat /\ t \in Nat /\ half \in Nat
      BY <1>1, <1>2, <1>3, <1>12, <1>13
    <3> HIDE DEF ge, t
    <3>2. 8 * ge + t + half = 8 * ge + (t + half + 1) - 1
      BY <3>1
    <3> QED BY <3>1, <3>2
  <2>9. walk' = [u EXCEPT !.bits = @ + 1] /\ at' = "info" /\ UNCHANGED <<init, call>>
    BY <2>1 DEF Turn
  <2>10. u.cur # "FF" /\ Typed(u) /\ u.pos = End(g)
    BY <1>1, <1>2, <1>5, <1>9, <1>11, <1>12
  <2>11. Typed(walk') /\ InInfo(walk', stream, length)
    BY <1>4, <2>5, <2>6, <2>7, <2>8, <2>9, <2>10, Onward
  <2> QED BY <2>9, <2>11 DEF InfoOutcome
<1>15. CASE ~Fine
  <2>1. Refused("info")
    BY <1>6, <1>15
  <2>2. ASSUME Whole PROVE ~Acceptable(g, length)
    <3> DEFINE f == x.fill  e == End(x)  ge == End(g)  t == x.turn  l == length
    <3>1. f = 2 * half + 1 /\ half \in Nat
      BY <1>1
    <3>2. half < (f + 1) \div 2
      <4> HIDE DEF f
      <4> QED BY <3>1
    <3>3. 8 * e + t + half < 8 * l /\ 8 * ge + t + half < 8 * l
      BY <1>1, <2>2, <3>1, <3>2, ThumbRoom
    <3>4. /\ v.bits + 8 * x.len = 8 * e + t + half
          /\ z.bits + 8 * rest = 8 * ge + t + half
          /\ e \in Nat /\ ge \in Nat /\ t \in Nat /\ l \in Nat
      BY <1>2, <1>3, <1>5, <1>12
    <3> HIDE DEF e, ge, t, l, f
    <3>5. 8 * e + t + half <= 8 * l /\ 8 * ge + t + half <= 8 * l
      <4> DEFINE a == 8 * e + t + half  b == 8 * ge + t + half  c == 8 * l
      <4>1. half \in Nat
        BY <3>1
      <4>2. a \in Int /\ b \in Int /\ c \in Int
        BY <3>4, <4>1
      <4>3. a < c /\ b < c
        BY <3>3
      <4> HIDE DEF a, b, c
      <4>4. a <= c /\ b <= c
        BY <4>2, <4>3
      <4> QED BY <4>4 DEF a, b, c
    <3>6. Has(v, x.len) /\ Has(z, rest)
      BY <3>4, <3>5 DEF Has, l
    <3> QED BY <1>1, <1>2, <1>15, <3>6 DEF Acceptable
  <2>3. Whole => ~Supported(stream)
    BY <1>4, <2>2, RefusedRightly
  <2> QED BY <2>1, <2>3 DEF Refused, InfoOutcome, call
<1> QED BY <1>14, <1>15
\* The marker of a segment of the thumbnail has been read.
LEMMA ThumbPartStep ==
    ASSUME stream \in Streams, length \in Nat, NEW k \in 1 .. Len(stream.segs),
           NEW g, g = stream.segs[k],
           NEW j \in 1 .. Len(g.inner), NEW half, NEW v, AtMark(v, stream, length, k, j, half),
           NEW x, x = g.inner[j],
           \/ x.m \in FrameMarkers /\ ThumbFrame(v, x)
           \/ x.m \in Skipped \union {"DRI", "APP0"} /\ ThumbSkip(v, x)
           \/ x.m \in Others /\ Refused("info")
           \/ x.m \in Bare /\ Turn(v, "thumb")
    PROVE InfoOutcome
<1>1. /\ g.inner # <<>> /\ half \in Nat /\ x.fill = 2 * half + 1 /\ v.app = g.len /\ Typed(v)
      /\ v.pos = x.at + x.fill + 1 /\ v.bits = 8 * v.pos + x.turn + half
      /\ v.used = v.pos - (g.at + g.fill + 1) /\ v.frame = FrameSoFar(stream, k)
      /\ \A h \in 1 .. j - 1 : g.inner[h].fill % 2 = 1
      /\ Passed(stream, k, length)
  BY DEF AtMark
<1>2. CASE x.m \in FrameMarkers /\ ThumbFrame(v, x)
  BY <1>2, ThumbFrameStep
<1>3. CASE x.m \in Skipped \union {"DRI", "APP0"} /\ ThumbSkip(v, x)
  BY <1>3, ThumbSkipStep
<1>4. CASE x.m \in Others /\ Refused("info")
  <2>1. x.m \in FrameMarkers \union Others /\ x.m \notin FrameMarkers
    BY <1>4 DEF Others, FrameMarkers
  <2>2. j = Len(g.inner)
    BY <1>1, <2>1, ThumbPart
  <2>3. ~Acceptable(g, length)
    BY <1>1, <2>1, <2>2 DEF Acceptable, Last
  <2>4. g.m = "APP0"
    BY <1>1, SegmentTyped
  <2>5. k \in 1 .. Len(stream.segs) - 1
    BY <2>4, Kinds
  <2>6. Whole => ~Supported(stream)
    BY <2>3, <2>5, RefusedRightly
  <2> QED BY <1>4, <2>6 DEF Refused, InfoOutcome, call
<1>5. CASE x.m \in Bare /\ Turn(v, "thumb")
  <2>1. x.m \in MarkerCodes
    BY <1>1, ThumbPart
  <2>2. x.m \in Alone /\ x.m \notin FrameMarkers \union Others
    BY <1>5, <2>1 DEF MarkerCodes, Bare, FrameMarkers, Skipped, Others, Alone
  <2>3. j # Len(g.inner) /\ x.len = 0 /\ x.at \in Nat /\ x.fill \in Nat
    <3>1. g.inner # <<>>
      BY <1>1
    <3>2. j # Len(g.inner) /\ x.len = 0
      BY <2>2, <3>1, ThumbPart
    <3>3. x.at \in Nat /\ x.fill \in Nat
      BY <3>1, ThumbPart
    <3> QED BY <3>2, <3>3
  <2>4. v.pos = End(x)
    <3> DEFINE a == x.at  f == x.fill  n == x.len
    <3>1. /\ a \in Nat /\ f \in Nat /\ n = 0 /\ End(x) = a + f + 1 + n /\ v.pos = a + f + 1
      <4>1. x.len \in Nat
        BY <2>3
      <4> QED BY <1>1, <2>3, <4>1, EndOf
    <3> HIDE DEF a, f, n
    <3> QED BY <3>1
  <2>5. BehindPart(v, stream, length, k, j, half)
    BY <1>1, <2>4 DEF BehindPart
  <2> QED BY <1>5, <2>3, <2>5, ThumbOnward
<1> QED BY <1>2, <1>3, <1>4, <1>5

\* One turn of the loop in the thumbnail.
LEMMA ThumbMarkerStep ==
    ASSUME stream \in Streams, length \in Nat, Typed(walk),
           InThumbnail(walk, stream, length) \/ (CutOff(walk, length) /\ ~Whole), ThumbMarker
    PROVE InfoOutcome
<1> DEFINE v == ThumbRead(walk)
           Pre == Has(walk, 1) /\ Byte(walk.pos) = "FF"
<1>1. \/ ~Pre /\ Refused("info")
      \/ /\ Pre
         /\ \/ v.cur \in FrameMarkers /\ ThumbFrame(v, Here(v))
            \/ v.cur \in Skipped \union {"DRI", "APP0"} /\ ThumbSkip(v, Here(v))
            \/ v.cur \in Others /\ Refused("info")
            \/ v.cur \in Bare /\ Turn(v, "thumb")
  BY DEF ThumbMarker, ThumbRead
<1>2. ASSUME ~Whole, Refused("info") PROVE InfoOutcome
  BY <1>2 DEF Refused, InfoOutcome, call
<1>3. CASE CutOff(walk, length) /\ ~Whole
  <2>1. ~Has(walk, 1)
    BY <1>3 DEF CutOff, Has, Typed
  <2> QED BY <1>1, <1>2, <1>3, <2>1
<1>4. CASE InThumbnail(walk, stream, length)
  <2>1. PICK k \in 1 .. Len(stream.segs) : \E j \in 1 .. Len(stream.segs[k].inner) :
            \E i \in 0 .. stream.segs[k].inner[j].fill : AtThumbnail(walk, stream, length, k, j, i)
    BY <1>4 DEF InThumbnail
  <2>2. PICK g : g = stream.segs[k]
    OBVIOUS
  <2>3. PICK j \in 1 .. Len(g.inner) :
            \E i \in 0 .. g.inner[j].fill : AtThumbnail(walk, stream, length, k, j, i)
    BY <2>1, <2>2
  <2>4. PICK x : x = g.inner[j]
    OBVIOUS
  <2>5. PICK i \in 0 .. x.fill : AtThumbnail(walk, stream, length, k, j, i)
    BY <2>3, <2>4
  <2>6. /\ g.inner # <<>> /\ i \in Nat /\ 2 * i <= x.fill
        /\ walk.pos = x.at + 2 * i /\ walk.bits = 8 * walk.pos + x.turn + i
        /\ walk.app = g.len /\ walk.used = walk.pos - (g.at + g.fill + 1)
        /\ \A h \in 1 .. j - 1 : g.inner[h].fill % 2 = 1
        /\ walk.frame = FrameSoFar(stream, k)
        /\ Passed(stream, k, length)
    BY <2>2, <2>4, <2>5 DEF AtThumbnail
  <2>7. /\ x.at \in Nat /\ x.fill \in Nat \ {0} /\ x.turn \in Nat /\ x.len \in Nat
        /\ x.m \in MarkerCodes /\ x \in Parts[stream]
    <3>1. g.inner # <<>>
      BY <2>6
    <3> QED BY <2>2, <2>4, <3>1, ThumbPart
  <2>8. x.m # "FF"
    BY <2>7 DEF MarkerCodes, FrameMarkers, Skipped, Others, Alone
  <2>9. /\ Typed(v) /\ v.frame = walk.frame /\ v.app = walk.app /\ v.used = walk.used + 2
        /\ Has(walk, 2) => /\ v.pos = walk.pos + 2 /\ v.bits = walk.bits + 16
                           /\ v.cur = Byte(walk.pos + 1)
        /\ ~Has(walk, 2) => v.cur = "end" /\ v.bits + 8 > 8 * length
    BY ThumbReading
  <2> HIDE DEF v
  <2>10. CASE 2 * i = x.fill
    <3>1. Byte(walk.pos) = x.m
      BY <2>6, <2>7, <2>10, Bytes
    <3>2. Refused("info")
      BY <1>1, <2>8, <3>1
    <3>3. ~Acceptable(g, length)
      <4>1. x.fill % 2 # 1
        <5> DEFINE f == x.fill
        <5>1. f = 2 * i /\ i \in Nat
          BY <2>6, <2>10
        <5> HIDE DEF f
        <5>2. f % 2 = 0
          BY <5>1
        <5> QED BY <5>2 DEF f
      <4>2. x \in Among(g.inner)
        <5>1. DOMAIN g.inner = 1 .. Len(g.inner)
          BY <2>2, SegmentTyped DEF Outer, SegmentsWith
        <5> QED BY <2>4, <5>1 DEF Among
      <4> QED BY <2>6, <4>1, <4>2 DEF Acceptable
    <3>4. g.m = "APP0"
      BY <2>2, <2>6, SegmentTyped
    <3>5. k \in 1 .. Len(stream.segs) - 1
      BY <2>2, <3>4, Kinds
    <3>6. Whole => ~Supported(stream)
      BY <2>2, <3>3, <3>5, RefusedRightly
    <3> QED BY <3>2, <3>6 DEF Refused, InfoOutcome, call
  <2>11. ASSUME 2 * i < x.fill, Whole PROVE Has(walk, 2)
    <3> DEFINE f == x.fill  a == x.at  t == x.turn  n == x.len  e == End(x)  b == walk.bits
               p == walk.pos  l == length
    <3>1. /\ f \in Nat /\ a \in Nat /\ t \in Nat /\ n \in Nat /\ i \in Nat /\ 2 * i < f
          /\ e = a + f + 1 + n /\ p = a + 2 * i /\ b = 8 * p + t + i /\ l \in Nat
      BY <2>6, <2>7, <2>11, EndOf
    <3>2. i < (f + 1) \div 2
      <4> HIDE DEF f, a, t, n, e, b, p, l
      <4> QED BY <3>1
    <3>3. 8 * e + t + i < 8 * l
      <4>1. g.inner # <<>> /\ i \in Nat
        BY <2>6
      <4> QED BY <2>2, <2>4, <2>11, <3>2, <4>1, ThumbRoom
    <3> HIDE DEF f, a, t, n, e, b, p, l
    <3>4. b + 8 * 2 <= 8 * l
      BY <3>1, <3>3
    <3> QED BY <3>4 DEF Has, b, l
  <2>12. CASE 2 * i < x.fill /\ ~Has(walk, 2)
    <3>1. ~Whole /\ v.cur = "end" /\ v.bits + 8 > 8 * length
      BY <2>9, <2>11, <2>12
    <3>2. Refused("info") \/ Turn(v, "thumb")
      BY <1>1, <3>1 DEF FrameMarkers, Skipped, Others
    <3>3. CASE Turn(v, "thumb")
      <4>1. /\ Typed(walk') /\ walk'.bits = v.bits + 1 /\ walk'.cur = v.cur /\ at' = "thumb"
            /\ UNCHANGED <<init, call>>
        BY <2>9, <3>3, Turned
      <4>2. CutOff(walk', length)
        <5>1. v.bits \in Int
          BY <2>9 DEF Typed
        <5> QED BY <3>1, <4>1, <5>1 DEF CutOff
      <4> QED BY <3>1, <4>1, <4>2 DEF InfoOutcome
    <3> QED BY <1>2, <3>1, <3>2, <3>3
  <2>13. ASSUME 2 * i < x.fill, Has(walk, 2)
         PROVE /\ v.pos = x.at + 2 * (i + 1) /\ v.bits = 8 * v.pos + x.turn + i
               /\ v.used = v.pos - (g.at + g.fill + 1)
               /\ v.cur = Byte(x.at + (2 * i + 1)) /\ Pre
    <3> DEFINE a == x.at  t == x.turn  p == walk.pos  b == walk.bits  w == walk.used
               c == g.at + g.fill + 1
    <3>1. /\ a \in Nat /\ t \in Nat /\ i \in Nat /\ p = a + 2 * i /\ b = 8 * p + t + i
          /\ w = p - c
      BY <2>6, <2>7
    <3>2. v.pos = p + 2 /\ v.bits = b + 16 /\ v.used = w + 2 /\ v.cur = Byte(p + 1)
      BY <2>9, <2>13
    <3>3. c \in Nat
      BY <2>2, SegmentTyped
    <3> HIDE DEF a, t, p, b, w, c
    <3>4. /\ p + 2 = a + 2 * (i + 1) /\ b + 16 = 8 * (p + 2) + t + i /\ w + 2 = (p + 2) - c
          /\ p + 1 = a + (2 * i + 1)
      BY <3>1, <3>3
    <3>5. Byte(walk.pos) = "FF"
      <4>1. 2 * i \in 0 .. x.fill - 1
        BY <2>6, <2>7, <2>13
      <4> QED BY <2>6, <2>7, <4>1, Bytes
    <3>6. Has(walk, 1)
      BY <2>13 DEF Has, Typed
    <3> QED BY <3>2, <3>4, <3>5, <3>6 DEF a, t, c
  <2>14. CASE 2 * i + 1 < x.fill /\ Has(walk, 2)
    <3>0. 2 * i < x.fill /\ 2 * i + 1 \in 0 .. x.fill - 1 /\ 2 * (i + 1) <= x.fill
          /\ i + 1 \in 0 .. x.fill
      <4> DEFINE f == x.fill
      <4>1. f \in Nat /\ i \in Nat /\ 2 * i + 1 < f
        BY <2>6, <2>7, <2>14
      <4> HIDE DEF f
      <4>2. 2 * i < f /\ 2 * i + 1 \in 0 .. f - 1 /\ 2 * (i + 1) <= f /\ i + 1 \in 0 .. f
        BY <4>1
      <4> QED BY <4>2 DEF f
    <3>1. Byte(x.at + (2 * i + 1)) = "FF"
      BY <2>7, <3>0, Bytes
    <3>2. v.cur = "FF" /\ Pre
      BY <2>13, <2>14, <3>0, <3>1
    <3>3. Turn(v, "thumb")
      BY <1>1, <3>2 DEF FrameMarkers, Skipped, Others
    <3>4. /\ Typed(walk') /\ walk'.bits = v.bits + 1 /\ walk'.pos = v.pos
          /\ walk'.frame = v.frame /\ walk'.app = v.app /\ walk'.used = v.used
          /\ at' = "thumb" /\ UNCHANGED <<init, call>>
      BY <2>9, <3>3, Turned
    <3>5. /\ v.pos = x.at + 2 * (i + 1) /\ v.bits = 8 * v.pos + x.turn + i
          /\ v.used = v.pos - (g.at + g.fill + 1)
      BY <2>13, <2>14, <3>0
    <3>6. walk'.bits = 8 * walk'.pos + x.turn + (i + 1)
      <4> DEFINE p == v.pos  b == v.bits  t == x.turn
      <4>1. p \in Int /\ t \in Nat /\ i \in Nat /\ b = 8 * p + t + i
        BY <2>6, <2>7, <2>9, <3>5 DEF Typed
      <4>2. walk'.bits = b + 1 /\ walk'.pos = p
        BY <3>4
      <4> HIDE DEF p, b, t
      <4>3. b + 1 = 8 * p + t + (i + 1)
        BY <4>1
      <4> QED BY <4>2, <4>3 DEF t
    <3>7. i + 1 \in Nat
      BY <2>6
    <3>8. AtThumbnail(walk', stream, length, k, j, i + 1)
      BY <2>2, <2>4, <2>6, <2>9, <3>0, <3>4, <3>5, <3>6, <3>7 DEF AtThumbnail
    <3>9. InThumbnail(walk', stream, length)
      BY <2>2, <2>4, <3>0, <3>8 DEF InThumbnail
    <3> QED BY <3>4, <3>9 DEF InfoOutcome
  <2>15. CASE 2 * i + 1 = x.fill /\ Has(walk, 2)
    <3>0. 2 * i < x.fill
      BY <2>6, <2>7, <2>15
    <3>1. /\ v.pos = x.at + 2 * (i + 1) /\ v.bits = 8 * v.pos + x.turn + i
          /\ v.used = v.pos - (g.at + g.fill + 1) /\ v.cur = Byte(x.at + (2 * i + 1)) /\ Pre
      BY <2>13, <2>15, <3>0
    <3>2. v.cur = x.m
      BY <2>7, <2>15, <3>1, Bytes
    <3>3. v.pos = x.at + x.fill + 1 /\ v.pos - 1 = x.at + x.fill
      <4> DEFINE a == x.at  f == x.fill
      <4>1. a \in Nat /\ f = 2 * i + 1 /\ i \in Nat /\ v.pos = a + 2 * (i + 1)
        BY <2>6, <2>7, <2>15, <3>1
      <4> HIDE DEF a, f
      <4>2. v.pos = a + f + 1 /\ v.pos - 1 = a + f
        BY <4>1
      <4> QED BY <4>2 DEF a, f
    <3>4. Here(v) = x
      BY <2>7, <3>3, Bytes
    <3>5. AtMark(v, stream, length, k, j, i)
      BY <2>2, <2>4, <2>6, <2>9, <2>15, <3>1, <3>2, <3>3 DEF AtMark
    <3>6. \/ x.m \in FrameMarkers /\ ThumbFrame(v, x)
          \/ x.m \in Skipped \union {"DRI", "APP0"} /\ ThumbSkip(v, x)
          \/ x.m \in Others /\ Refused("info")
          \/ x.m \in Bare /\ Turn(v, "thumb")
      BY <1>1, <3>1, <3>2, <3>4
    <3> QED BY <2>2, <2>4, <3>5, <3>6, ThumbPartStep
  <2>16. \/ 2 * i = x.fill
         \/ 2 * i < x.fill /\ ~Has(walk, 2)
         \/ 2 * i + 1 < x.fill /\ Has(walk, 2)
         \/ 2 * i + 1 = x.fill /\ Has(walk, 2)
    <3> DEFINE f == x.fill
    <3>1. f \in Nat /\ i \in Nat /\ 2 * i <= f
      BY <2>6, <2>7
    <3> HIDE DEF f
    <3>2. 2 * i = f \/ (2 * i < f /\ (2 * i + 1 < f \/ 2 * i + 1 = f))
      BY <3>1
    <3> QED BY <3>2 DEF f
  <2> QED BY <2>10, <2>12, <2>14, <2>15, <2>16
<1> QED BY <1>3, <1>4
-----------------------------------------------------------------------------
(* The second walk.                                                        *)

\* The walk is in the prefix of the k-th segment; it counts what it reads and nothing else.
DecodeAt(v, s, k, i) ==
    /\ Reaches(v, s.segs[k], i)
    /\ v.bits = 8 * v.pos
    /\ v.frame = FrameSoFar(s, k)
InDecode(v, s) ==
    \E k \in 1 .. Len(s.segs) : \E i \in 0 .. s.segs[k].fill : DecodeAt(v, s, k, i)

\* What a turn of the second walk may lead to.
DecodeOutcome ==
    /\ UNCHANGED <<init, call, info>>
    /\ \/ at' = "decode" /\ Typed(walk') /\ InDecode(walk', stream)
       \/ at' = "idle" /\ ret' = "found" /\ walk'.frame = info.frame /\ walk'.pos = info.scan
       \/ at' = "idle" /\ ret' = "decode" /\ Unlooked(stream)

\* Two bytes at least follow every segment of a stream that has been told of.
LEMMA Within ==
    ASSUME NEW s \in Streams, NEW l \in Nat, NEW i, ToldRight(s, l, i), NEW k \in 1 .. Len(s.segs)
    PROVE End(s.segs[k]) \in Nat /\ End(s.segs[k]) + 2 <= l
<1> DEFINE n == Len(s.segs)
           e == End(s.segs[k])  a == s.segs[n].at  z == End(s.segs[n])
<1>1. n \in Nat \ {0} /\ n \in 1 .. n
  BY StreamForm
<1>2. z + 2 <= l
  BY DEF ToldRight, ScanOf, Last
<1>3. e \in Nat /\ z \in Nat /\ (k # n => e <= a)
  <2>1. k # n => k < n
    BY <1>1
  <2> QED BY <1>1, <2>1, StreamLayout
<1>4. a \in Nat /\ a <= z
  <2>1. s.segs[n].at \in Nat /\ s.segs[n].fill \in Nat /\ s.segs[n].len \in Nat
    BY <1>1, SegmentTyped
  <2> DEFINE f == s.segs[n].fill  m == s.segs[n].len
  <2>2. z = a + f + 1 + m
    BY <2>1, EndOf
  <2>3. a \in Nat /\ f \in Nat /\ m \in Nat
    BY <2>1
  <2> HIDE DEF a, z, f, m
  <2> QED BY <2>2, <2>3
<1>5. k = n => e = z
  OBVIOUS
<1> HIDE DEF e, a, z
<1>6. e + 2 <= l
  BY <1>2, <1>3, <1>4, <1>5
<1> QED BY <1>3, <1>6 DEF e

\* The marker of the k-th segment has been read.
DecodeArrived(v, s, k) ==
    /\ Typed(v) /\ v.cur = s.segs[k].m
    /\ v.pos = s.segs[k].at + s.segs[k].fill + 1 /\ v.bits = 8 * v.pos
    /\ v.frame = FrameSoFar(s, k)

\* The second walk finds room for every segment.
LEMMA DecodeRoom ==
    ASSUME stream \in Streams, length \in Nat, ToldRight(stream, length, info),
           NEW k \in 1 .. Len(stream.segs), NEW v, DecodeArrived(v, stream, k)
    PROVE /\ FitsBefore(v, stream.segs[k]) /\ Has(v, 2) /\ Has(v, stream.segs[k].len)
          /\ v.pos + stream.segs[k].len = End(stream.segs[k])
          /\ v.bits + 8 * stream.segs[k].len = 8 * End(stream.segs[k])
<1> DEFINE g == stream.segs[k]
           a == g.at  f == g.fill  n == g.len  e == End(g)  p == v.pos  b == v.bits  l == length
<1>1. a \in Nat /\ f \in Nat /\ n \in Nat /\ e = a + f + 1 + n
  BY SegmentTyped
<1>2. e + 2 <= l /\ l \in Nat
  BY Within
<1>3. p = a + f + 1 /\ b = 8 * p
  BY DEF DecodeArrived
<1> HIDE DEF a, f, n, e, p, b, l
<1>4. p + n = e /\ b + 8 * n = 8 * e
  BY <1>1, <1>3
<1>5. b + 8 * 2 <= 8 * l /\ b + 8 * n <= 8 * l
  BY <1>1, <1>2, <1>3
<1>6. (b + 16) \div 8 + n <= l
  <2>1. b + 16 = 8 * (p + 2) /\ p \in Int
    BY <1>1, <1>3
  <2>2. (b + 16) \div 8 = p + 2
    BY <2>1
  <2> QED BY <1>1, <1>2, <1>3, <2>2
<1> QED BY <1>4, <1>5, <1>6 DEF FitsBefore, Has, g, a, f, n, e, p, b, l

\* The loop goes on behind the k-th segment.
LEMMA DecodeOnward ==
    ASSUME stream \in Streams, length \in Nat, ToldRight(stream, length, info), at = "decode",
           NEW k \in 1 .. Len(stream.segs) - 1,
           NEW x, Typed(x), x.cur # "FF", x.pos = End(stream.segs[k]), x.bits = 8 * x.pos,
           x.frame = FrameSoFar(stream, k + 1), Loop(x)
    PROVE DecodeOutcome
<1>1. /\ stream.segs[k + 1].at = End(stream.segs[k]) /\ Len(stream.segs) \in Nat
  BY StreamForm DEF WellFormed
<1>2. k \in 1 .. Len(stream.segs) /\ k + 1 \in 1 .. Len(stream.segs)
  BY <1>1
<1>3. End(stream.segs[k]) \in Nat /\ End(stream.segs[k]) + 2 <= length
  BY <1>2, Within
<1>4. x.bits \div 8 <= length
  <2> DEFINE e == End(stream.segs[k])  b == x.bits
  <2>1. e \in Nat /\ e + 2 <= length /\ b = 8 * e
    BY <1>3
  <2> HIDE DEF e, b
  <2>2. b \div 8 = e
    BY <2>1
  <2>3. b \div 8 <= length
    BY <2>1, <2>2
  <2> QED BY <2>3 DEF b
<1>5. walk' = x /\ at' = "decode" /\ UNCHANGED <<init, call, info>>
  BY <1>4 DEF Loop
<1>6. stream.segs[k + 1].fill \in Nat \ {0}
  BY <1>2, SegmentTyped
<1>7. DecodeAt(x, stream, k + 1, 0) /\ 0 \in 0 .. stream.segs[k + 1].fill
  BY <1>1, <1>6 DEF DecodeAt, Reaches
<1>8. InDecode(x, stream)
  BY <1>2, <1>7 DEF InDecode
<1> QED BY <1>5, <1>8 DEF DecodeOutcome

\* A segment that the loop moves over, knowing no more than before.
LEMMA DecodePast ==
    ASSUME stream \in Streams, length \in Nat, ToldRight(stream, length, info), at = "decode",
           NEW k \in 1 .. Len(stream.segs) - 1, NEW v, DecodeArrived(v, stream, k),
           stream.segs[k].m \notin FrameMarkers, Loop(Move(v, stream.segs[k].len))
    PROVE DecodeOutcome
<1> DEFINE x == Move(v, stream.segs[k].len)
<1>1. k \in 1 .. Len(stream.segs)
  BY StreamForm
<1>2. stream.segs[k].len \in Int /\ stream.segs[k].m # "FF"
  BY <1>1, SegmentTyped
<1>3. /\ Typed(v) /\ v.cur = stream.segs[k].m /\ v.frame = FrameSoFar(stream, k)
      /\ v.pos + stream.segs[k].len = End(stream.segs[k])
      /\ v.bits + 8 * stream.segs[k].len = 8 * End(stream.segs[k])
  BY <1>1, DecodeRoom DEF DecodeArrived
<1>4. /\ Typed(x) /\ x.pos = v.pos + stream.segs[k].len
      /\ x.bits = v.bits + 8 * stream.segs[k].len /\ x.cur = v.cur /\ x.frame = v.frame
  BY <1>2, <1>3, Moving
<1>5. x.frame = FrameSoFar(stream, k + 1)
  BY <1>3, <1>4, FrameKnown
<1> HIDE DEF x
<1>6. x.cur # "FF" /\ x.pos = End(stream.segs[k]) /\ x.bits = 8 * x.pos
  BY <1>2, <1>3, <1>4
<1> QED BY <1>4, <1>5, <1>6, DecodeOnward DEF x
\* The frame header, which the first walk has found to be one it takes.
LEMMA DecodeFrameStep ==
    ASSUME stream \in Streams, length \in Nat, ToldRight(stream, length, info), at = "decode",
           NEW k \in 1 .. Len(stream.segs) - 1, NEW v, DecodeArrived(v, stream, k),
           stream.segs[k].m \in FrameMarkers, DecodeFrame(v, stream.segs[k])
    PROVE DecodeOutcome
<1> DEFINE g == stream.segs[k]
<1>1. k \in 1 .. Len(stream.segs)
  BY StreamForm
<1>2. g.len \in Int /\ g.m # "FF" /\ g.frame \in Frames
  BY <1>1, SegmentTyped
<1>3. Acceptable(g, length) /\ g = FrameOf(stream)
  <2>1. \A h \in Headers(stream) : Acceptable(h, length)
    BY PassedAll DEF ToldRight
  <2>2. g \in Headers(stream)
    BY DEF Headers
  <2> QED BY <1>1, <2>1, <2>2, FrameKnown
<1>4. FitsBefore(v, g) /\ Sized(g.frame) /\ g.frame.s \in Formats
  BY <1>1, <1>3, DecodeRoom DEF Acceptable
<1>5. CASE g.frame.jump
  <2>1. Refused("decode")
    BY <1>5 DEF DecodeFrame
  <2>2. Unlooked(stream)
    BY <1>3, <1>5 DEF Unlooked
  <2> QED BY <2>1, <2>2 DEF Refused, DecodeOutcome
<1>6. CASE ~g.frame.jump
  <2> DEFINE y == Move(v, g.len)
             x == [y EXCEPT !.frame = Said(g)]
  <2>1. Loop(x)
    BY <1>4, <1>6 DEF DecodeFrame
  <2>2. /\ Typed(v) /\ v.cur = g.m /\ v.pos + g.len = End(g) /\ v.bits + 8 * g.len = 8 * End(g)
    BY <1>1, DecodeRoom DEF DecodeArrived
  <2>3. /\ Typed(y) /\ y.pos = v.pos + g.len /\ y.bits = v.bits + 8 * g.len /\ y.cur = v.cur
    BY <1>2, <2>2, Moving
  <2>4. Said(g) \in Frames
    <3>1. g.m \in FrameMarkers \union {"SOF1"}
      OBVIOUS
    <3> QED BY <1>2, <3>1, FramesStayFrames
  <2> HIDE DEF y
  <2>5. /\ Typed(x) /\ x.cur = y.cur /\ x.pos = y.pos /\ x.bits = y.bits /\ x.frame = Said(g)
    BY <2>3, <2>4 DEF Typed
  <2>6. x.frame = FrameSoFar(stream, k + 1)
    BY <2>5, FrameKnown
  <2> HIDE DEF x
  <2>7. x.cur # "FF" /\ x.pos = End(g) /\ x.bits = 8 * x.pos
    BY <1>2, <2>2, <2>3, <2>5
  <2> QED BY <2>1, <2>5, <2>6, <2>7, DecodeOnward
<1> QED BY <1>5, <1>6

\* The scan header: the walks meet.
LEMMA DecodeScanStep ==
    ASSUME stream \in Streams, length \in Nat, ToldRight(stream, length, info), at = "decode",
           NEW k, k = Len(stream.segs), NEW v, DecodeArrived(v, stream, k),
           DecodeScan(v, stream.segs[k])
    PROVE DecodeOutcome
<1> DEFINE g == stream.segs[k]
           y == Move(v, g.len)
           x == [y EXCEPT !.frame = Coding(@, g)]
<1>1. k \in 1 .. Len(stream.segs) /\ g = ScanOf(stream)
  BY StreamForm DEF ScanOf, Last
<1>2. g.len \in Int
  BY <1>1, SegmentTyped
<1>3. FitsBefore(v, g)
  BY <1>1, DecodeRoom
<1>4. walk' = x /\ at' = "idle" /\ ret' = "found" /\ UNCHANGED <<init, call, info>>
  BY <1>3 DEF DecodeScan
<1>5. /\ Typed(v) /\ v.pos + g.len = End(g) /\ v.frame = FrameSoFar(stream, k)
  BY <1>1, DecodeRoom DEF DecodeArrived
<1>6. /\ Typed(y) /\ y.pos = v.pos + g.len /\ y.frame = v.frame
  BY <1>2, <1>5, Moving
<1> HIDE DEF y
<1>7. x.pos = y.pos /\ x.frame = Coding(y.frame, g)
  BY <1>6 DEF Typed
<1>8. FrameSoFar(stream, k) = Said(FrameOf(stream))
  BY FrameKnown DEF ToldRight
<1>9. info.frame = Coding(Said(FrameOf(stream)), g) /\ info.scan = End(g)
  BY <1>1 DEF ToldRight, Described
<1> HIDE DEF x
<1>10. walk'.frame = info.frame /\ walk'.pos = info.scan
  BY <1>4, <1>5, <1>6, <1>7, <1>8, <1>9
<1> QED BY <1>4, <1>10 DEF DecodeOutcome

\* Each kind of segment.
LEMMA DecodeSegmentStep ==
    ASSUME stream \in Streams, length \in Nat, ToldRight(stream, length, info), at = "decode",
           NEW k \in 1 .. Len(stream.segs),
           DecodeArrived(Coded(walk), stream, k), Here(Coded(walk)) = stream.segs[k],
           DecodeMarker
    PROVE DecodeOutcome
<1> DEFINE g == stream.segs[k]
           v == Coded(walk)
<1>1. v.cur = g.m /\ Here(v) = g /\ DecodeArrived(v, stream, k)
  BY DEF DecodeArrived
<1>2. \/ g.m \in FrameMarkers /\ DecodeFrame(v, g)
      \/ g.m = "SOS" /\ DecodeScan(v, g)
      \/ g.m \in {"DQT", "DHT"} /\ DecodeTables(v, g)
      \/ g.m = "APP0" /\ DecodeApp(v, g)
      \/ g.m \in {"APPn", "COM", "DRI"} /\ DecodeSkip(v, g)
      \/ g.m \in Others \union {"DNL", "TEM", "EOI"} /\ Refused("decode")
      \/ g.m \in Bare \ {"TEM", "EOI"} /\ Loop(v)
  BY <1>1 DEF DecodeMarker
<1> HIDE DEF v
<1>3. FitsBefore(v, g) /\ Has(v, 2) /\ Has(v, g.len)
  BY <1>1, DecodeRoom
<1>4. ASSUME k # Len(stream.segs)
      PROVE k \in 1 .. Len(stream.segs) - 1 /\ g \in Headers(stream) /\ Acceptable(g, length)
  <2>1. k \in 1 .. Len(stream.segs) - 1
    BY <1>4, StreamForm
  <2>2. g \in Headers(stream)
    BY <2>1 DEF Headers
  <2>3. \A h \in Headers(stream) : Acceptable(h, length)
    BY PassedAll DEF ToldRight
  <2> QED BY <2>1, <2>2, <2>3
<1>5. g.m = "SOS" <=> k = Len(stream.segs)
  BY Kinds
<1>6. CASE g.m \in FrameMarkers /\ DecodeFrame(v, g)
  <2>1. g.m # "SOS"
    BY <1>6 DEF FrameMarkers
  <2> QED BY <1>1, <1>4, <1>5, <1>6, <2>1, DecodeFrameStep
<1>7. CASE g.m = "SOS" /\ DecodeScan(v, g)
  BY <1>1, <1>5, <1>7, DecodeScanStep
<1>8. CASE \/ g.m \in {"DQT", "DHT"} /\ DecodeTables(v, g)
           \/ g.m = "APP0" /\ DecodeApp(v, g)
           \/ g.m \in {"APPn", "COM", "DRI"} /\ DecodeSkip(v, g)
  <2>1. Loop(Move(v, g.len))
    BY <1>3, <1>8 DEF DecodeTables, DecodeApp, DecodeSkip
  <2>2. g.m # "SOS" /\ g.m \notin FrameMarkers
    BY <1>8 DEF FrameMarkers
  <2> QED BY <1>1, <1>4, <1>5, <2>1, <2>2, DecodePast
<1>9. CASE g.m \in Others \union {"DNL", "TEM", "EOI"} /\ Refused("decode")
  <2>1. g.m # "SOS"
    BY <1>9 DEF Others
  <2>2. g \in Headers(stream) /\ g.m \notin Others
    BY <1>4, <1>5, <2>1 DEF Acceptable
  <2>3. Unlooked(stream)
    BY <1>9, <2>2 DEF Unlooked
  <2> QED BY <1>9, <2>3 DEF Refused, DecodeOutcome
<1>10. CASE g.m \in Bare \ {"TEM", "EOI"} /\ Loop(v)
  <2>1. g.m \in Alone /\ g.len = 0
    BY <1>10, Kinds
  <2>2. g.m # "SOS" /\ g.m \notin FrameMarkers /\ g.m # "FF"
    BY <2>1 DEF Alone, FrameMarkers
  <2>3. k \in 1 .. Len(stream.segs) - 1
    BY <1>4, <1>5, <2>2
  <2>4. /\ Typed(v) /\ v.cur = g.m /\ v.frame = FrameSoFar(stream, k) /\ v.bits = 8 * v.pos
        /\ v.pos + g.len = End(g)
    BY <1>1, DecodeRoom DEF DecodeArrived
  <2>5. v.pos = End(g)
    BY <2>1, <2>4 DEF Typed
  <2>6. v.frame = FrameSoFar(stream, k + 1)
    BY <2>2, <2>3, <2>4, FrameKnown
  <2> QED BY <1>10, <2>2, <2>3, <2>4, <2>5, <2>6, DecodeOnward
<1> QED BY <1>2, <1>6, <1>7, <1>8, <1>9, <1>10

\* What the second walk is at is within the stream.
LEMMA DecodeReads ==
    ASSUME stream \in Streams, length \in Nat, ToldRight(stream, length, info),
           NEW k \in 1 .. Len(stream.segs), NEW i, DecodeAt(walk, stream, k, i)
    PROVE Has(walk, Wanted(i)) /\ walk.pos <= length
<1> DEFINE g == stream.segs[k]
           a == g.at  f == g.fill  n == g.len  e == End(g)  p == walk.pos  b == walk.bits
           l == length  d == Wanted(i)
<1>1. a \in Nat /\ f \in Nat /\ n \in Nat /\ e = a + f + 1 + n
  BY SegmentTyped
<1>2. e + 2 <= l /\ l \in Nat
  BY Within
<1>3. i \in 0 .. f - 1 /\ p = (IF i = 0 THEN a ELSE a + i + 1) /\ b = 8 * p
  <2>1. i \in 0 .. g.fill - 1
    BY DEF DecodeAt, Reaches
  <2> QED BY <1>1, <2>1 DEF DecodeAt, Reaches
<1>4. d = IF i = 0 THEN 2 ELSE 1
  BY DEF Wanted
<1> HIDE DEF a, f, n, e, p, b, l, d
<1>5. CASE i = 0
  <2>1. p = a /\ d = 2
    BY <1>3, <1>4, <1>5
  <2>2. b + 8 * d <= 8 * l /\ p <= l
    BY <1>1, <1>2, <1>3, <1>5, <2>1
  <2> QED BY <2>2 DEF Has, b, l, d, p
<1>6. CASE i # 0
  <2>1. p = a + i + 1 /\ d = 1 /\ i \in Nat /\ i < f
    BY <1>1, <1>3, <1>4, <1>6
  <2>2. b + 8 * d <= 8 * l /\ p <= l
    BY <1>1, <1>2, <1>3, <2>1
  <2> QED BY <2>2 DEF Has, b, l, d, p
<1> QED BY <1>5, <1>6

\* One turn of the loop of the second walk.
LEMMA DecodeMarkerStep ==
    ASSUME stream \in Streams, length \in Nat, ToldRight(stream, length, info), at = "decode",
           Typed(walk), InDecode(walk, stream)
    PROVE ~DecodeByte /\ (DecodeMarker => DecodeOutcome)
<1> DEFINE v == Coded(walk)
<1>1. PICK k \in 1 .. Len(stream.segs) : \E i \in 0 .. stream.segs[k].fill :
          DecodeAt(walk, stream, k, i)
  BY DEF InDecode
<1>2. PICK i \in 0 .. stream.segs[k].fill : DecodeAt(walk, stream, k, i)
  BY <1>1
<1> DEFINE g == stream.segs[k]
<1>3. /\ g.at \in Nat /\ g.fill \in Nat \ {0} /\ g \in Parts[stream]
  BY SegmentTyped, PartOf
<1>4. Reaches(walk, g, i) /\ i \in Nat /\ i < g.fill /\ walk.bits = 8 * walk.pos
      /\ walk.frame = FrameSoFar(stream, k)
  BY <1>2, <1>3 DEF DecodeAt, Reaches
<1>5. Has(walk, Wanted(i))
  BY <1>2, DecodeReads
<1>6. /\ Typed(v) /\ v.frame = walk.frame /\ Prefix(walk)
      /\ v.pos = g.at + i + 2 /\ v.bits = walk.bits + 8 * Wanted(i)
      /\ i + 1 < g.fill => v.cur = "FF" /\ Reaches(v, g, i + 1)
      /\ i + 1 = g.fill => v.cur = g.m /\ Here(v) = g
  BY <1>3, <1>4, <1>5, Reading, SMTT(30)
<1>7. v.bits = 8 * v.pos
  <2> DEFINE a == g.at  p == walk.pos  b == walk.bits  d == Wanted(i)  p2 == v.pos  b2 == v.bits
  <2>1. /\ a \in Nat /\ i \in Nat /\ b = 8 * p /\ p = (IF i = 0 THEN a ELSE a + i + 1)
        /\ p2 = a + i + 2 /\ b2 = b + 8 * d /\ d = IF i = 0 THEN 2 ELSE 1
    BY <1>3, <1>4, <1>6 DEF Reaches, Wanted
  <2> HIDE DEF a, p, b, d, p2, b2
  <2>2. CASE i = 0
    BY <2>1, <2>2 DEF p2, b2
  <2>3. CASE i # 0
    <3>1. p = a + i + 1 /\ d = 1
      BY <2>1, <2>3
    <3>2. b2 = 8 * p2
      BY <2>1, <3>1
    <3> QED BY <3>2 DEF p2, b2
  <2> QED BY <2>2, <2>3
<1>8. ~DecodeByte
  BY <1>6 DEF DecodeByte
<1> HIDE DEF v
<1>9. ASSUME DecodeMarker PROVE DecodeOutcome
  <2>1. CASE i + 1 < g.fill
    <3>1. v.cur = "FF" /\ Reaches(v, g, i + 1)
      BY <1>6, <2>1
    <3>2. Loop(v)
      <4>1. v.cur \notin FrameMarkers \union Others
                \union {"SOS", "DQT", "DHT", "APP0", "APPn", "COM", "DRI", "DNL", "TEM", "EOI"}
        BY <3>1 DEF FrameMarkers, Others
      <4> QED BY <1>9, <4>1 DEF DecodeMarker, v
    <3>3. i + 1 \in 0 .. g.fill
      BY <1>3, <1>4
    <3>4. DecodeAt(v, stream, k, i + 1)
      BY <1>4, <1>6, <1>7, <3>1 DEF DecodeAt
    <3>5. InDecode(v, stream)
      BY <3>3, <3>4 DEF InDecode
    <3>6. v.bits \div 8 <= length
      <4> DEFINE a == g.at  f == g.fill  n == g.len  e == End(g)  p == v.pos  b == v.bits
      <4>1. /\ a \in Nat /\ f \in Nat /\ n \in Nat /\ e = a + f + 1 + n /\ e + 2 <= length
            /\ i \in Nat /\ i < f /\ p = a + i + 2 /\ b = 8 * p
        BY <1>3, <1>4, <1>6, <1>7, SegmentTyped, Within
      <4> HIDE DEF a, f, n, e, p, b
      <4>2. p \in Int /\ p <= length
        BY <4>1, SMTT(30)
      <4>3. b \div 8 = p
        BY <4>1, <4>2
      <4> QED BY <4>2, <4>3 DEF b
    <3>7. walk' = v /\ at' = "decode" /\ UNCHANGED <<init, call, info>>
      BY <3>2, <3>6 DEF Loop
    <3> QED BY <1>6, <3>5, <3>7 DEF DecodeOutcome
  <2>2. CASE i + 1 = g.fill
    <3>1. v.pos = g.at + g.fill + 1
      <4> DEFINE a == g.at  f == g.fill
      <4>1. a \in Nat /\ f = i + 1 /\ i \in Nat /\ v.pos = a + i + 2
        BY <1>3, <1>4, <1>6, <2>2
      <4> HIDE DEF a, f
      <4>2. v.pos = a + f + 1
        BY <4>1
      <4> QED BY <4>2 DEF a, f
    <3>2. DecodeArrived(v, stream, k) /\ Here(v) = g
      BY <1>4, <1>6, <1>7, <2>2, <3>1 DEF DecodeArrived
    <3> QED BY <1>9, <3>2, DecodeSegmentStep DEF v
  <2> QED BY <1>3, <1>4, <2>1, <2>2
<1> QED BY <1>8, <1>9

\* The second walk begins, or a progressive picture is refused.
LEMMA DecodeStart ==
    ASSUME stream \in Streams, length \in Nat, ToldRight(stream, length, info), walk = Begin, Decode
    PROVE DecodeOutcome
<1>1. CASE info.frame.mode = "SOF2"
  <2> DEFINE h == FrameOf(stream)
  <2>1. h \in Headers(stream) /\ h.m \in FrameMarkers \union {"SOF1"}
    BY FrameKnown
  <2>2. h.frame \in Frames
    <3>1. PICK k \in 1 .. Len(stream.segs) - 1 : h = stream.segs[k]
      BY <2>1 DEF Headers
    <3>2. k \in 1 .. Len(stream.segs)
      BY StreamForm
    <3> QED BY <3>1, <3>2, SegmentTyped
  <2>3. info.frame = Coding(Said(h), ScanOf(stream))
    BY DEF ToldRight, Described
  <2>4. Said(h) \in Frames /\ Said(h).mode = h.m
    BY <2>1, <2>2, FramesStayFrames
  <2>5. Said(h).mode = "SOF2" <=> Coding(Said(h), ScanOf(stream)).mode = "SOF2"
    BY <2>1, <2>2, <2>4, FramesStayFrames
  <2>6. Unlooked(stream)
    BY <1>1, <2>3, <2>4, <2>5 DEF Unlooked
  <2>7. Refused("decode")
    BY <1>1 DEF Decode
  <2> QED BY <2>6, <2>7 DEF Refused, DecodeOutcome
<1>2. CASE info.frame.mode # "SOF2"
  <2>1. at' = "decode" /\ walk' = walk /\ UNCHANGED <<init, call, info>>
    BY <1>2 DEF Decode
  <2>2. 1 \in 1 .. Len(stream.segs) /\ stream.segs[1].at = 0
    BY StreamForm DEF WellFormed
  <2>3. stream.segs[1].fill \in Nat \ {0}
    BY <2>2, SegmentTyped
  <2>4. Typed(Begin) /\ Begin.pos = 0 /\ Begin.bits = 0 /\ Begin.cur = "none" /\ Begin.frame = NoPicture
    BY DEF Typed, Begin, NoPicture, Frames
  <2>5. FrameSoFar(stream, 1) = NoPicture
    BY FrameKnown
  <2>6. DecodeAt(Begin, stream, 1, 0) /\ 0 \in 0 .. stream.segs[1].fill
    BY <2>2, <2>3, <2>4, <2>5 DEF DecodeAt, Reaches
  <2>7. InDecode(Begin, stream)
    BY <2>2, <2>6 DEF InDecode
  <2> QED BY <2>1, <2>4, <2>7 DEF DecodeOutcome
<1> QED BY <1>1, <1>2
-----------------------------------------------------------------------------
(* The invariant.                                                          *)

\* Where each walk is in a stream that is the first of its instance, or whole; nothing
\* is said of a cut stream on an instance whose flag is stale.
Places ==
    /\ at = "info" =>
          Typed(walk) /\ (InInfo(walk, stream, length) \/ (CutOff(walk, length) /\ ~Whole))
    /\ at = "thumb" =>
          Typed(walk) /\ (InThumbnail(walk, stream, length) \/ (CutOff(walk, length) /\ ~Whole))
    /\ at = "told" => ToldRight(stream, length, info) /\ walk = Begin
    /\ at = "decode" =>
          ToldRight(stream, length, info) /\ Typed(walk) /\ InDecode(walk, stream)
    /\ at = "idle" /\ ret = "info" /\ Whole => ~Supported(stream)
    /\ at = "idle" /\ ret = "found" => walk.frame = info.frame /\ walk.pos = info.scan
    /\ at = "idle" /\ ret = "decode" => Unlooked(stream)
HandedRight ==
    /\ handed \in Nat
    /\ handed = 0 => init = FALSE /\ at = "idle" /\ ret = "none"
    /\ handed # 0 => stream \in Streams /\ length \in Nat
    /\ handed = 1 /\ at \in {"info", "thumb"} => init = FALSE
MarkersInv == HandedRight /\ (handed = 1 \/ (handed # 0 /\ Whole) => Places)

\* The walks leave the stream alone.
LEMMA StreamKept ==
    ASSUME Walk
    PROVE UNCHANGED call /\ at # "idle"
<1>1. CASE InfoEnd
  BY <1>1 DEF InfoEnd, Told, Refused, call
<1>2. CASE InfoMarker
  <2>1. at # "idle"
    BY <1>2 DEF InfoMarker
  <2>2. \E v, g : \/ Refused("info") \/ InfoFrame(v, g) \/ InfoScan(v, g) \/ InfoSkip(v, g)
                  \/ InfoInterval(v, g) \/ InfoApp(v, g) \/ Turn(v, "info")
    BY <1>2 DEF InfoMarker
  <2> QED BY <2>1, <2>2 DEF Refused, InfoFrame, InfoScan, InfoSkip, InfoInterval, InfoApp, Turn, Told
<1>3. CASE ThumbMarker
  <2>1. at # "idle"
    BY <1>3 DEF ThumbMarker
  <2>2. \E v, g : Refused("info") \/ ThumbFrame(v, g) \/ ThumbSkip(v, g) \/ Turn(v, "thumb")
    BY <1>3 DEF ThumbMarker
  <2> QED BY <2>1, <2>2 DEF Refused, ThumbFrame, ThumbSkip, Turn
<1>4. CASE Decode
  BY <1>4 DEF Decode, Refused
<1>5. CASE DecodeByte
  BY <1>5 DEF DecodeByte, Refused, Loop
<1>6. CASE DecodeMarker
  <2>1. at # "idle"
    BY <1>6 DEF DecodeMarker
  <2>2. \E v, g : \/ Refused("decode") \/ DecodeFrame(v, g) \/ DecodeScan(v, g) \/ DecodeTables(v, g)
                  \/ DecodeApp(v, g) \/ DecodeSkip(v, g) \/ Loop(v)
    BY <1>6 DEF DecodeMarker
  <2> QED
    BY <2>1, <2>2 DEF Refused, DecodeFrame, DecodeScan, DecodeTables, DecodeApp, DecodeSkip, Loop
<1> QED BY <1>1, <1>2, <1>3, <1>4, <1>5, <1>6 DEF Walk

\* The ends a stream is cut at are numbers.
LEMMA CutsTyped ==
    ASSUME NEW s \in Streams, NEW l \in Cuts(s)
    PROVE l \in Nat
<1>1. Total(s) \in Nat
  <2>1. Len(s.segs) \in 1 .. Len(s.segs) /\ s.data \in Nat
    BY StreamForm
  <2>2. End(Last(s.segs)) \in Nat
    BY <2>1, StreamLayout DEF Last
  <2> QED BY <2>1, <2>2 DEF Total
<1> QED BY <1>1 DEF Cuts

\* A stream is handed over, and the first walk begins.
LEMMA HandOverStep ==
    ASSUME MarkersInv, NEW s \in Streams, NEW l \in Cuts(s), HandOver(s, l)
    PROVE MarkersInv'
<1>1. /\ at = "idle" /\ handed' = handed + 1 /\ stream' = s /\ length' = l
      /\ walk' = Begin /\ info' = NoInfo /\ init' = init
      /\ at' = (IF l < 256 THEN "idle" ELSE "info")
      /\ ret' = (IF l < 256 THEN "short" ELSE "none")
  BY DEF HandOver
<1>2. l \in Nat /\ handed \in Nat
  BY CutsTyped DEF MarkersInv, HandedRight
<1>3. HandedRight'
  <2>1. handed' \in Nat /\ handed' # 0 /\ (handed' = 1 => handed = 0)
    BY <1>1, <1>2
  <2>2. handed' = 1 => init' = FALSE
    BY <1>1, <2>1 DEF MarkersInv, HandedRight
  <2> QED BY <1>1, <1>2, <2>1, <2>2 DEF HandedRight
<1>4. Places'
  <2>1. 1 \in 1 .. Len(s.segs) /\ s.segs[1].at = 0 /\ s.segs[1].turn = 0
    BY StreamForm DEF WellFormed
  <2>2. s.segs[1].fill \in Nat \ {0}
    BY <2>1, SegmentTyped
  <2>3. /\ Typed(Begin) /\ Begin.pos = 0 /\ Begin.bits = 0 /\ Begin.cur = "none"
        /\ Begin.frame = NoPicture /\ Begin.thumb = NoPicture
    BY DEF Typed, Begin, NoPicture, Frames
  <2>4. FrameSoFar(s, 1) = NoPicture /\ ThumbSoFar(s, 1) = NoPicture /\ Passed(s, 1, l)
    BY FrameKnown, ThumbnailKnown, PassedAll
  <2>5. AtSegment(Begin, s, l, 1, 0) /\ 0 \in 0 .. s.segs[1].fill
    BY <2>1, <2>2, <2>3, <2>4 DEF AtSegment, Reaches
  <2>6. InInfo(Begin, s, l)
    BY <2>1, <2>5 DEF InInfo
  <2> QED BY <1>1, <2>3, <2>6 DEF Places
<1> QED BY <1>3, <1>4 DEF MarkersInv

\* What the turns of the first walk lead to is in the invariant; so for the second.
LEMMA OutcomesKept ==
    ASSUME HandedRight, handed # 0, UNCHANGED call,
           \/ InfoOutcome /\ (handed = 1 /\ at' \in {"info", "thumb"} => init = FALSE)
           \/ DecodeOutcome /\ ToldRight(stream, length, info)
    PROVE MarkersInv'
<1>1. /\ handed' = handed /\ stream' = stream /\ length' = length /\ (Whole' <=> Whole)
  BY DEF call, Whole
<1>2. CASE InfoOutcome /\ (handed = 1 /\ at' \in {"info", "thumb"} => init = FALSE)
  <2>1. HandedRight'
    BY <1>1, <1>2 DEF HandedRight, InfoOutcome
  <2>2. Places'
    BY <1>1, <1>2 DEF Places, InfoOutcome
  <2> QED BY <2>1, <2>2 DEF MarkersInv
<1>3. CASE DecodeOutcome /\ ToldRight(stream, length, info)
  <2>1. HandedRight'
    BY <1>1, <1>3 DEF HandedRight, DecodeOutcome
  <2>2. Places'
    BY <1>1, <1>3 DEF Places, DecodeOutcome
  <2> QED BY <2>1, <2>2 DEF MarkersInv
<1> QED BY <1>2, <1>3

\* A whole stream does not end in the thumbnail.
LEMMA ThumbGoesOn ==
    ASSUME stream \in Streams, Whole, InThumbnail(walk, stream, length)
    PROVE More
<1>1. PICK k \in 1 .. Len(stream.segs) : \E j \in 1 .. Len(stream.segs[k].inner) :
          \E i \in 0 .. stream.segs[k].inner[j].fill : AtThumbnail(walk, stream, length, k, j, i)
  BY DEF InThumbnail
<1>2. PICK g : g = stream.segs[k]
  OBVIOUS
<1>3. PICK j \in 1 .. Len(g.inner) :
          \E i \in 0 .. g.inner[j].fill : AtThumbnail(walk, stream, length, k, j, i)
  BY <1>1, <1>2
<1>4. PICK x : x = g.inner[j]
  OBVIOUS
<1>5. PICK i \in 0 .. x.fill : AtThumbnail(walk, stream, length, k, j, i)
  BY <1>3, <1>4
<1>6. /\ g.inner # <<>> /\ i \in Nat /\ 2 * i <= x.fill
      /\ walk.pos = x.at + 2 * i /\ walk.bits = 8 * walk.pos + x.turn + i
  BY <1>2, <1>4, <1>5 DEF AtThumbnail
<1> DEFINE a == x.at  b == x.fill  c == x.len  t == x.turn  e == End(x)
           ee == End(g)  r == After(g)  l == length  p == walk.pos  w == walk.bits
           f == (b + 1) \div 2
<1>7. /\ a \in Nat /\ b \in Nat /\ c \in Nat /\ t \in Nat /\ ee \in Nat /\ r \in Nat
      /\ e = a + b + 1 + c /\ e <= ee /\ t + f <= r
  BY <1>2, <1>4, <1>6, ThumbPart
<1>8. l \in Nat /\ 8 * ee + r + 7 < 8 * l
  BY <1>2, Room
<1>9. i \in Nat /\ 2 * i <= b /\ p = a + 2 * i /\ w = 8 * p + t + i
  BY <1>6
<1>10. w \div 8 < l
  <2> HIDE DEF a, b, c, t, e, ee, r, l, p, w
  <2>1. i <= f /\ f \in Nat
    BY <1>7, <1>9
  <2> HIDE DEF f
  <2>2. p <= e /\ p \in Nat /\ e \in Nat
    BY <1>7, <1>9
  <2>3. w <= 8 * ee + r /\ w \in Nat
    BY <1>7, <1>9, <2>1, <2>2
  <2>4. w < 8 * l
    BY <1>7, <1>8, <2>3
  <2> QED BY <1>8, <2>3, <2>4
<1> QED BY <1>10 DEF More

\* The end of the stream: on a new instance it is refused.
LEMMA InfoEndStep ==
    ASSUME stream \in Streams, length \in Nat, Typed(walk),
           \/ InInfo(walk, stream, length)
           \/ InThumbnail(walk, stream, length)
           \/ CutOff(walk, length) /\ ~Whole,
           InfoEnd, Whole \/ init = FALSE
    PROVE InfoOutcome
<1>1. ~Whole
  <2>1. SUFFICES ASSUME Whole PROVE FALSE
    OBVIOUS
  <2>2. CASE InInfo(walk, stream, length)
    <3>1. PICK k \in 1 .. Len(stream.segs) : \E i \in 0 .. stream.segs[k].fill :
              AtSegment(walk, stream, length, k, i)
      BY <2>2 DEF InInfo
    <3>2. PICK i \in 0 .. stream.segs[k].fill : AtSegment(walk, stream, length, k, i)
      BY <3>1
    <3>3. More
      BY <2>1, <3>2, Present DEF More
    <3> QED BY <3>3 DEF InfoEnd
  <2>3. CASE InThumbnail(walk, stream, length)
    BY <2>1, <2>3, ThumbGoesOn DEF InfoEnd
  <2> QED BY <2>1, <2>2, <2>3
<1>2. Refused("info")
  BY <1>1 DEF InfoEnd
<1> QED BY <1>1, <1>2 DEF Refused, InfoOutcome, call

\* A step of a walk.
LEMMA WalkStep ==
    ASSUME MarkersInv, Walk
    PROVE MarkersInv'
<1>1. HandedRight /\ UNCHANGED call /\ at # "idle" /\ handed # 0
  BY StreamKept DEF MarkersInv, HandedRight
<1>2. stream \in Streams /\ length \in Nat
  BY <1>1 DEF HandedRight
<1>3. CASE ~(handed = 1 \/ Whole)
  <2>1. handed' = handed /\ stream' = stream /\ length' = length /\ (Whole' <=> Whole)
    BY <1>1 DEF call, Whole
  <2> QED BY <1>1, <1>3, <2>1 DEF MarkersInv, HandedRight
<1>4. CASE handed = 1 \/ Whole
  <2>1. Places
    BY <1>1, <1>4 DEF MarkersInv
  <2>2. CASE InfoEnd
    <3>1. at \in {"info", "thumb"}
      BY <2>2 DEF InfoEnd
    <3>2. Whole \/ init = FALSE
      BY <1>1, <1>4, <3>1 DEF HandedRight
    <3>3. InfoOutcome
      BY <1>2, <2>1, <2>2, <3>1, <3>2, InfoEndStep DEF Places
    <3>4. handed = 1 => init = FALSE
      BY <1>1, <3>1 DEF HandedRight
    <3> QED BY <1>1, <3>3, <3>4, OutcomesKept
  <2>3. CASE InfoMarker
    <3>1. at = "info"
      BY <2>3 DEF InfoMarker
    <3>2. InfoOutcome
      BY <1>2, <2>1, <2>3, <3>1, InfoMarkerStep DEF Places
    <3>3. handed = 1 => init = FALSE
      BY <1>1, <3>1 DEF HandedRight
    <3> QED BY <1>1, <3>2, <3>3, OutcomesKept
  <2>4. CASE ThumbMarker
    <3>1. at = "thumb"
      BY <2>4 DEF ThumbMarker
    <3>2. InfoOutcome
      BY <1>2, <2>1, <2>4, <3>1, ThumbMarkerStep DEF Places
    <3>3. handed = 1 => init = FALSE
      BY <1>1, <3>1 DEF HandedRight
    <3> QED BY <1>1, <3>2, <3>3, OutcomesKept
  <2>5. CASE Decode
    <3>1. ToldRight(stream, length, info) /\ walk = Begin
      BY <2>1, <2>5 DEF Decode, Places
    <3>2. DecodeOutcome
      BY <1>2, <2>5, <3>1, DecodeStart
    <3> QED BY <1>1, <3>1, <3>2, OutcomesKept
  <2>6. CASE DecodeByte \/ DecodeMarker
    <3>1. at = "decode"
      BY <2>6 DEF DecodeByte, DecodeMarker
    <3>2. ToldRight(stream, length, info) /\ Typed(walk) /\ InDecode(walk, stream)
      BY <2>1, <3>1 DEF Places
    <3>3. DecodeOutcome
      BY <1>2, <2>6, <3>1, <3>2, DecodeMarkerStep
    <3> QED BY <1>1, <3>2, <3>3, OutcomesKept
  <2> QED BY <2>2, <2>3, <2>4, <2>5, <2>6 DEF Walk
<1> QED BY <1>3, <1>4

\* The invariant holds in every behaviour.
THEOREM PlacesKept == WalkSpec => []MarkersInv
<1>1. WalkInit => MarkersInv
  BY DEF WalkInit, MarkersInv, HandedRight
<1>2. MarkersInv /\ [WalkNext]_walkVars => MarkersInv'
  <2>1. SUFFICES ASSUME MarkersInv, [WalkNext]_walkVars PROVE MarkersInv'
    OBVIOUS
  <2>2. CASE WalkNext
    <3>1. CASE Walk
      BY <2>1, <3>1, WalkStep
    <3>2. CASE \E s \in Streams : \E l \in Cuts(s) : HandOver(s, l)
      BY <2>1, <3>2, HandOverStep
    <3> QED BY <2>2, <3>1, <3>2 DEF WalkNext
  <2>3. CASE UNCHANGED walkVars
    <3>1. /\ handed' = handed /\ stream' = stream /\ length' = length /\ init' = init
          /\ at' = at /\ walk' = walk /\ info' = info /\ ret' = ret
      BY <2>3 DEF walkVars
    <3>2. Whole' <=> Whole
      BY <3>1 DEF Whole
    <3> QED BY <2>1, <3>1, <3>2 DEF MarkersInv, HandedRight, Places
  <2> QED BY <2>1, <2>2, <2>3
<1> QED BY <1>1, <1>2, PTL DEF WalkSpec

\* The client is told the truth of a whole stream, and on a new instance never of a
\* stream that ends before its scan (JpegDecGetImageInfo).
THEOREM InfoTold == WalkSpec => []InfoIsRight
<1>1. MarkersInv => InfoIsRight
  <2>1. SUFFICES ASSUME MarkersInv PROVE InfoIsRight
    OBVIOUS
  <2>2. ASSUME at = "told" \/ ret = "info"
        PROVE handed # 0 /\ stream \in Streams /\ length \in Nat
    BY <2>1, <2>2 DEF MarkersInv, HandedRight
  <2>3. ASSUME at = "told", Whole PROVE Supported(stream) /\ info = Described(stream)
    <3>1. ToldRight(stream, length, info) /\ stream \in Streams
      BY <2>1, <2>2, <2>3 DEF MarkersInv, Places
    <3>2. \A g \in Headers(stream) : Acceptable(g, length)
      BY <3>1, PassedAll DEF ToldRight
    <3> QED BY <2>3, <3>1, <3>2 DEF ToldRight, Supported, Whole
  <2>4. ASSUME at = "idle", ret = "info", Whole PROVE ~Supported(stream)
    BY <2>1, <2>2, <2>4 DEF MarkersInv, Places
  <2>5. ASSUME at = "told", handed = 1 PROVE length > End(ScanOf(stream))
    <3>1. ToldRight(stream, length, info) /\ stream \in Streams /\ length \in Nat
      BY <2>1, <2>2, <2>5 DEF MarkersInv, Places
    <3>2. Len(stream.segs) \in 1 .. Len(stream.segs)
      BY <3>1, StreamForm
    <3>3. End(ScanOf(stream)) \in Nat /\ End(ScanOf(stream)) + 2 <= length
      BY <3>1, <3>2, Within DEF ScanOf, Last
    <3> QED BY <3>1, <3>3
  <2> QED BY <2>3, <2>4, <2>5 DEF InfoIsRight
<1> QED BY <1>1, PlacesKept, PTL

\* The second walk finds what the first told of, fails only on what that one does not
\* look at, and stays in the stream (JpegDecDecode).
THEOREM WalksTogether == WalkSpec => []WalksAgree
<1>1. MarkersInv => WalksAgree
  <2>1. SUFFICES ASSUME MarkersInv, handed = 1 \/ Whole
                 PROVE /\ at = "idle" /\ ret = "found" => walk.frame = info.frame /\ walk.pos = info.scan
                       /\ at = "idle" /\ ret = "decode" => Unlooked(stream)
                       /\ at = "decode" => walk.pos <= length
    BY DEF WalksAgree
  <2>2. CASE handed = 0
    BY <2>1, <2>2 DEF MarkersInv, HandedRight
  <2>3. CASE handed # 0
    <3>1. Places /\ stream \in Streams /\ length \in Nat
      BY <2>1, <2>3 DEF MarkersInv, HandedRight
    <3>2. ASSUME at = "decode" PROVE walk.pos <= length
      <4>1. ToldRight(stream, length, info) /\ InDecode(walk, stream)
        BY <3>1, <3>2 DEF Places
      <4>2. PICK k \in 1 .. Len(stream.segs) : \E i \in 0 .. stream.segs[k].fill :
                DecodeAt(walk, stream, k, i)
        BY <4>1 DEF InDecode
      <4> QED BY <3>1, <4>1, <4>2, DecodeReads
    <3> QED BY <3>1, <3>2 DEF Places
  <2> QED BY <2>2, <2>3
<1> QED BY <1>1, PlacesKept, PTL
=============================================================================
