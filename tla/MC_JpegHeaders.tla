--------------------------- MODULE MC_JpegHeaders ---------------------------
(***************************************************************************)
(* Instances of JpegTables and JpegMarkers.  For the first, the tables a   *)
(* DHT marker may define, the ids a scan header may name and an assignment *)
(* of the quantisation tables 0 and 1 that is not in their order; for the  *)
(* second, streams whose sizes are those of real segments.                 *)
(***************************************************************************)
EXTENDS JpegTables, JpegMarkers

MCMarkers == {{<<"dc", n>> : n \in 0 .. 1}, {<<"ac", 0>>}, {<<"ac", 1>>},
              {<<"ac", 2>>, <<"dc", 2>>}}
MCTableIds == [baseline |-> {0, 1}, progressive |-> {0, 2}]
MCQuantChoices == {<<1, 0, 1>>}
MCModes == {"400", "420", "444"}

-----------------------------------------------------------------------------
Segment(m, len) ==
    [m |-> m, len |-> len, fill |-> 1, frame |-> NoPicture, comps |-> 3, ri |-> 0,
     id |-> "none", inner |-> <<>>, at |-> 0, turn |-> 0]

\* The segments of a sequence at their places, the first at base and turn; a
\* segment takes f turns for its FF bytes.
Laid(q, base, turn, f(_)) ==
    LET At[k \in DOMAIN q] == IF k = 1 THEN base ELSE At[k - 1] + Size(q[k - 1])
        TurnAt[k \in DOMAIN q] == IF k = 1 THEN turn ELSE TurnAt[k - 1] + f(q[k - 1])
    IN [k \in DOMAIN q |-> [q[k] EXCEPT !.at = At[k], !.turn = TurnAt[k]]]

ThumbTurns(g) == (g.fill + 1) \div 2
Turns(g) ==
    IF g.inner = <<>> THEN g.fill
    ELSE LET q == Laid(g.inner, 0, g.fill - 1, ThumbTurns) IN Last(q).turn + ThumbTurns(Last(q))
Placed(segs) ==
    LET q == Laid(segs, 0, 0, Turns)
    IN [k \in DOMAIN q |->
           [q[k] EXCEPT !.inner =
               Laid(@, q[k].at + q[k].fill + 9, q[k].turn + q[k].fill - 1, ThumbTurns)]]

SOI == Segment("SOI", 0)
JFIF == [Segment("APP0", 16) EXCEPT !.id = "JFIF"]
Dqt == Segment("DQT", 132)
Dht == Segment("DHT", 418)
Frame(f) == [Segment(f.mode, IF f.s = "400" THEN 11 ELSE 17) EXCEPT !.frame = f]
Scan(c) == [Segment("SOS", 6 + 2 * c) EXCEPT !.comps = c]
Interval(r) == [Segment("DRI", 4) EXCEPT !.ri = r]
Filled(g) == [g EXCEPT !.fill = 3]
Plain == [mode |-> "SOF0", w |-> 640, h |-> 470, s |-> "420", jump |-> FALSE]
Small == [Plain EXCEPT !.w = 160, !.h = 120]
JFXX(inner) ==
    [Segment("APP0", 600) EXCEPT !.id = "JFXX", !.inner = inner]
Thumb(f) == JFXX(<<SOI, Dqt, Segment("COM", 9), Frame(f)>>)

C == Segment("COM", 5)

Picture(before, f, after, c) ==
    [segs |-> Placed(<<SOI>> \o before \o <<Dqt, Frame(f)>> \o after \o <<Scan(c)>>),
     data |-> 700]
Simple(f) == Picture(<<JFIF>>, f, <<Dht>>, IF f.s = "400" THEN 1 ELSE 3)

MCStreams ==
    {Simple(f) : f \in {Plain, [Plain EXCEPT !.mode = "SOF2"], [Plain EXCEPT !.jump = TRUE],
                        [Plain EXCEPT !.s = "400"], [Plain EXCEPT !.s = "other"],
                        [Plain EXCEPT !.s = "411", !.w = 650], [Plain EXCEPT !.h = 30],
                        [Plain EXCEPT !.w = 8180], [Plain EXCEPT !.mode = "SOF1"]}}
    \union
    {Picture(b, Plain, <<Dht>>, 3) :
        b \in {<<Filled(JFIF), Filled(Interval(8))>>, <<JFIF, Thumb(Small), Segment("APPn", 300)>>,
               <<JFIF, Thumb([Small EXCEPT !.h = 20]), Segment("COM", 40)>>,
               <<JFXX(<<SOI, Filled(Dqt), Frame(Small)>>)>>,
               <<JFXX(<<SOI, [Dqt EXCEPT !.fill = 2], Frame(Small)>>)>>,
               <<JFXX(<<>>), [Segment("APP0", 12) EXCEPT !.id = "other"]>>,
               <<JFXX(<<SOI, C, C, C, C, C, C, C, Dqt, Frame(Small)>>)>>,
               <<[JFXX(<<SOI, [C EXCEPT !.fill = 341], Frame(Small)>>) EXCEPT !.len = 376]>>,
               <<Interval(0), Segment("TEM", 0)>>, <<Interval(1288)>>, <<Interval(1289)>>, <<Segment("DNL", 4)>>,
               <<JFXX(<<SOI, Frame([Small EXCEPT !.mode = "SOF1"])>>)>>}}
    \union
    {Picture(<<>>, Plain, <<Dht>>, 1),
     [Simple(Plain) EXCEPT !.data = 2],
     [Picture(<<JFIF>>, Plain, <<Dht, Segment("RST", 0), Segment("COM", 2), C>>, 3)
        EXCEPT !.data = 4]}
-----------------------------------------------------------------------------
(***************************************************************************)
(* The two are checked in one run: a behaviour is one of the tables, while *)
(* no stream is handed over, or one of the walks, while no table is read.  *)
(***************************************************************************)
NoWalk == handed = 0
NoTables == fuse = FALSE /\ defined = {} /\ found = FALSE /\ frame = NoFrame

MCInit == Init /\ WalkInit

MCNext ==
    \/ NoWalk /\ Next /\ UNCHANGED walkVars
    \/ NoTables /\ WalkNext /\ UNCHANGED vars

MCSpec ==
    /\ MCInit /\ [][MCNext]_<<vars, walkVars>>
    /\ WF_walkVars(Walk /\ UNCHANGED vars)
=============================================================================
