--------------------------- MODULE MC_JpegDecoder ---------------------------
(* Model values for JpegDecoder: one picture per way through the decoder.  *)
EXTENDS JpegDecoder

Plain == [op |-> "baseline", sampling |-> "420", w |-> 64, h |-> 48,
          scans |-> <<All>>, good |-> TRUE, ri |-> FALSE,
          size |-> 9001, ends |-> <<623, 3002, 5005>>]
Split == [Plain EXCEPT !.scans = <<{0}, {1}, {2}>>]
Large(p) == [p EXCEPT !.w = 4096, !.h = 4090, !.size = 4000000]
Preface == [Plain EXCEPT !.size = 5000000, !.ends = <<4194311>>]

Bad == [Plain EXCEPT !.good = FALSE]
Other == [Plain EXCEPT !.sampling = "other"]
Split411 == [Split EXCEPT !.sampling = "411"]

MCPictures ==
    {Plain, [Plain EXCEPT !.ri = TRUE], Bad, [Plain EXCEPT !.op = "progressive"], Other,
     [Plain EXCEPT !.sampling = "422", !.w = 40, !.h = 40],
     [Plain EXCEPT !.sampling = "444", !.w = 1928],
     [Plain EXCEPT !.sampling = "440", !.w = 40],
     [Plain EXCEPT !.sampling = "400", !.scans = <<{0}>>, !.h = 8],
     Split, [Split EXCEPT !.sampling = "422", !.w = 40, !.h = 40],
     [Split EXCEPT !.sampling = "444"], Split411,
     [Split EXCEPT !.scans = <<{0}, {1}>>],
     Large(Plain), Large([Plain EXCEPT !.sampling = "411"]), Large(Split), Preface}

\* A third picture shows what is left of the first when the second is done.
MCNext ==
    \/ \E p \in Pictures :
           /\ n = 2 => /\ pic \in {Plain, Bad, Other, Split, Split411, Large(Plain)}
                       /\ p \in {Plain, Split}
           /\ OneFrame(p)
    \/ Running
    \/ Answer
MCSpec == Init /\ [][MCNext]_vars /\ WF_vars(Running \/ Answer)
=============================================================================
