----------------------------- MODULE MC_Download -----------------------------
(***************************************************************************)
(* Instances of Download and of CheckHash, the script it calls.  Two       *)
(* contents: genuine is the one the digest in the package's .hash file is  *)
(* of, corrupt any other.                                                  *)
(***************************************************************************)
EXTENDS Download, CheckHash

CONSTANTS genuine, corrupt,
          MaxLines      \* bound: the lines of the .hash files of the script

MCContents == {genuine, corrupt}
MCAnyOutput == {genuine, corrupt, NoFile}

GoodLine == [t |-> "sha256", h |-> genuine, mine |-> TRUE]
OtherLine == [t |-> "sha256", h |-> genuine, mine |-> FALSE]

\* The .hash file of the package, and one that has no line for the file.
PkgHash == [lines |-> <<OtherLine, GoodLine>>, eol |-> TRUE]
OtherHash == [lines |-> <<OtherLine>>, eol |-> TRUE]

\* Callers that give the wrapper the package's hash file; for the primary site,
\* one without a line for the file.
MixedHash == [s \in Sites |-> IF s = "primary" THEN OtherHash ELSE PkgHash]

\* Every .hash file of up to MaxLines lines, terminated or not.
MCLines == UNION {[1 .. n -> Line] : n \in 0 .. MaxLines}
MCHashFiles == [lines : MCLines, eol : BOOLEAN] \union {NoArg, Missing}
-----------------------------------------------------------------------------
(***************************************************************************)
(* The two are checked in one run: a behaviour is one of the builds, while *)
(* no script is looked at, or one of the script, while no build is.        *)
(***************************************************************************)
NoScript ==
    /\ h_file = NoArg /\ file = NoFile /\ noCheck = FALSE
    /\ phase = "done" /\ next = 1 /\ nb_checks = 0 /\ exit = 0

NoBuild ==
    /\ site = [b \in Builds |-> "none"] /\ pc = [b \in Builds |-> "failed"]
    /\ tmpf = [b \in Builds |-> NoFile] /\ tmp_output = [b \in Builds |-> NoFile]
    /\ mode = [b \in Builds |-> "private"] /\ output = NoFile /\ outMode = "shared"

MCInit == (Init /\ NoScript) \/ (ScriptInit /\ NoBuild)

MCNext ==
    \/ Next /\ UNCHANGED scriptVars
    \/ ScriptNext /\ UNCHANGED vars

MCSpec == MCInit /\ [][MCNext]_<<vars, scriptVars>>
=============================================================================
