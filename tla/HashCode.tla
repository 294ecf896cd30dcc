------------------------------ MODULE HashCode ------------------------------
(***************************************************************************)
(* What support/download/check-hash answers: is a file what its .hash file *)
(* says it is?  CheckHash.tla has the script step by step and shows that   *)
(* it computes CheckHashCode; the download wrapper's model uses the        *)
(* operator.                                                               *)
(*                                                                         *)
(* The digest of a file is abstracted to its content (digests do not       *)
(* collide).  A .hash file is a sequence of lines with the three fields    *)
(* the script reads, `t h f', and a flag that says whether its last line   *)
(* ends with a newline: `while read' drops a last line that does not.      *)
(***************************************************************************)
EXTENDS Integers, Sequences

CONSTANTS
    NoArg,      \* the hash-file argument is the empty string
    Missing,    \* the hash-file argument names no regular file
    NoFile,     \* the file to check does not exist: its digest is empty
    Contents    \* the contents a file may have, and so the known digests

KnownTypes == {"sha1", "sha256"}    \* the digest programs of the script
LineTypes  == KnownTypes \union {"none", "#", "unknown"}

\* A line: type, digest, and whether it is about the file being checked.
Line == [t : LineTypes, h : Contents, mine : BOOLEAN]
HashFile == [lines : Seq(Line), eol : BOOLEAN]

ASSUME HashConstants ==
    /\ NoFile \notin Contents
    /\ NoArg \notin HashFile
    /\ Missing \notin HashFile

\* There is a .hash file, as opposed to no argument or no such file.
Given(hf) == hf \notin {NoArg, Missing}

\* The number of lines `while read t h f' gets to see.
ReadLen(hf) == IF hf.eol \/ Len(hf.lines) = 0 THEN Len(hf.lines)
               ELSE Len(hf.lines) - 1

\* The exit code of check_one_hash, 0 for its `return 0'.
check_one_hash(l, c) ==
    CASE l.t = "none"                                  -> 0
      [] l.t \notin KnownTypes /\ l.t # "none"         -> 4
      [] l.t \in KnownTypes /\ l.h = c                 -> 0
      [] l.t \in KnownTypes /\ l.h # c                 -> 2

\* The lines, up to the n-th, that name the file.
Mine(hf, n) == {i \in 1 .. n : hf.lines[i].t # "#" /\ hf.lines[i].mine}

\* Those of them the file fails.
Failing(hf, n, c) == {i \in Mine(hf, n) : check_one_hash(hf.lines[i], c) # 0}

\* What check-hash answers for content c; skip: the file is named by
\* BR_NO_CHECK_HASH_FOR.
CheckHashCode(hf, c, skip) ==
    IF ~Given(hf) THEN 0
    ELSE LET n == ReadLen(hf)
             bad == Failing(hf, n, c)
         IN  IF bad # {}
             THEN check_one_hash(hf.lines[CHOOSE i \in bad : \A j \in bad : i <= j], c)
             ELSE IF Mine(hf, n) = {} /\ ~skip THEN 3 ELSE 0
=============================================================================
