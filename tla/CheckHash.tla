------------------------------ MODULE CheckHash ------------------------------
(***************************************************************************)
(* support/download/check-hash as a state machine: one step per line of    *)
(* the .hash file, and the exit codes of the script.                       *)
(***************************************************************************)
EXTENDS HashCode

CONSTANTS HashFiles,    \* the hash-file arguments of interest
          Inputs        \* the contents of the file of interest, or NoFile

ASSUME InputsAssumption ==
    /\ HashFiles \subseteq HashFile \union {NoArg, Missing}
    /\ Inputs \subseteq Contents \union {NoFile}

VARIABLES
    h_file, file, noCheck,  \* the arguments, and BR_NO_CHECK_HASH_FOR
    phase,                  \* "start", "loop" or "done"
    next,                   \* the line `read' returns next
    nb_checks,
    exit                    \* the exit code, meaningful once done

args == <<h_file, file, noCheck>>
scriptVars == <<args, phase, next, nb_checks, exit>>

ScriptTypeOK ==
    /\ h_file \in HashFile \union {NoArg, Missing}
    /\ file \in Contents \union {NoFile}
    /\ noCheck \in BOOLEAN
    /\ phase \in {"start", "loop", "done"}
    /\ next \in Nat \ {0}
    /\ nb_checks \in Nat
    /\ exit \in {0, 2, 3, 4}

ScriptInit ==
    /\ h_file \in HashFiles
    /\ file \in Inputs
    /\ noCheck \in BOOLEAN
    /\ phase = "start"
    /\ next = 1
    /\ nb_checks = 0
    /\ exit = 0

\* Bail early if there is no hash file, else go and read it.
Bail ==
    /\ phase = "start"
    /\ phase' = IF Given(h_file) THEN "loop" ELSE "done"
    /\ UNCHANGED <<args, next, nb_checks, exit>>

\* Mutant: a line that fails is remembered, and a later one overwrites it.
ReadLineNoExit ==
    /\ phase = "loop"
    /\ next <= ReadLen(h_file)
    /\ LET l == h_file.lines[next]
           checked == l.t # "#" /\ l.mine
       IN  /\ nb_checks' = nb_checks + (IF checked THEN 1 ELSE 0)
           /\ exit' = IF checked THEN check_one_hash(l, file) ELSE exit
    /\ next' = next + 1
    /\ UNCHANGED <<args, phase>>

\* One line: a comment and a line about another file are skipped, any other is
\* checked; the first that fails ends the script with its code.
ReadLine ==
    /\ phase = "loop"
    /\ next <= ReadLen(h_file)
    /\ LET l == h_file.lines[next]
           checked == l.t # "#" /\ l.mine
           rc == IF checked THEN check_one_hash(l, file) ELSE 0
       IN  /\ nb_checks' = nb_checks + (IF checked /\ rc = 0 THEN 1 ELSE 0)
           /\ exit' = rc
           /\ phase' = IF rc = 0 THEN "loop" ELSE "done"
    /\ next' = next + 1
    /\ UNCHANGED args

\* End of file: no line about the file is an error, unless it needs none.
EndOfFile ==
    /\ phase = "loop"
    /\ next > ReadLen(h_file)
    /\ exit' = IF nb_checks = 0 /\ ~noCheck THEN 3 ELSE 0
    /\ phase' = "done"
    /\ UNCHANGED <<args, next, nb_checks>>

ScriptNext == Bail \/ ReadLine \/ EndOfFile

ScriptSpec == ScriptInit /\ [][ScriptNext]_scriptVars
-----------------------------------------------------------------------------
\* The script's loop with its early exits computes CheckHashCode: the code of
\* the first failing line, 3 when no line is about the file, else 0.
ExitCode == phase = "done" => exit = CheckHashCode(h_file, file, noCheck)

\* Why it does: no line read so far has failed, and nb_checks says whether one
\* of them was about the file.
LoopInv ==
    /\ phase = "start" => next = 1 /\ nb_checks = 0 /\ exit = 0
    /\ phase = "loop" => /\ Given(h_file)
                         /\ next - 1 <= ReadLen(h_file)
                         /\ Failing(h_file, next - 1, file) = {}
                         /\ nb_checks = 0 <=> Mine(h_file, next - 1) = {}
    /\ ExitCode

\* What the header of the script says of code 0, with a hash file: the file has
\* every digest that file lists for it.  It holds for files whose last line is
\* terminated, as text files are; `while read' passes over a line that is not.
ZeroMatchesAllHashes ==
    phase = "done" /\ exit = 0 /\ Given(h_file) /\ h_file.eol
        => \A i \in DOMAIN h_file.lines :
               LET l == h_file.lines[i]
               IN  l.mine /\ l.t \notin {"#", "none"} => l.t \in KnownTypes /\ l.h = file
=============================================================================
