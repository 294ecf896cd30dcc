------------------------------ MODULE Download ------------------------------
(***************************************************************************)
(* Several builds that share BR2_DL_DIR download the same file.            *)
(*                                                                         *)
(* Each build p runs the DOWNLOAD recipe of package/pkg-download.mk: the   *)
(* primary site, the package's own site and the backup site in turn, each  *)
(* through support/download/dl-wrapper, until one succeeds.  The wrapper   *)
(* downloads into a directory of its own, checks the hashes, copies into a *)
(* temporary file beside the output and renames it.                        *)
(*                                                                         *)
(* A step of a build is one command of the wrapper.  Any command may fail, *)
(* except the removals on an error path, and a build may be killed between *)
(* any two.  The wrapper runs under `set -e' and has no trap: a command it *)
(* does not test ends it where it stands, with its temporaries on the disk.*)
(***************************************************************************)
EXTENDS HashCode

CONSTANTS
    Builds,             \* the builds, each downloading the file once
    Delivered,          \* what a backend may leave in tmpf, good or not
    InitialOutput,      \* what DL_DIR may hold at the start: contents, NoFile
    Partial,            \* the content of a file whose copy is not complete
    hfile,              \* the -H argument the recipe passes for each site
    NoCheckFor,         \* BR_NO_CHECK_HASH_FOR names the file
    PrimarySite, PrimarySiteOnly, BackupSite    \* BR2_*_SITE, as flags

Sites == {"primary", "upstream", "backup"}

ASSUME DownloadConstants ==
    /\ Delivered \subseteq Contents
    /\ InitialOutput \subseteq Contents \union {NoFile}
    /\ Partial \notin Contents \union {NoFile}
    /\ hfile \in [Sites -> HashFile \union {NoArg, Missing}]
    /\ NoCheckFor \in BOOLEAN
    /\ {PrimarySite, PrimarySiteOnly, BackupSite} \subseteq BOOLEAN

VARIABLES
    pc,         \* the command each build is about to run
    site,       \* the site it is trying, or "none" when it has no other
    tmpf,       \* the file in the temporary directory it made last
    tmp_output, \* the temporary file it made last, NoFile if that is gone
    mode,       \* the access rights of tmp_output
    output,     \* the file in DL_DIR
    outMode     \* its access rights

vars == <<pc, site, tmpf, tmp_output, mode, output, outMode>>
files == <<tmpf, tmp_output, mode, output, outMode>>

Files == Contents \union {NoFile, Partial}
Finished == {"ok", "failed", "killed"}
Commands == {"exists", "check", "rm", "mktempd", "backend", "verify",
             "mktempo", "chmod", "cat", "rmtmpd", "mv"}

TypeOK ==
    /\ pc \in [Builds -> Commands \union Finished]
    /\ site \in [Builds -> Sites \union {"none"}]
    /\ tmpf \in [Builds -> Files]
    /\ tmp_output \in [Builds -> Files]
    /\ mode \in [Builds -> {"private", "shared"}]
    /\ output \in Files
    /\ outMode \in {"private", "shared"}
-----------------------------------------------------------------------------
(***************************************************************************)
(* DOWNLOAD_INNER: the order in which the sites are tried.                 *)
(***************************************************************************)
AfterPrimary == IF PrimarySiteOnly THEN "none" ELSE "upstream"
FirstSite == IF PrimarySite THEN "primary" ELSE AfterPrimary

NextSite(s) ==
    CASE s = "primary"  -> AfterPrimary
      [] s = "upstream" -> IF BackupSite THEN "backup" ELSE "none"
      [] OTHER          -> "none"

Init ==
    /\ site = [b \in Builds |-> FirstSite]
    /\ pc = [b \in Builds |-> IF FirstSite = "none" THEN "failed" ELSE "exists"]
    /\ tmpf = [b \in Builds |-> NoFile]
    /\ tmp_output = [b \in Builds |-> NoFile]
    /\ mode = [b \in Builds |-> "private"]
    /\ output \in InitialOutput
    /\ outMode = "shared"

Goto(b, label) == pc' = [pc EXCEPT ![b] = label] /\ UNCHANGED site

\* The wrapper of b exits in error: the recipe goes on to the next site.
TryNextSite(b) ==
    LET s == NextSite(site[b])
    IN  /\ site' = [site EXCEPT ![b] = s]
        /\ pc' = [pc EXCEPT ![b] = IF s = "none" THEN "failed" ELSE "exists"]

\* check-hash on content c, with the hash file of b's site.
CheckHash(b, c) == CheckHashCode(hfile[site[b]], c, NoCheckFor)
-----------------------------------------------------------------------------
(***************************************************************************)
(* The commands of the wrapper.                                            *)
(***************************************************************************)
\* if [ -e "${output}" ]
Exists(b) ==
    /\ pc[b] = "exists"
    /\ Goto(b, IF output # NoFile THEN "check" ELSE "mktempd")
    /\ UNCHANGED files

\* Mutant: any failure of the check leads to a re-download.
CheckExistingAnyCode(b) ==
    /\ pc[b] = "check"
    /\ LET code == CheckHash(b, output)
       IN  IF code = 0 THEN Goto(b, "ok") ELSE Goto(b, "rm")
    /\ UNCHANGED files

\* check-hash on the existing output, as it is now: 0 is success, 2 a
\* re-download, any other code a failure that leaves the output alone.
CheckExisting(b) ==
    /\ pc[b] = "check"
    /\ LET code == CheckHash(b, output)
       IN  CASE code = 0 -> Goto(b, "ok")
             [] code = 2 -> Goto(b, "rm")
             [] OTHER    -> TryNextSite(b)
    /\ UNCHANGED files

\* rm -f "${output}", whatever the output has become since it was checked.
RemoveOutput(b) ==
    /\ pc[b] = "rm"
    /\ output' = NoFile
    /\ Goto(b, "mktempd")
    /\ UNCHANGED <<tmpf, tmp_output, mode, outMode>>

\* tmpd="$(mktemp -d ...)" and cd: a new name, so that what an earlier wrapper
\* left behind stays where it is, and is of no further consequence.
MakeTmpd(b) ==
    /\ pc[b] = "mktempd"
    /\ tmpf' = [tmpf EXCEPT ![b] = NoFile]
    /\ Goto(b, "backend")
    /\ UNCHANGED <<tmp_output, mode, output, outMode>>

\* The backend leaves some content in tmpf and says it succeeded.
BackendDelivers(b) ==
    /\ pc[b] = "backend"
    /\ \E c \in Delivered : tmpf' = [tmpf EXCEPT ![b] = c]
    /\ Goto(b, "verify")
    /\ UNCHANGED <<tmp_output, mode, output, outMode>>

\* The backend fails: the temporary directory goes, and the wrapper with it.
BackendFails(b) ==
    /\ pc[b] = "backend"
    /\ TryNextSite(b)
    /\ tmpf' = [tmpf EXCEPT ![b] = NoFile]
    /\ UNCHANGED <<tmp_output, mode, output, outMode>>

\* Mutant: the downloaded file is installed without a look at its hashes.
VerifyNothing(b) ==
    /\ pc[b] = "verify"
    /\ Goto(b, "mktempo")
    /\ UNCHANGED <<tmpf, tmp_output, mode, output, outMode>>

\* check-hash on the downloaded file: any failure removes it.
Verify(b) ==
    /\ pc[b] = "verify"
    /\ IF CheckHash(b, tmpf[b]) = 0
       THEN Goto(b, "mktempo") /\ UNCHANGED tmpf
       ELSE TryNextSite(b) /\ tmpf' = [tmpf EXCEPT ![b] = NoFile]
    /\ UNCHANGED <<tmp_output, mode, output, outMode>>

\* Mutant: the copy is made in place, under the final name.
MakeTmpOutputInPlace(b) ==
    /\ pc[b] = "mktempo"
    /\ tmp_output' = [tmp_output EXCEPT ![b] = Partial]
    /\ output' = Partial
    /\ mode' = [mode EXCEPT ![b] = "private"]
    /\ Goto(b, "chmod")
    /\ UNCHANGED <<tmpf, outMode>>

\* tmp_output="$(mktemp "${output}.XXXXXX")": empty, and mode 0600
MakeTmpOutput(b) ==
    /\ pc[b] = "mktempo"
    /\ tmp_output' = [tmp_output EXCEPT ![b] = Partial]
    /\ mode' = [mode EXCEPT ![b] = "private"]
    /\ Goto(b, "chmod")
    /\ UNCHANGED <<tmpf, output, outMode>>

Chmod(b) ==
    /\ pc[b] = "chmod"
    /\ mode' = [mode EXCEPT ![b] = "shared"]
    /\ Goto(b, "cat")
    /\ UNCHANGED <<tmpf, tmp_output, output, outMode>>

\* cat "${tmpf}" >>"${tmp_output}"; until it ends tmp_output is Partial.
Cat(b) ==
    /\ pc[b] = "cat"
    /\ tmp_output' = [tmp_output EXCEPT ![b] = tmpf[b]]
    /\ Goto(b, "rmtmpd")
    /\ UNCHANGED <<tmpf, mode, output, outMode>>

\* The copy fails: both temporaries go.
CatFails(b) ==
    /\ pc[b] = "cat"
    /\ TryNextSite(b)
    /\ tmpf' = [tmpf EXCEPT ![b] = NoFile]
    /\ tmp_output' = [tmp_output EXCEPT ![b] = NoFile]
    /\ UNCHANGED <<mode, output, outMode>>

RemoveTmpd(b) ==
    /\ pc[b] = "rmtmpd"
    /\ tmpf' = [tmpf EXCEPT ![b] = NoFile]
    /\ Goto(b, "mv")
    /\ UNCHANGED <<tmp_output, mode, output, outMode>>

\* mv -f "${tmp_output}" "${output}", a rename(); the wrapper succeeds.
Move(b) ==
    /\ pc[b] = "mv"
    /\ output' = tmp_output[b]
    /\ outMode' = mode[b]
    /\ tmp_output' = [tmp_output EXCEPT ![b] = NoFile]
    /\ Goto(b, "ok")
    /\ UNCHANGED <<tmpf, mode>>

\* Mutant: the failure of mv is cleaned up after but not reported.
MoveFailsSilently(b) ==
    /\ pc[b] = "mv"
    /\ tmp_output' = [tmp_output EXCEPT ![b] = NoFile]
    /\ Goto(b, "ok")
    /\ UNCHANGED <<tmpf, mode, output, outMode>>

MoveFails(b) ==
    /\ pc[b] = "mv"
    /\ tmp_output' = [tmp_output EXCEPT ![b] = NoFile]
    /\ TryNextSite(b)
    /\ UNCHANGED <<tmpf, mode, output, outMode>>

\* `set -e': a command whose failure the wrapper does not test fails, and the
\* wrapper ends on the spot; the recipe tries the next site all the same.  The
\* temporaries stay on the disk.
SetE(b) ==
    /\ pc[b] \in {"rm", "mktempd", "mktempo", "chmod", "rmtmpd"}
    /\ TryNextSite(b)
    /\ UNCHANGED files

\* The whole build is interrupted; its temporaries stay as well.
Kill(b) ==
    /\ pc[b] \in Commands
    /\ Goto(b, "killed")
    /\ UNCHANGED files

Command(b) ==
    \/ Exists(b)          \/ CheckExisting(b) \/ RemoveOutput(b)
    \/ MakeTmpd(b)        \/ BackendDelivers(b) \/ BackendFails(b)
    \/ Verify(b)          \/ MakeTmpOutput(b) \/ Chmod(b)
    \/ Cat(b)             \/ CatFails(b)      \/ RemoveTmpd(b)
    \/ Move(b)            \/ MoveFails(b)     \/ SetE(b)

Next == \E b \in Builds : Command(b) \/ Kill(b)

Spec == Init /\ [][Next]_vars
-----------------------------------------------------------------------------
(***************************************************************************)
(* Properties.                                                             *)
(***************************************************************************)
\* The contents some site's hash file accepts.
Verified == {c \in Contents :
                \E s \in Sites : CheckHashCode(hfile[s], c, NoCheckFor) = 0}

\* Whatever comes to stand under the final name while the builds run, wherever
\* they fail or are killed, is a complete download that passed check-hash.
OutputVerified == [][output' # output => output' \in Verified \union {NoFile}]_vars

\* The file under its final name is never left with the 0600 of mktemp: the
\* users who share the directory can read it.
OutputShared == outMode = "shared"

\* When every build says it succeeded the file is there and has been checked,
\* although each may have removed what another had installed.
AllOkMeansVerified ==
    Builds # {} /\ (\A b \in Builds : pc[b] = "ok") => output \in Verified

(***************************************************************************)
(* The strengthening that makes them inductive: what is known of a build's *)
(* temporaries at each command, and of the output between commands.        *)
(***************************************************************************)
SitesLeft == \A b \in Builds : pc[b] \in Commands => site[b] \in Sites

\* What the directory holds: what it held at the start, or a verified file.
OutputKnown == output \in InitialOutput \union Verified \union {NoFile}

\* Past check-hash the downloaded file is one it accepted, past cat so is the
\* temporary output, and past chmod its rights are those of a shared file.
TemporariesVerified == \A b \in Builds :
    /\ pc[b] = "verify" => tmpf[b] \in Contents
    /\ pc[b] \in {"mktempo", "chmod", "cat", "rmtmpd"} => tmpf[b] \in Verified
    /\ pc[b] \in {"rmtmpd", "mv"} => tmp_output[b] \in Verified
    /\ pc[b] \in {"cat", "rmtmpd", "mv"} => mode[b] = "shared"

\* Somebody saw the output verified, or it has been removed since; and while it
\* is missing one build is neither content with it nor about to judge it.
SuccessInv ==
    /\ (\E b \in Builds : pc[b] = "ok") => output \in Verified \union {NoFile}
    /\ Builds # {} /\ output = NoFile => \E b \in Builds : pc[b] \notin {"check", "ok"}

IInv == /\ TypeOK
        /\ SitesLeft
        /\ TemporariesVerified
        /\ OutputKnown
        /\ OutputShared
        /\ SuccessInv

\* The contents no site's hash file refutes.  A site whose hash file has no line
\* for the file cannot verify it, and must not discard it either.
Unrefuted == {c \in Contents :
                \A s \in Sites : CheckHashCode(hfile[s], c, NoCheckFor) # 2}

\* A file that was there at the start and that no hash file refutes is never
\* removed or replaced by a worse one, through all sites and builds.
UnrefutedIsKept == output \in Unrefuted => [](output \in Unrefuted)

\* "Ensures that concurrent downloads do not conflict" (the help text): a
\* verified file that one build has installed is not taken away by another.
NoConflict == [][(output \in Verified) => (output' \in Verified)]_vars

\* The abstract download directory that the wrappers implement.  A recipe that
\* passes an empty -H accepts what it finds, a file that has gone included.
Answered(code) == {c \in Contents \union {NoFile} :
                      \E s \in Sites : CheckHashCode(hfile[s], c, NoCheckFor) = code}

CacheStatus == [b \in Builds |-> CASE pc[b] = "rm" -> "evicting"
                                   [] pc[b] \in Commands \ {"rm"} -> "running"
                                   [] OTHER -> pc[b]]

Cache == INSTANCE DownloadCache
    WITH Users <- Builds, Acceptable <- Answered(0), Refutable <- Answered(2),
         file <- output, status <- CacheStatus

CacheSpec == Cache!Spec
=============================================================================
