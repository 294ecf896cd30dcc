-------------------------- MODULE Download_proofs --------------------------
(***************************************************************************)
(* The download wrapper for any number of builds, any contents, any hash   *)
(* files and any choice of sites, and the script it checks the hashes      *)
(* with, for every .hash file.                                             *)
(***************************************************************************)
EXTENDS Download, CheckHash, TLAPS

(***************************************************************************)
(* An accepted content is a content, neither a missing nor a partial file. *)
(***************************************************************************)
LEMMA VerifiedContents ==
    /\ Verified \subseteq Contents
    /\ NoFile \notin Contents /\ Partial \notin Contents /\ Partial # NoFile
BY HashConstants, DownloadConstants DEF Verified

LEMMA NextSiteType ==
    ASSUME NEW s PROVE NextSite(s) \in Sites \union {"none"}
BY DEF NextSite, AfterPrimary, Sites

LEMMA InitIInv == Init => IInv
<1> SUFFICES ASSUME Init PROVE IInv
  OBVIOUS
<1>1. FirstSite \in Sites \union {"none"}
  BY DEF FirstSite, AfterPrimary, Sites
<1>2. TypeOK
  BY <1>1, DownloadConstants DEF Init, TypeOK, Files, Commands, Finished
<1>3. SitesLeft /\ TemporariesVerified
  BY <1>1 DEF Init, SitesLeft, TemporariesVerified, Commands
<1>4. OutputKnown /\ OutputShared
  BY DEF Init, OutputKnown, OutputShared
<1>5. SuccessInv
  BY DEF Init, SuccessInv
<1>6. QED
  BY <1>2, <1>3, <1>4, <1>5 DEF IInv

(***************************************************************************)
(* Every command and every kill preserves the invariant.                   *)
(***************************************************************************)
LEMMA CommandIInv ==
    ASSUME IInv, NEW b \in Builds, Command(b) \/ Kill(b)
    PROVE  IInv'
<1> USE VerifiedContents, NextSiteType DEF IInv
<1>1. CASE Exists(b)
  <2>1. TypeOK'
    BY <1>1 DEF Exists, Goto, files, TypeOK, Files, Commands, Finished
  <2>2. SitesLeft'
    BY <1>1 DEF Exists, Goto, files, TypeOK, SitesLeft, Commands
  <2>3. TemporariesVerified'
    BY <1>1 DEF Exists, Goto, files, TypeOK, SitesLeft, TemporariesVerified, Commands
  <2>4. OutputKnown' /\ OutputShared'
    BY <1>1 DEF Exists, Goto, files, OutputKnown, OutputShared, TemporariesVerified
  <2>5. SuccessInv'
    BY <1>1 DEF Exists, Goto, files, TypeOK, SuccessInv, TemporariesVerified
  <2>6. QED
    BY <2>1, <2>2, <2>3, <2>4, <2>5
<1>2. CASE CheckExisting(b)
  <2> DEFINE code == CheckHash(b, output)
  <2>1. /\ pc[b] = "check" /\ UNCHANGED files
        /\ \/ code = 0 /\ Goto(b, "ok")
           \/ code # 0 /\ Goto(b, "rm")
           \/ code # 0 /\ TryNextSite(b)
    BY <1>2 DEF CheckExisting
  <2>2. TypeOK'
    BY <2>1 DEF Goto, TryNextSite, files, TypeOK, Commands, Finished
  <2>3. SitesLeft' /\ TemporariesVerified'
    BY <2>1 DEF Goto, TryNextSite, files, TypeOK, SitesLeft, TemporariesVerified, Commands
  <2>4. OutputKnown' /\ OutputShared'
    BY <2>1 DEF files, OutputKnown, OutputShared
  <2>5. SuccessInv'
    <3>1. output # Partial
      BY <1>2, DownloadConstants DEF OutputKnown
    <3>2. code = 0 => output \in Verified \union {NoFile}
      <4>1. site[b] \in Sites
        BY <2>1 DEF SitesLeft, Commands
      <4>2. output \in Contents \union {NoFile}
        BY <3>1 DEF TypeOK, Files
      <4>3. QED
        BY <4>1, <4>2 DEF CheckHash, Verified
    <3>3. QED
      BY <2>1, <3>2 DEF Goto, TryNextSite, files, TypeOK, SuccessInv
  <2>6. QED
    BY <2>2, <2>3, <2>4, <2>5
<1>3. CASE RemoveOutput(b)
  <2>1. TypeOK'
    BY <1>3 DEF RemoveOutput, Goto, TypeOK, Files, Commands, Finished
  <2>2. SitesLeft'
    BY <1>3 DEF RemoveOutput, Goto, TypeOK, SitesLeft, Commands
  <2>3. TemporariesVerified'
    BY <1>3 DEF RemoveOutput, Goto, TypeOK, SitesLeft, TemporariesVerified, Commands
  <2>4. OutputKnown' /\ OutputShared'
    BY <1>3 DEF RemoveOutput, Goto, OutputKnown, OutputShared, TemporariesVerified
  <2>5. SuccessInv'
    BY <1>3 DEF RemoveOutput, Goto, TypeOK, SuccessInv, TemporariesVerified
  <2>6. QED
    BY <2>1, <2>2, <2>3, <2>4, <2>5
<1>4. CASE MakeTmpd(b)
  <2>1. TypeOK'
    BY <1>4 DEF MakeTmpd, Goto, TypeOK, Files, Commands, Finished
  <2>2. SitesLeft'
    BY <1>4 DEF MakeTmpd, Goto, TypeOK, SitesLeft, Commands
  <2>3. TemporariesVerified'
    BY <1>4 DEF MakeTmpd, Goto, TypeOK, SitesLeft, TemporariesVerified, Commands
  <2>4. OutputKnown' /\ OutputShared'
    BY <1>4 DEF MakeTmpd, Goto, OutputKnown, OutputShared, TemporariesVerified
  <2>5. SuccessInv'
    BY <1>4 DEF MakeTmpd, Goto, TypeOK, SuccessInv, TemporariesVerified
  <2>6. QED
    BY <2>1, <2>2, <2>3, <2>4, <2>5
<1>5. CASE BackendDelivers(b)
  <2>1. TypeOK'
    BY <1>5, DownloadConstants DEF BackendDelivers, Goto, TypeOK, Files, Commands, Finished
  <2>2. SitesLeft'
    BY <1>5, DownloadConstants DEF BackendDelivers, Goto, TypeOK, SitesLeft, Commands
  <2>3. TemporariesVerified'
    BY <1>5, DownloadConstants DEF BackendDelivers, Goto, TypeOK, SitesLeft, TemporariesVerified, Commands
  <2>4. OutputKnown' /\ OutputShared'
    BY <1>5 DEF BackendDelivers, Goto, OutputKnown, OutputShared, TemporariesVerified
  <2>5. SuccessInv'
    BY <1>5 DEF BackendDelivers, Goto, TypeOK, SuccessInv, TemporariesVerified
  <2>6. QED
    BY <2>1, <2>2, <2>3, <2>4, <2>5
<1>6. CASE BackendFails(b)
  <2>1. TypeOK'
    BY <1>6 DEF BackendFails, TryNextSite, TypeOK, Files, Commands, Finished
  <2>2. SitesLeft'
    BY <1>6 DEF BackendFails, TryNextSite, TypeOK, SitesLeft, Commands
  <2>3. TemporariesVerified'
    BY <1>6 DEF BackendFails, TryNextSite, TypeOK, SitesLeft, TemporariesVerified, Commands
  <2>4. OutputKnown' /\ OutputShared'
    BY <1>6 DEF BackendFails, TryNextSite, OutputKnown, OutputShared, TemporariesVerified
  <2>5. SuccessInv'
    BY <1>6 DEF BackendFails, TryNextSite, TypeOK, SuccessInv, TemporariesVerified
  <2>6. QED
    BY <2>1, <2>2, <2>3, <2>4, <2>5
<1>7. CASE Verify(b)
  <2>1. TypeOK'
    BY <1>7 DEF Verify, CheckHash, Goto, TryNextSite, TypeOK, Files, Commands, Finished
  <2>2. SitesLeft'
    BY <1>7 DEF Verify, CheckHash, Goto, TryNextSite, TypeOK, SitesLeft, Commands
  <2>3. TemporariesVerified'
    BY <1>7 DEF Verify, CheckHash, Goto, TryNextSite, TypeOK, SitesLeft, TemporariesVerified, Commands, Verified
  <2>4. OutputKnown' /\ OutputShared'
    BY <1>7 DEF Verify, CheckHash, Goto, TryNextSite, OutputKnown, OutputShared, TemporariesVerified
  <2>5. SuccessInv'
    BY <1>7 DEF Verify, CheckHash, Goto, TryNextSite, TypeOK, SuccessInv, TemporariesVerified
  <2>6. QED
    BY <2>1, <2>2, <2>3, <2>4, <2>5
<1>8. CASE MakeTmpOutput(b)
  <2>1. TypeOK'
    BY <1>8 DEF MakeTmpOutput, Goto, TypeOK, Files, Commands, Finished
  <2>2. SitesLeft'
    BY <1>8 DEF MakeTmpOutput, Goto, TypeOK, SitesLeft, Commands
  <2>3. TemporariesVerified'
    BY <1>8 DEF MakeTmpOutput, Goto, TypeOK, SitesLeft, TemporariesVerified, Commands
  <2>4. OutputKnown' /\ OutputShared'
    BY <1>8 DEF MakeTmpOutput, Goto, OutputKnown, OutputShared, TemporariesVerified
  <2>5. SuccessInv'
    BY <1>8 DEF MakeTmpOutput, Goto, TypeOK, SuccessInv, TemporariesVerified
  <2>6. QED
    BY <2>1, <2>2, <2>3, <2>4, <2>5
<1>9. CASE Chmod(b)
  <2>1. TypeOK'
    BY <1>9 DEF Chmod, Goto, TypeOK, Files, Commands, Finished
  <2>2. SitesLeft'
    BY <1>9 DEF Chmod, Goto, TypeOK, SitesLeft, Commands
  <2>3. TemporariesVerified'
    BY <1>9 DEF Chmod, Goto, TypeOK, SitesLeft, TemporariesVerified, Commands
  <2>4. OutputKnown' /\ OutputShared'
    BY <1>9 DEF Chmod, Goto, OutputKnown, OutputShared, TemporariesVerified
  <2>5. SuccessInv'
    BY <1>9 DEF Chmod, Goto, TypeOK, SuccessInv, TemporariesVerified
  <2>6. QED
    BY <2>1, <2>2, <2>3, <2>4, <2>5
<1>10. CASE Cat(b)
  <2>1. TypeOK'
    BY <1>10 DEF Cat, Goto, TypeOK, Files, Commands, Finished, TemporariesVerified
  <2>2. SitesLeft'
    BY <1>10 DEF Cat, Goto, TypeOK, SitesLeft, Commands
  <2>3. TemporariesVerified'
    BY <1>10 DEF Cat, Goto, TypeOK, SitesLeft, TemporariesVerified, Commands
  <2>4. OutputKnown' /\ OutputShared'
    BY <1>10 DEF Cat, Goto, OutputKnown, OutputShared, TemporariesVerified
  <2>5. SuccessInv'
    BY <1>10 DEF Cat, Goto, TypeOK, SuccessInv, TemporariesVerified
  <2>6. QED
    BY <2>1, <2>2, <2>3, <2>4, <2>5
<1>11. CASE CatFails(b)
  <2>1. TypeOK'
    BY <1>11 DEF CatFails, TryNextSite, TypeOK, Files, Commands, Finished
  <2>2. SitesLeft'
    BY <1>11 DEF CatFails, TryNextSite, TypeOK, SitesLeft, Commands
  <2>3. TemporariesVerified'
    BY <1>11 DEF CatFails, TryNextSite, TypeOK, SitesLeft, TemporariesVerified, Commands
  <2>4. OutputKnown' /\ OutputShared'
    BY <1>11 DEF CatFails, TryNextSite, OutputKnown, OutputShared, TemporariesVerified
  <2>5. SuccessInv'
    BY <1>11 DEF CatFails, TryNextSite, TypeOK, SuccessInv, TemporariesVerified
  <2>6. QED
    BY <2>1, <2>2, <2>3, <2>4, <2>5
<1>12. CASE RemoveTmpd(b)
  <2>1. TypeOK'
    BY <1>12 DEF RemoveTmpd, Goto, TypeOK, Files, Commands, Finished
  <2>2. SitesLeft'
    BY <1>12 DEF RemoveTmpd, Goto, TypeOK, SitesLeft, Commands
  <2>3. TemporariesVerified'
    BY <1>12 DEF RemoveTmpd, Goto, TypeOK, SitesLeft, TemporariesVerified, Commands
  <2>4. OutputKnown' /\ OutputShared'
    BY <1>12 DEF RemoveTmpd, Goto, OutputKnown, OutputShared, TemporariesVerified
  <2>5. SuccessInv'
    BY <1>12 DEF RemoveTmpd, Goto, TypeOK, SuccessInv, TemporariesVerified
  <2>6. QED
    BY <2>1, <2>2, <2>3, <2>4, <2>5
<1>13. CASE Move(b)
  <2>1. TypeOK'
    BY <1>13 DEF Move, Goto, TypeOK, Files, Commands, Finished, TemporariesVerified
  <2>2. SitesLeft'
    BY <1>13 DEF Move, Goto, TypeOK, SitesLeft, Commands
  <2>3. TemporariesVerified'
    BY <1>13 DEF Move, Goto, TypeOK, SitesLeft, TemporariesVerified, Commands
  <2>4. OutputKnown' /\ OutputShared'
    BY <1>13 DEF Move, Goto, OutputKnown, OutputShared, TemporariesVerified
  <2>5. SuccessInv'
    BY <1>13 DEF Move, Goto, TypeOK, SuccessInv, TemporariesVerified
  <2>6. QED
    BY <2>1, <2>2, <2>3, <2>4, <2>5
<1>14. CASE MoveFails(b)
  <2>1. TypeOK'
    BY <1>14 DEF MoveFails, TryNextSite, TypeOK, Files, Commands, Finished
  <2>2. SitesLeft'
    BY <1>14 DEF MoveFails, TryNextSite, TypeOK, SitesLeft, Commands
  <2>3. TemporariesVerified'
    BY <1>14 DEF MoveFails, TryNextSite, TypeOK, SitesLeft, TemporariesVerified, Commands
  <2>4. OutputKnown' /\ OutputShared'
    BY <1>14 DEF MoveFails, TryNextSite, OutputKnown, OutputShared, TemporariesVerified
  <2>5. SuccessInv'
    BY <1>14 DEF MoveFails, TryNextSite, TypeOK, SuccessInv, TemporariesVerified
  <2>6. QED
    BY <2>1, <2>2, <2>3, <2>4, <2>5
<1>15. CASE SetE(b)
  <2>1. TypeOK'
    BY <1>15 DEF SetE, TryNextSite, files, TypeOK, Files, Commands, Finished
  <2>2. SitesLeft'
    BY <1>15 DEF SetE, TryNextSite, TypeOK, SitesLeft, Commands
  <2>3. TemporariesVerified'
    BY <1>15 DEF SetE, TryNextSite, files, TypeOK, TemporariesVerified, Commands
  <2>4. OutputKnown' /\ OutputShared'
    BY <1>15 DEF SetE, files, OutputKnown, OutputShared
  <2>5. SuccessInv'
    BY <1>15 DEF SetE, TryNextSite, files, TypeOK, SuccessInv
  <2>6. QED
    BY <2>1, <2>2, <2>3, <2>4, <2>5
<1>16. CASE Kill(b)
  <2>1. TypeOK'
    BY <1>16 DEF Kill, Goto, files, TypeOK, Files, Commands, Finished
  <2>2. SitesLeft'
    BY <1>16 DEF Kill, Goto, TypeOK, SitesLeft, Commands
  <2>3. TemporariesVerified'
    BY <1>16 DEF Kill, Goto, files, TypeOK, TemporariesVerified, Commands
  <2>4. OutputKnown' /\ OutputShared'
    BY <1>16 DEF Kill, files, OutputKnown, OutputShared
  <2>5. SuccessInv'
    BY <1>16 DEF Kill, Goto, files, TypeOK, SuccessInv, Commands
  <2>6. QED
    BY <2>1, <2>2, <2>3, <2>4, <2>5
<1>17. QED
  BY <1>1, <1>2, <1>3, <1>4, <1>5, <1>6, <1>7, <1>8, <1>9, <1>10, <1>11, <1>12, <1>13, <1>14, <1>15, <1>16 DEF Command

LEMMA SpecIInv == Spec => []IInv
<1>1. IInv /\ UNCHANGED vars => IInv'
  BY DEF IInv, vars, TypeOK, SitesLeft, TemporariesVerified,
         OutputKnown, OutputShared, SuccessInv
<1>2. IInv /\ [Next]_vars => IInv'
  BY <1>1, CommandIInv DEF Next
<1>3. QED
  BY InitIInv, <1>2, PTL DEF Spec
-----------------------------------------------------------------------------
(***************************************************************************)
(* Every variable of the wrapper's model keeps its type.                   *)
(***************************************************************************)
THEOREM TypeCorrect == Spec => []TypeOK
<1>1. IInv => TypeOK
  BY DEF IInv
<1>2. QED
  BY <1>1, SpecIInv, PTL

(***************************************************************************)
(* What a step puts under the final name has been verified: only Move puts *)
(* a file there.                                                           *)
(***************************************************************************)
LEMMA CommandOutput ==
    ASSUME IInv, NEW b \in Builds, Command(b) \/ Kill(b), output' # output
    PROVE  output' \in Verified \union {NoFile}
<1>1. RemoveOutput(b) \/ Move(b)
  BY DEF Command, Exists, CheckExisting, MakeTmpd, BackendDelivers, BackendFails,
         Verify, MakeTmpOutput, Chmod, Cat, CatFails, RemoveTmpd, MoveFails,
         SetE, Kill, files
<1>2. CASE RemoveOutput(b)
  BY <1>2 DEF RemoveOutput
<1>3. CASE Move(b)
  BY <1>3 DEF Move, IInv, TemporariesVerified
<1>4. QED
  BY <1>1, <1>2, <1>3

(***************************************************************************)
(* What comes to stand under the final name is never partial and never a   *)
(* download check-hash refused, whatever fails and whoever is killed.      *)
(***************************************************************************)
THEOREM OutputIsVerified == Spec => OutputVerified
<1>1. IInv /\ [Next]_vars => [output' # output => output' \in Verified \union {NoFile}]_vars
  BY CommandOutput DEF Next, vars
<1>2. QED
  BY <1>1, SpecIInv, PTL DEF Spec, OutputVerified

(***************************************************************************)
(* The installed file never keeps the rights mktemp gave it.               *)
(***************************************************************************)
THEOREM OutputIsShared == Spec => []OutputShared
<1>1. IInv => OutputShared
  BY DEF IInv
<1>2. QED
  BY <1>1, SpecIInv, PTL

(***************************************************************************)
(* When all builds succeed the file is installed and verified, however     *)
(* their checks, removals and renames interleave.                          *)
(***************************************************************************)
THEOREM SuccessIsShared == Spec => []AllOkMeansVerified
<1>1. IInv => AllOkMeansVerified
  BY DEF IInv, SuccessInv, AllOkMeansVerified
<1>2. QED
  BY <1>1, SpecIInv, PTL
-----------------------------------------------------------------------------
(***************************************************************************)
(* Every step of the wrappers is a step of the abstract download directory *)
(* or leaves it alone.                                                     *)
(***************************************************************************)
StatusOf(l) == CASE l = "rm" -> "evicting"
                 [] l \in Commands \ {"rm"} -> "running"
                 [] OTHER -> l

LEMMA StatusStep ==
    ASSUME IInv, NEW b \in Builds, NEW l \in Commands \union Finished,
           pc' = [pc EXCEPT ![b] = l]
    PROVE  /\ CacheStatus[b] = StatusOf(pc[b])
           /\ CacheStatus' = [CacheStatus EXCEPT ![b] = StatusOf(l)]
BY DEF IInv, TypeOK, CacheStatus, StatusOf

\* A command that leaves the output alone and goes on, or gives up.
LEMMA QuietStep ==
    ASSUME IInv, NEW b \in Builds, pc[b] \in Commands, UNCHANGED output,
           NEW l \in (Commands \ {"rm"}) \union {"failed", "killed"},
           pc' = [pc EXCEPT ![b] = l]
    PROVE  \/ UNCHANGED <<output, CacheStatus>>
           \/ Cache!Spare(b)
           \/ Cache!GiveUp(b)
<1>1. l \in Commands \union Finished /\ pc[b] \in Commands \union Finished
  BY DEF Finished
<1>2. CacheStatus[b] = StatusOf(pc[b]) /\ CacheStatus' = [CacheStatus EXCEPT ![b] = StatusOf(l)]
  BY <1>1, StatusStep
<1>3. StatusOf(pc[b]) = IF pc[b] = "rm" THEN "evicting" ELSE "running"
  BY DEF StatusOf
<1>4. CASE l \in {"failed", "killed"}
  <2>1. StatusOf(l) = l
    BY <1>4 DEF StatusOf, Commands
  <2>2. QED
    BY <1>2, <1>3, <1>4, <2>1 DEF Cache!GiveUp, Cache!Become, CacheStatus, StatusOf
<1>5. CASE l \in Commands \ {"rm"}
  <2>1. StatusOf(l) = "running"
    BY <1>5 DEF StatusOf
  <2>2. CASE pc[b] = "rm"
    BY <1>2, <1>3, <2>1, <2>2 DEF Cache!Spare, Cache!Become, CacheStatus, StatusOf
  <2>3. CASE pc[b] # "rm"
    <3>1. CacheStatus' = [CacheStatus EXCEPT ![b] = CacheStatus[b]]
      BY <1>2, <1>3, <2>1, <2>3
    <3>2. CacheStatus' = CacheStatus
      BY <3>1 DEF CacheStatus
    <3>3. QED
      BY <3>2
  <2>4. QED
    BY <2>2, <2>3
<1>6. QED
  BY <1>4, <1>5

LEMMA CommandRefines ==
    ASSUME IInv, NEW b \in Builds, Command(b) \/ Kill(b)
    PROVE  UNCHANGED <<output, CacheStatus>> \/ Cache!Next
<1>1. pc \in [Builds -> Commands \union Finished] /\ site \in [Builds -> Sites \union {"none"}]
  BY DEF IInv, TypeOK
<1>2. ASSUME pc[b] \in Commands, TryNextSite(b)
      PROVE  \E l \in (Commands \ {"rm"}) \union {"failed", "killed"} : pc' = [pc EXCEPT ![b] = l]
  BY <1>2 DEF TryNextSite, Commands
<1>3. ASSUME pc[b] \in Commands, UNCHANGED output,
             \E l \in (Commands \ {"rm"}) \union {"failed", "killed"} : pc' = [pc EXCEPT ![b] = l]
      PROVE  UNCHANGED <<output, CacheStatus>> \/ Cache!Next
  BY <1>3, QuietStep DEF Cache!Next
<1>4. CASE \/ Exists(b) \/ MakeTmpd(b) \/ BackendDelivers(b) \/ MakeTmpOutput(b)
           \/ Chmod(b) \/ Cat(b) \/ RemoveTmpd(b) \/ Kill(b)
  <2>1. \E l \in (Commands \ {"rm"}) \union {"failed", "killed"} :
            pc[b] \in Commands /\ Goto(b, l) /\ UNCHANGED output
    BY <1>4 DEF Exists, MakeTmpd, BackendDelivers, MakeTmpOutput, Chmod, Cat,
                RemoveTmpd, Kill, files, Commands
  <2>2. QED
    BY <2>1, <1>3 DEF Goto
<1>5. CASE BackendFails(b) \/ CatFails(b) \/ MoveFails(b) \/ SetE(b)
  <2>1. pc[b] \in Commands /\ TryNextSite(b) /\ UNCHANGED output
    BY <1>5 DEF BackendFails, CatFails, MoveFails, SetE, files, Commands
  <2>2. QED
    BY <2>1, <1>2, <1>3
<1>6. CASE Verify(b)
  <2>1. pc[b] \in Commands /\ UNCHANGED output /\ (Goto(b, "mktempo") \/ TryNextSite(b))
    BY <1>6 DEF Verify, Commands
  <2>2. "mktempo" \in Commands \ {"rm"}
    BY DEF Commands
  <2>3. QED
    BY <2>1, <2>2, <1>2, <1>3 DEF Goto
<1>7. CASE CheckExisting(b)
  <2>1. /\ pc[b] = "check" /\ pc[b] \in Commands /\ UNCHANGED output
        /\ \/ CheckHash(b, output) = 0 /\ Goto(b, "ok")
           \/ CheckHash(b, output) = 2 /\ Goto(b, "rm")
           \/ TryNextSite(b)
    BY <1>7 DEF CheckExisting, files, Commands
  <2>2. site[b] \in Sites
    BY <2>1 DEF IInv, SitesLeft
  <2>3. output \in Contents \union {NoFile}
    BY VerifiedContents, DownloadConstants DEF IInv, OutputKnown
  <2>4. CacheStatus[b] = "running"
    BY <1>1, <2>1 DEF CacheStatus, StatusOf
  <2>5. CASE CheckHash(b, output) = 0 /\ Goto(b, "ok")
    <3>1. output \in Answered(0)
      BY <2>2, <2>3, <2>5 DEF CheckHash, Answered
    <3>2. "ok" \in Finished /\ StatusOf("ok") = "ok"
      BY DEF Finished, StatusOf, Commands
    <3>3. CacheStatus' = [CacheStatus EXCEPT ![b] = "ok"]
      BY <2>5, <3>2, StatusStep DEF Goto
    <3>4. Cache!Use(b)
      BY <2>1, <2>4, <3>1, <3>3 DEF Cache!Use, Cache!Become, CacheStatus, StatusOf
    <3>5. QED
      BY <3>4 DEF Cache!Next
  <2>6. CASE CheckHash(b, output) = 2 /\ Goto(b, "rm")
    <3>1. output \in Answered(2)
      BY <2>2, <2>3, <2>6 DEF CheckHash, Answered
    <3>2. "rm" \in Commands /\ StatusOf("rm") = "evicting"
      BY DEF StatusOf, Commands
    <3>3. CacheStatus' = [CacheStatus EXCEPT ![b] = "evicting"]
      BY <2>6, <3>2, StatusStep DEF Goto
    <3>4. Cache!Condemn(b)
      BY <2>1, <2>4, <3>1, <3>3 DEF Cache!Condemn, Cache!Become, CacheStatus, StatusOf
    <3>5. QED
      BY <3>4 DEF Cache!Next
  <2>7. QED
    BY <2>1, <2>5, <2>6, <1>2, <1>3
<1>8. CASE RemoveOutput(b)
  <2>1. pc[b] = "rm" /\ Goto(b, "mktempd") /\ output' = NoFile
    BY <1>8 DEF RemoveOutput
  <2>2. "mktempd" \in Commands /\ StatusOf("mktempd") = "running"
    BY DEF StatusOf, Commands
  <2>3. CacheStatus[b] = "evicting"
    BY <1>1, <2>1 DEF CacheStatus, StatusOf
  <2>4. CacheStatus' = [CacheStatus EXCEPT ![b] = "running"]
    BY <2>1, <2>2, StatusStep DEF Goto
  <2>5. Cache!Evict(b)
    BY <2>1, <2>3, <2>4 DEF Cache!Evict, Cache!Become, CacheStatus, StatusOf
  <2>6. QED
    BY <2>5 DEF Cache!Next
<1>9. CASE Move(b)
  <2>1. pc[b] = "mv" /\ Goto(b, "ok") /\ output' = tmp_output[b]
    BY <1>9 DEF Move
  <2>2. output' \in Answered(0) \ {NoFile}
    BY <2>1, VerifiedContents DEF IInv, TemporariesVerified, Verified, Answered
  <2>3. CacheStatus[b] = "running"
    BY <1>1, <2>1 DEF CacheStatus, StatusOf, Commands
  <2>4. "ok" \in Finished /\ StatusOf("ok") = "ok"
    BY DEF Finished, StatusOf, Commands
  <2>5. CacheStatus' = [CacheStatus EXCEPT ![b] = "ok"]
    BY <2>1, <2>4, StatusStep DEF Goto
  <2>6. Cache!Install(b)
    BY <2>2, <2>3, <2>5 DEF Cache!Install, Cache!Become, CacheStatus, StatusOf
  <2>7. QED
    BY <2>6 DEF Cache!Next
<1>10. QED
  BY <1>4, <1>5, <1>6, <1>7, <1>8, <1>9 DEF Command

(***************************************************************************)
(* The wrappers implement the abstract download directory, for any builds, *)
(* any sites and any hash files, an empty -H included.                     *)
(***************************************************************************)
THEOREM WrapperRefines == Spec => CacheSpec
<1>1. Init => Cache!Init
  BY DEF Init, Cache!Init, CacheStatus, Commands
<1>2. IInv /\ [Next]_vars => [Cache!Next]_<<output, CacheStatus>>
  <2>1. UNCHANGED vars => UNCHANGED <<output, CacheStatus>>
    BY DEF vars, CacheStatus
  <2>2. QED
    BY <2>1, CommandRefines DEF Next
<1>3. QED
  BY <1>1, <1>2, SpecIInv, PTL DEF Spec, CacheSpec, Cache!Spec

-----------------------------------------------------------------------------
(***************************************************************************)
(* While the output is a file no hash file refutes, no build gets past its *)
(* check of the existing file.                                             *)
(***************************************************************************)
KeptInv ==
    /\ output \in Unrefuted
    /\ \A b \in Builds : pc[b] \in {"exists", "check"} \union Finished

LEMMA KeptStep ==
    ASSUME IInv, KeptInv, NEW b \in Builds, Command(b) \/ Kill(b)
    PROVE  KeptInv'
<1> USE DEF KeptInv
<1>1. pc \in [Builds -> Commands \union Finished]
  BY DEF IInv, TypeOK
<1>2. pc[b] \in {"exists", "check"}
  BY DEF Command, Kill, Finished, Commands, Exists, CheckExisting, RemoveOutput, MakeTmpd,
         BackendDelivers, BackendFails, Verify, MakeTmpOutput, Chmod, Cat, CatFails,
         RemoveTmpd, Move, MoveFails, SetE
<1>3. ASSUME NEW l \in {"exists", "check"} \union Finished, pc' = [pc EXCEPT ![b] = l],
             UNCHANGED output
      PROVE  KeptInv'
  BY <1>1, <1>3
<1>4. ASSUME TryNextSite(b), UNCHANGED output
      PROVE  KeptInv'
  <2> DEFINE l == IF NextSite(site[b]) = "none" THEN "failed" ELSE "exists"
  <2>1. l \in {"exists", "check"} \union Finished /\ pc' = [pc EXCEPT ![b] = l]
    BY <1>4 DEF TryNextSite, Finished
  <2> QED
    BY <1>3, <1>4, <2>1
<1>5. CASE Exists(b)
  <2>1. output # NoFile
    BY VerifiedContents DEF Unrefuted
  <2>2. Goto(b, "check") /\ UNCHANGED output
    BY <1>5, <2>1 DEF Exists, files
  <2> QED
    BY <1>3, <2>2 DEF Goto
<1>6. CASE CheckExisting(b)
  <2>1. site[b] \in Sites
    BY <1>2 DEF IInv, SitesLeft, Commands
  <2>2. CheckHash(b, output) # 2
    BY <2>1 DEF CheckHash, Unrefuted
  <2>3. UNCHANGED output /\ (Goto(b, "ok") \/ TryNextSite(b))
    BY <1>6, <2>2 DEF CheckExisting, files
  <2> QED
    BY <1>3, <1>4, <2>3 DEF Goto, Finished
<1>7. CASE Kill(b)
  BY <1>3, <1>7 DEF Kill, Goto, files, Finished
<1> QED
  BY <1>2, <1>5, <1>6, <1>7 DEF Command, RemoveOutput, MakeTmpd, BackendDelivers,
     BackendFails, Verify, MakeTmpOutput, Chmod, Cat, CatFails, RemoveTmpd, Move,
     MoveFails, SetE

(***************************************************************************)
(* A file that was there and that no hash file refutes is never removed,   *)
(* though a site whose hash file does not know it fails on it.             *)
(***************************************************************************)
THEOREM KeepsUnrefuted == Spec => UnrefutedIsKept
<1>1. Init /\ output \in Unrefuted => KeptInv
  BY DEF Init, KeptInv, Finished
<1>2. IInv /\ KeptInv /\ [Next]_vars => KeptInv'
  <2>1. KeptInv /\ UNCHANGED vars => KeptInv'
    BY DEF KeptInv, vars
  <2> QED
    BY <2>1, KeptStep DEF Next
<1>3. KeptInv => output \in Unrefuted
  BY DEF KeptInv
<1> QED
  BY <1>1, <1>2, <1>3, SpecIInv, PTL DEF Spec, UnrefutedIsKept

-----------------------------------------------------------------------------
(***************************************************************************)
(* The check-hash loop computes CheckHashCode for every .hash file and     *)
(* every content, not only for the small ones TLC enumerates.              *)
(***************************************************************************)

(***************************************************************************)
(* What the hash operators answer for arguments of the right type.         *)
(***************************************************************************)
LEMMA ReadLenType ==
    ASSUME NEW hf \in HashFile
    PROVE  /\ ReadLen(hf) \in Nat
           /\ ReadLen(hf) <= Len(hf.lines)
BY DEF HashFile, ReadLen

LEMMA CheckOneType ==
    ASSUME NEW l \in Line, NEW c
    PROVE  check_one_hash(l, c) \in {0, 2, 4}
BY DEF check_one_hash, Line, LineTypes, KnownTypes

LEMMA GivenIsHashFile ==
    ASSUME NEW hf \in HashFile \union {NoArg, Missing}, Given(hf)
    PROVE  hf \in HashFile
BY DEF Given

(***************************************************************************)
(* The loop's line by line view against the sets of CheckHashCode: line n  *)
(* adds itself to Mine, and to Failing when it fails.                      *)
(***************************************************************************)
LEMMA MineStep ==
    ASSUME NEW hf \in HashFile, NEW n \in Nat \ {0}, n <= Len(hf.lines)
    PROVE  Mine(hf, n) = Mine(hf, n - 1)
               \union (IF hf.lines[n].t # "#" /\ hf.lines[n].mine THEN {n} ELSE {})
<1>1. 1 .. n = (1 .. (n - 1)) \union {n}
  OBVIOUS
<1>2. QED
  BY <1>1 DEF Mine

LEMMA FailingStep ==
    ASSUME NEW hf \in HashFile, NEW n \in Nat \ {0}, n <= Len(hf.lines), NEW c,
           Failing(hf, n - 1, c) = {}
    PROVE  Failing(hf, n, c) =
               IF /\ hf.lines[n].t # "#" /\ hf.lines[n].mine
                  /\ check_one_hash(hf.lines[n], c) # 0
               THEN {n} ELSE {}
BY MineStep, Zenon DEF Failing

(***************************************************************************)
(* Failing lines among a prefix are failing lines of the whole, and a      *)
(* failing line of the whole past a clean prefix comes later.              *)
(***************************************************************************)
LEMMA FirstFailing ==
    ASSUME NEW hf \in HashFile, NEW n \in Nat \ {0}, n <= ReadLen(hf), NEW c,
           Failing(hf, n - 1, c) = {}, n \in Failing(hf, n, c)
    PROVE  /\ Failing(hf, ReadLen(hf), c) # {}
           /\ (CHOOSE i \in Failing(hf, ReadLen(hf), c) :
                   \A j \in Failing(hf, ReadLen(hf), c) : i <= j) = n
<1> DEFINE bad == Failing(hf, ReadLen(hf), c)
<1>0. ReadLen(hf) \in Nat
  BY ReadLenType
<1>1. n \in bad
  BY <1>0 DEF Failing, Mine
<1>2. bad \subseteq 1 .. ReadLen(hf)
  BY DEF Failing, Mine
<1>3. ASSUME NEW j \in bad PROVE n <= j
  <2>1. j \notin 1 .. (n - 1)
    BY <1>3 DEF Failing, Mine
  <2>2. QED
    BY <2>1, <1>0, <1>2, <1>3
<1>4. \A i \in bad : (\A j \in bad : i <= j) => i = n
  BY <1>0, <1>1, <1>2, <1>3
<1> HIDE DEF bad
<1>5. (CHOOSE i \in bad : \A j \in bad : i <= j) = n
  BY <1>1, <1>3, <1>4
<1>6. QED
  BY <1>1, <1>5 DEF bad
-----------------------------------------------------------------------------
(***************************************************************************)
(* The loop keeps its types, its loop invariant and with them the meaning  *)
(* of the exit code, for every hash file and every content.                *)
(***************************************************************************)
ScriptInv == ScriptTypeOK /\ LoopInv

LEMMA ScriptInitInv == ScriptInit => ScriptInv
BY InputsAssumption DEF ScriptInit, ScriptInv, ScriptTypeOK, LoopInv, ExitCode

LEMMA BailInv == ScriptInv /\ Bail => ScriptInv'
<1> SUFFICES ASSUME ScriptInv, Bail PROVE ScriptInv'
  OBVIOUS
<1> USE DEF ScriptInv, Bail, args
<1>1. ScriptTypeOK'
  BY DEF ScriptTypeOK
<1>2. CASE Given(h_file)
  <2>1. h_file \in HashFile
    BY <1>2, GivenIsHashFile DEF ScriptTypeOK
  <2>2. Mine(h_file, 0) = {} /\ Failing(h_file, 0, file) = {}
    BY DEF Mine, Failing
  <2>3. ReadLen(h_file) \in Nat
    BY <2>1, ReadLenType
  <2>4. next' = 1 /\ nb_checks' = 0 /\ phase' = "loop" /\ h_file' = h_file /\ file' = file
    BY <1>2 DEF LoopInv
  <2>5. LoopInv'
    BY <1>2, <2>2, <2>3, <2>4 DEF LoopInv, ExitCode
  <2>6. QED
    BY <1>1, <2>5
<1>3. CASE ~Given(h_file)
  <2>1. CheckHashCode(h_file, file, noCheck) = 0
    BY <1>3 DEF CheckHashCode
  <2>2. phase' = "done" /\ exit' = 0 /\ UNCHANGED args
    BY <1>3 DEF LoopInv
  <2>3. LoopInv'
    BY <2>1, <2>2 DEF LoopInv, ExitCode
  <2>4. QED
    BY <1>1, <2>3
<1>4. QED
  BY <1>2, <1>3

LEMMA ReadLineInv == ScriptInv /\ ReadLine => ScriptInv'
<1> SUFFICES ASSUME ScriptInv, ReadLine PROVE ScriptInv'
  OBVIOUS
<1> DEFINE l == h_file.lines[next]
           checked == l.t # "#" /\ l.mine
           rc == IF checked THEN check_one_hash(l, file) ELSE 0
<1>1. /\ phase = "loop" /\ next <= ReadLen(h_file)
      /\ nb_checks' = nb_checks + (IF checked /\ rc = 0 THEN 1 ELSE 0)
      /\ exit' = rc
      /\ phase' = IF rc = 0 THEN "loop" ELSE "done"
      /\ next' = next + 1
      /\ h_file' = h_file /\ file' = file /\ noCheck' = noCheck
  BY DEF ReadLine, args
<1>2. /\ Given(h_file)
      /\ Failing(h_file, next - 1, file) = {}
      /\ nb_checks = 0 <=> Mine(h_file, next - 1) = {}
  BY <1>1 DEF ScriptInv, LoopInv
<1>3. h_file \in HashFile
  BY <1>2, GivenIsHashFile DEF ScriptInv, ScriptTypeOK
<1>4. next \in Nat \ {0} /\ nb_checks \in Nat
  BY DEF ScriptInv, ScriptTypeOK
<1>5. ReadLen(h_file) \in Nat /\ ReadLen(h_file) <= Len(h_file.lines)
  BY <1>3, ReadLenType
<1>6. l \in Line
  BY <1>1, <1>3, <1>4, <1>5 DEF HashFile
<1>7. rc \in {0, 2, 4}
  BY <1>6, CheckOneType
<1>8. ScriptTypeOK'
  BY <1>1, <1>4, <1>7 DEF ScriptInv, ScriptTypeOK
<1>9. next <= Len(h_file.lines)
  BY <1>1, <1>4, <1>5
<1>10. Mine(h_file, next) = Mine(h_file, next - 1) \union (IF checked THEN {next} ELSE {})
  BY <1>3, <1>4, <1>9, MineStep
<1>11. Failing(h_file, next, file) = IF checked /\ rc # 0 THEN {next} ELSE {}
  BY <1>2, <1>3, <1>4, <1>9, FailingStep
<1>12. next' - 1 = next
  BY <1>1, <1>4
<1> HIDE DEF l, checked, rc
<1>13. CASE rc = 0
  <2>1. Failing(h_file, next, file) = {}
    BY <1>11, <1>13
  <2>2. nb_checks' = 0 <=> Mine(h_file, next) = {}
    BY <1>1, <1>2, <1>4, <1>10, <1>13
  <2>3. phase' = "loop"
    BY <1>1, <1>13
  <2>4. LoopInv'
    BY <1>1, <1>2, <1>12, <2>1, <2>2, <2>3 DEF LoopInv, ExitCode
  <2>5. QED
    BY <1>8, <2>4 DEF ScriptInv
<1>14. CASE rc # 0
  <2>1. checked /\ rc = check_one_hash(l, file)
    BY <1>14 DEF rc
  <2>2. next \in Failing(h_file, next, file)
    BY <1>11, <1>14, <2>1
  <2> DEFINE bad == Failing(h_file, ReadLen(h_file), file)
             first == CHOOSE i \in bad : \A j \in bad : i <= j
  <2>a. bad # {} /\ first = next
    BY <1>1, <1>2, <1>3, <1>4, <2>2, FirstFailing
  <2>b. CheckHashCode(h_file, file, noCheck) = check_one_hash(h_file.lines[first], file)
    BY <1>2, <2>a DEF CheckHashCode
  <2>3. CheckHashCode(h_file, file, noCheck) = rc
    BY <2>1, <2>a, <2>b DEF l
  <2>4. phase' = "done" /\ exit' = rc
    BY <1>1, <1>14
  <2>5. LoopInv'
    BY <1>1, <2>3, <2>4 DEF LoopInv, ExitCode
  <2>6. QED
    BY <1>8, <2>5 DEF ScriptInv
<1>15. QED
  BY <1>13, <1>14

LEMMA EndOfFileInv == ScriptInv /\ EndOfFile => ScriptInv'
<1> SUFFICES ASSUME ScriptInv, EndOfFile PROVE ScriptInv'
  OBVIOUS
<1>1. /\ phase = "loop" /\ next > ReadLen(h_file) /\ phase' = "done"
      /\ exit' = IF nb_checks = 0 /\ ~noCheck THEN 3 ELSE 0
      /\ h_file' = h_file /\ file' = file /\ noCheck' = noCheck
      /\ next' = next /\ nb_checks' = nb_checks
  BY DEF EndOfFile, args
<1>2. /\ Given(h_file)
      /\ next - 1 <= ReadLen(h_file)
      /\ Failing(h_file, next - 1, file) = {}
      /\ nb_checks = 0 <=> Mine(h_file, next - 1) = {}
  BY <1>1 DEF ScriptInv, LoopInv
<1>3. h_file \in HashFile /\ next \in Nat \ {0}
  BY <1>2, GivenIsHashFile DEF ScriptInv, ScriptTypeOK
<1>4. next - 1 = ReadLen(h_file)
  BY <1>1, <1>2, <1>3, ReadLenType
<1>5. CheckHashCode(h_file, file, noCheck) = exit'
  BY <1>1, <1>2, <1>4 DEF CheckHashCode
<1>6. LoopInv'
  BY <1>1, <1>5 DEF LoopInv, ExitCode
<1>7. ScriptTypeOK'
  BY <1>1 DEF ScriptInv, ScriptTypeOK
<1>8. QED
  BY <1>6, <1>7 DEF ScriptInv

LEMMA ScriptAlwaysInv == ScriptSpec => []ScriptInv
<1>1. ScriptInv /\ UNCHANGED scriptVars => ScriptInv'
  BY DEF ScriptInv, scriptVars, args, ScriptTypeOK, LoopInv, ExitCode
<1>2. ScriptInv /\ [ScriptNext]_scriptVars => ScriptInv'
  BY <1>1, BailInv, ReadLineInv, EndOfFileInv DEF ScriptNext
<1>3. QED
  BY ScriptInitInv, <1>2, PTL DEF ScriptSpec

(***************************************************************************)
(* Every variable of the script's model keeps its type.                    *)
(***************************************************************************)
THEOREM ScriptTypeCorrect == ScriptSpec => []ScriptTypeOK
<1>1. ScriptInv => ScriptTypeOK
  BY DEF ScriptInv
<1>2. QED
  BY <1>1, ScriptAlwaysInv, PTL

(***************************************************************************)
(* The loop of check-hash, with its early exits, answers CheckHashCode for *)
(* every hash file, of any length, and every content.                      *)
(***************************************************************************)
THEOREM ExitCodeCorrect == ScriptSpec => []LoopInv
<1>1. ScriptInv => LoopInv
  BY DEF ScriptInv
<1>2. QED
  BY <1>1, ScriptAlwaysInv, PTL

(***************************************************************************)
(* Code 0 with a hash file is given only at the end of it, when no line    *)
(* that was read has failed.                                               *)
(***************************************************************************)
ZeroIsClean ==
    phase = "done" /\ exit = 0 /\ Given(h_file) => Failing(h_file, ReadLen(h_file), file) = {}

LEMMA ZeroIsCleanKept == ScriptInv /\ ZeroIsClean /\ [ScriptNext]_scriptVars => ZeroIsClean'
<1> SUFFICES ASSUME ScriptInv, ZeroIsClean, [ScriptNext]_scriptVars PROVE ZeroIsClean'
  OBVIOUS
<1>1. CASE Bail
  BY <1>1 DEF Bail, args, ZeroIsClean
<1>2. CASE ReadLine
  BY <1>2 DEF ReadLine, ZeroIsClean
<1>3. CASE EndOfFile
  <2>1. /\ h_file' = h_file /\ file' = file /\ next > ReadLen(h_file)
        /\ Given(h_file) /\ next - 1 <= ReadLen(h_file)
        /\ Failing(h_file, next - 1, file) = {}
    BY <1>3 DEF EndOfFile, args, ScriptInv, LoopInv
  <2>2. next - 1 = ReadLen(h_file)
    BY <2>1, GivenIsHashFile, ReadLenType DEF ScriptInv, ScriptTypeOK
  <2>3. QED
    BY <2>1, <2>2 DEF ZeroIsClean
<1>4. CASE UNCHANGED scriptVars
  BY <1>4 DEF scriptVars, args, ZeroIsClean
<1>5. QED
  BY <1>1, <1>2, <1>3, <1>4 DEF ScriptNext

LEMMA CleanMatches ==
    ASSUME ScriptInv, ZeroIsClean
    PROVE  ZeroMatchesAllHashes
<1> SUFFICES ASSUME phase = "done", exit = 0, Given(h_file), h_file.eol,
                    NEW i \in DOMAIN h_file.lines,
                    h_file.lines[i].mine, h_file.lines[i].t \notin {"#", "none"}
             PROVE  h_file.lines[i].t \in KnownTypes /\ h_file.lines[i].h = file
  BY DEF ZeroMatchesAllHashes
<1>1. h_file \in HashFile
  BY GivenIsHashFile DEF ScriptInv, ScriptTypeOK
<1>2. i \in 1 .. ReadLen(h_file)
  BY <1>1 DEF HashFile, ReadLen
<1>3. i \notin Failing(h_file, ReadLen(h_file), file)
  BY DEF ZeroIsClean
<1>4. check_one_hash(h_file.lines[i], file) = 0
  BY <1>2, <1>3 DEF Failing, Mine
<1>5. QED
  BY <1>4 DEF check_one_hash

(***************************************************************************)
(* What the header of check-hash says of code 0: the file has every digest *)
(* a terminated hash file lists for it.                                    *)
(***************************************************************************)
THEOREM ZeroMatches == ScriptSpec => []ZeroMatchesAllHashes
<1>1. ScriptInit => ZeroIsClean
  BY DEF ScriptInit, ZeroIsClean
<1>2. ScriptInv /\ ZeroIsClean => ZeroMatchesAllHashes
  BY CleanMatches
<1>3. QED
  BY <1>1, <1>2, ZeroIsCleanKept, ScriptAlwaysInv, PTL DEF ScriptSpec
=============================================================================
