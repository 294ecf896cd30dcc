----------------------- MODULE KconfigFrontEnds_proofs -----------------------
(***************************************************************************)
(* The sessions of the front ends for any configurations, files and names, *)
(* and for any number of sessions, of saves in a session and of failures.  *)
(***************************************************************************)
EXTENDS KconfigFrontEnds, TLAPS

Questions == {"asking", "handler"}
Steps == {"open", "fill", "aside", "rename"}
Content == Configs \union Texts \union {"none"}
Writable == Typed \union {DotConfig}

SessionTypeOK ==
    /\ fe \in FrontEnds \union {"none"}
    /\ files \in [Names -> Content]
    /\ mem \in Configs \union {"none"}
    /\ at # "parse" => fe \in FrontEnds /\ mem \in Configs
    /\ changed \in BOOLEAN /\ stripped \in BOOLEAN
    /\ name \in Writable /\ target \in Writable
    /\ at \in Dialogs \union Questions \union Steps \union {"parse", "ended"}
    /\ from \in Dialogs
    /\ tmp \in Content /\ before \in Content
    /\ answer \in {"none", "yes", "no", "cancel"}
    /\ faults \in 0 .. Faults

\* Until the file has been moved aside, what it holds is what is remembered of
\* it; no save has begun before the first session.
PreviousInPlace ==
    /\ at = "parse" => before = "none"
    /\ at \in {"open", "fill", "aside"} /\ files[target] # "none" => before = files[target]

FrontEndsInv ==
    /\ SessionTypeOK
    /\ PreviousSurvives /\ PreviousInPlace

-----------------------------------------------------------------------------
(***************************************************************************)
(* What the user can do in any of the four programs, in seven kinds of     *)
(* steps: the front ends differ in where each kind is offered.             *)
(***************************************************************************)
Interactive == Dialogs \union Questions

Moves == at \in Interactive /\ at' \in Interactive /\ from' \in Dialogs /\ Only /\ UNCHANGED answer
Edits == at \in Dialogs /\ at' \in Dialogs /\ from' \in Dialogs /\ \E c \in Configs : Edit(c)
LoadsByName == fe \in Text /\ at' \in Dialogs /\ from' \in Dialogs /\ LoadDialog
LoadsSelected ==
    /\ fe \notin Text /\ at = "menu" /\ \E f \in Typed : Selected(f)
    /\ UNCHANGED <<fe, files, at, from, name, written, answer, faults>>
Saves == at \in Dialogs /\ \E f \in Writable : Save(f)
SavesAndExits == at \in Questions /\ SaveAndExit(Session)
Leaves == at \in Interactive /\ \E a \in {"none", "no", "cancel"} : End(a)

UserStep == \/ Moves \/ Edits \/ LoadsByName \/ LoadsSelected
            \/ Saves \/ SavesAndExits \/ Leaves

(***************************************************************************)
(* Every action of a program is one of these kinds.                        *)
(***************************************************************************)
LEMMA MconfKinds == SessionTypeOK /\ Mconf => UserStep
<1> SUFFICES ASSUME SessionTypeOK, Mconf PROVE UserStep
  OBVIOUS
<1> USE DEF SessionTypeOK, Interactive, Questions, Dialogs
<1>1. CASE MconfMenu
  BY <1>1 DEF UserStep, MconfMenu, Moves, Edits, Stay, Open, Only, config
<1>2. CASE MconfChoice
  BY <1>2 DEF UserStep, MconfChoice, Moves, Edits, Close, Back, Only, config
<1>3. CASE MconfString
  BY <1>3 DEF UserStep, MconfString, Moves, Edits, Close, Back, Only, config
<1>4. CASE MconfLoad
  BY <1>4 DEF UserStep, MconfLoad, LoadsByName, LoadDialog, Text, Close
<1>5. CASE MconfSave
  BY <1>5 DEF UserStep, MconfSave, SaveDialog, Moves, Saves, Close, Back, Only, config, Writable
<1>6. CASE MconfExit
  BY <1>6 DEF UserStep, MconfExit, HandleExit, Ask, Moves, Leaves
<1>7. CASE Interrupt
  BY <1>7 DEF UserStep, Interrupt, HandleExit, Ask, Moves, Leaves
<1>8. CASE MconfAnswer
  BY <1>8 DEF UserStep, MconfAnswer, Resume, Close, Moves, SavesAndExits, Session, Text, Leaves
<1>9. QED
  BY <1>1, <1>2, <1>3, <1>4, <1>5, <1>6, <1>7, <1>8 DEF Mconf

LEMMA NconfKinds == SessionTypeOK /\ Nconf => UserStep
<1> SUFFICES ASSUME SessionTypeOK, Nconf PROVE UserStep
  OBVIOUS
<1> USE DEF SessionTypeOK, Interactive, Questions, Dialogs
<1>1. CASE NconfMenu
  BY <1>1 DEF UserStep, NconfMenu, Moves, Edits, Stay, Open, Only, config
<1>2. CASE NconfKeys
  BY <1>2 DEF UserStep, NconfKeys, Moves, Open, Only, config
<1>3. CASE NconfChoice
  BY <1>3 DEF UserStep, NconfChoice, Moves, Edits, Close, Back, Only, config
<1>4. CASE NconfString
  BY <1>4 DEF UserStep, NconfString, Moves, Edits, Close, Back, Only, config
<1>5. CASE NconfLoad
  BY <1>5 DEF UserStep, NconfLoad, LoadsByName, LoadDialog, Text, Close
<1>6. CASE NconfSave
  BY <1>6 DEF UserStep, NconfSave, SaveDialog, Moves, Saves, Close, Back, Only, config, Writable
<1>7. CASE NconfExit
  BY <1>7 DEF UserStep, NconfExit, Ask, Moves, Leaves
<1>8. CASE NconfAnswer
  BY <1>8 DEF UserStep, NconfAnswer, Resume, Close, Moves, SavesAndExits, Session, Text, Leaves
<1>9. QED
  BY <1>1, <1>2, <1>3, <1>4, <1>5, <1>6, <1>7, <1>8 DEF Nconf

LEMMA WindowKinds == SessionTypeOK /\ (Gconf \/ Qconf) => UserStep
<1> SUFFICES ASSUME SessionTypeOK, Gconf \/ Qconf PROVE UserStep
  OBVIOUS
<1> USE DEF SessionTypeOK, Interactive, Questions, Dialogs
<1>1. CASE GconfEdit \/ QconfEdit
  BY <1>1 DEF UserStep, GconfEdit, QconfEdit, Edits, Stay
<1>2. CASE GconfLoad \/ QconfLoad
  BY <1>2 DEF UserStep, GconfLoad, QconfLoad, LoadsSelected, Text
<1>3. CASE GconfSave \/ QconfSave
  BY <1>3 DEF UserStep, GconfSave, QconfSave, Saves, Writable
<1>4. CASE GconfQuit
  BY <1>4 DEF UserStep, GconfQuit, Ask, Resume, Close, Moves, SavesAndExits, Session, Text, Leaves
<1>5. CASE QconfQuit
  BY <1>5 DEF UserStep, QconfQuit, Ask, Resume, Close, Moves, SavesAndExits, Session, Text, Leaves
<1>6. QED
  BY <1>1, <1>2, <1>3, <1>4, <1>5 DEF Gconf, Qconf

LEMMA UserKinds == SessionTypeOK /\ (Mconf \/ Nconf \/ Gconf \/ Qconf) => UserStep
BY MconfKinds, NconfKinds, WindowKinds

(***************************************************************************)
(* What each kind of step does to the parts of the invariant.              *)
(***************************************************************************)
LEMMA MovesInv == FrontEndsInv /\ Moves => FrontEndsInv'
<1> SUFFICES ASSUME FrontEndsInv, Moves PROVE FrontEndsInv'
  OBVIOUS
<1> USE DEF FrontEndsInv, Moves, Only, config, written, Interactive, Dialogs, Questions
<1>1. SessionTypeOK'
  BY DEF SessionTypeOK
<1>2. PreviousSurvives' /\ PreviousInPlace'
  BY DEF PreviousSurvives, PreviousInPlace
<1>3. QED
  BY <1>1, <1>2

LEMMA EditsInv == FrontEndsInv /\ Edits => FrontEndsInv'
<1> SUFFICES ASSUME FrontEndsInv, Edits PROVE FrontEndsInv'
  OBVIOUS
<1> USE DEF FrontEndsInv, Edits, Edit, written, Dialogs, Questions
<1>1. SessionTypeOK'
  BY DEF SessionTypeOK
<1>2. PreviousSurvives' /\ PreviousInPlace'
  BY DEF PreviousSurvives, PreviousInPlace
<1>3. QED
  BY <1>1, <1>2

\* A text is read as some configuration, a configuration as itself.
LEMMA MeaningType ==
    ASSUME SessionTypeOK, NEW f \in Names, files[f] # "none"
    PROVE  /\ Meaning(files[f]) \subseteq Configs
           /\ files[f] \in Configs => Meaning(files[f]) = {files[f]}
BY DEF Meaning

LEMMA LoadsByNameInv == FrontEndsInv /\ LoadsByName => FrontEndsInv'
<1> SUFFICES ASSUME FrontEndsInv, LoadsByName PROVE FrontEndsInv'
  OBVIOUS
<1> USE DEF FrontEndsInv, LoadsByName, LoadDialog, Unreadable, Loaded, Close, config, written,
            Dialogs, Questions
<1>1. SessionTypeOK'
  BY FrontEndsAssumption, MeaningType DEF SessionTypeOK, Writable
<1>2. PreviousSurvives' /\ PreviousInPlace'
  BY DEF PreviousSurvives, PreviousInPlace
<1>3. QED
  BY <1>1, <1>2

LEMMA LoadsSelectedInv == FrontEndsInv /\ LoadsSelected => FrontEndsInv'
<1> SUFFICES ASSUME FrontEndsInv, LoadsSelected PROVE FrontEndsInv'
  OBVIOUS
<1> USE DEF FrontEndsInv, LoadsSelected, Selected, Unreadable, Loaded, written, Dialogs, Questions
<1>1. SessionTypeOK'
  BY FrontEndsAssumption, MeaningType DEF SessionTypeOK
<1>2. PreviousSurvives' /\ PreviousInPlace'
  BY DEF PreviousSurvives, PreviousInPlace
<1>3. QED
  BY <1>1, <1>2

\* A save remembers what the file holds; if it holds nothing, an earlier try
\* to write it may have left what it held under its other name.
LEMMA WriteInv ==
    ASSUME FrontEndsInv, NEW f \in Writable, Write(f), at \in Interactive,
           answer' \in {answer, "yes"}
    PROVE  FrontEndsInv'
<1> USE DEF FrontEndsInv, Write, config, Interactive, Dialogs, Questions
<1>1. SessionTypeOK'
  BY FrontEndsAssumption DEF SessionTypeOK, Writable, Steps
<1>2. PreviousSurvives' /\ PreviousInPlace'
  BY DEF PreviousSurvives, PreviousInPlace
<1>3. QED
  BY <1>1, <1>2

LEMMA LeavesInv == FrontEndsInv /\ Leaves => FrontEndsInv'
<1> SUFFICES ASSUME FrontEndsInv, Leaves PROVE FrontEndsInv'
  OBVIOUS
<1> USE DEF FrontEndsInv, Leaves, End, Only, config, written, Interactive, Dialogs, Questions
<1>1. SessionTypeOK'
  BY DEF SessionTypeOK
<1>2. PreviousSurvives' /\ PreviousInPlace'
  BY DEF PreviousSurvives, PreviousInPlace
<1>3. QED
  BY <1>1, <1>2

LEMMA UserInv == FrontEndsInv /\ UserStep => FrontEndsInv'
<1> SUFFICES ASSUME FrontEndsInv, UserStep PROVE FrontEndsInv'
  OBVIOUS
<1>1. CASE Saves
  <2>1. PICK f \in Writable : Save(f)
    BY <1>1 DEF Saves
  <2>2. QED
    BY <1>1, <2>1, WriteInv DEF Saves, Save, Interactive
<1>2. CASE SavesAndExits
  <2>1. Session \in Writable
    BY DEF Session, Writable, FrontEndsInv, SessionTypeOK
  <2>2. QED
    BY <1>2, <2>1, WriteInv DEF SavesAndExits, SaveAndExit, Interactive
<1>3. QED
  BY <1>1, <1>2, MovesInv, EditsInv, LoadsByNameInv, LoadsSelectedInv, LeavesInv DEF UserStep

-----------------------------------------------------------------------------
(***************************************************************************)
(* The steps of conf_write, each of which may be the last.                 *)
(***************************************************************************)
LEMMA OpenTmpInv == FrontEndsInv /\ OpenTmp => FrontEndsInv'
<1> SUFFICES ASSUME FrontEndsInv, OpenTmp PROVE FrontEndsInv'
  OBVIOUS
<1> USE DEF FrontEndsInv
<1>1. CASE /\ Fails /\ Returned(FALSE)
           /\ UNCHANGED <<files, mem, changed, stripped, tmp, before>>
  <2> USE <1>1 DEF OpenTmp, Returned, Saved, SavedAtExit, Fails
  <2>1. SessionTypeOK'
    BY FrontEndsAssumption DEF SessionTypeOK, Dialogs
  <2>2. PreviousSurvives' /\ PreviousInPlace'
    BY DEF PreviousSurvives, PreviousInPlace
  <2>3. QED
    BY <2>1, <2>2
<1>2. CASE /\ at = "open" /\ at' = "fill" /\ changed' = TRUE
           /\ stripped' = (stripped /\ changed)
           /\ UNCHANGED <<fe, files, mem, name, from, written, answer, faults>>
  <2> USE <1>2 DEF written
  <2>1. SessionTypeOK'
    BY DEF SessionTypeOK, Steps
  <2>2. PreviousSurvives' /\ PreviousInPlace'
    BY DEF PreviousSurvives, PreviousInPlace
  <2>3. QED
    BY <2>1, <2>2
<1>3. QED
  BY <1>1, <1>2 DEF OpenTmp

LEMMA FillInv == FrontEndsInv /\ Fill => FrontEndsInv'
<1> SUFFICES ASSUME FrontEndsInv, Fill PROVE FrontEndsInv'
  OBVIOUS
<1> USE DEF FrontEndsInv, Fill, Fails
<1>1. SessionTypeOK'
  BY FrontEndsAssumption DEF SessionTypeOK, Steps, Content, Texts
<1>2. PreviousSurvives' /\ PreviousInPlace'
  BY DEF PreviousSurvives, PreviousInPlace
<1>3. QED
  BY <1>1, <1>2

\* Moving a file aside moves what it held to another file.
LEMMA AsideFiles ==
    ASSUME SessionTypeOK
    PROVE  /\ Aside \in [Names -> Content]
           /\ Aside[target] = "none" /\ Aside[Old[target]] = files[target]
<1>1. target \in Names /\ Old[target] \in Names /\ Old[target] # target
  BY FrontEndsAssumption DEF SessionTypeOK, Writable
<1>2. QED
  BY <1>1 DEF Aside, SessionTypeOK, Content

LEMMA RenameOldInv == FrontEndsInv /\ RenameOld => FrontEndsInv'
<1> SUFFICES ASSUME FrontEndsInv, RenameOld PROVE FrontEndsInv'
  OBVIOUS
<1> USE DEF FrontEndsInv, RenameOld, Fails, config, written
<1>1. SessionTypeOK'
  BY AsideFiles, FrontEndsAssumption DEF SessionTypeOK, Steps
<1>2. PreviousInPlace'
  BY DEF PreviousInPlace
<1>3. PreviousSurvives'
  <2>1. CASE files[target] # "none" /\ files' = Aside
    BY <2>1, AsideFiles DEF PreviousSurvives, PreviousInPlace
  <2>2. CASE UNCHANGED files
    BY <2>2 DEF PreviousSurvives
  <2>3. QED
    BY <2>1, <2>2
<1>4. QED
  BY <1>1, <1>2, <1>3

LEMMA RenameTmpInv == FrontEndsInv /\ RenameTmp => FrontEndsInv'
<1> SUFFICES ASSUME FrontEndsInv, RenameTmp PROVE FrontEndsInv'
  OBVIOUS
<1> USE DEF FrontEndsInv, RenameTmp
<1>1. at = "rename" /\ at' \in Dialogs \union {"ended"}
  BY DEF Returned, Saved, SavedAtExit, Close, SessionTypeOK, Dialogs
<1>2. target \in Names
  BY FrontEndsAssumption DEF SessionTypeOK, Writable
<1>3. CASE /\ files' = [files EXCEPT ![target] = tmp] /\ tmp' = "none" /\ before' = "none"
           /\ Returned(TRUE) /\ changed' = FALSE /\ UNCHANGED faults
  <2>1. SessionTypeOK'
    BY <1>1, <1>2, <1>3 DEF Returned, Saved, SavedAtExit, Close, SessionTypeOK, Content, Dialogs
  <2>2. PreviousSurvives' /\ PreviousInPlace'
    BY <1>1, <1>3 DEF PreviousSurvives, PreviousInPlace, Dialogs
  <2>3. QED
    BY <2>1, <2>2
<1>4. CASE Fails /\ Returned(FALSE) /\ UNCHANGED <<files, tmp, before, changed>>
  <2>1. SessionTypeOK'
    BY <1>4, FrontEndsAssumption DEF Fails, Returned, Saved, SavedAtExit, SessionTypeOK, Dialogs
  <2>2. PreviousSurvives' /\ PreviousInPlace'
    BY <1>1, <1>4 DEF PreviousSurvives, PreviousInPlace, Dialogs, Returned
  <2>3. QED
    BY <2>1, <2>2
<1>5. QED
  BY <1>3, <1>4

LEMMA ConfWriteInv == FrontEndsInv /\ ConfWrite => FrontEndsInv'
BY OpenTmpInv, FillInv, RenameOldInv, RenameTmpInv DEF ConfWrite

-----------------------------------------------------------------------------
(***************************************************************************)
(* The sessions, one after the other.                                      *)
(***************************************************************************)
LEMMA SessionInitInv == SessionInit => FrontEndsInv
<1> SUFFICES ASSUME SessionInit PROVE FrontEndsInv
  OBVIOUS
<1> USE DEF SessionInit
<1>1. SessionTypeOK
  <2>1. files \in [Names -> Content]
    BY DEF Content
  <2>2. faults \in 0 .. Faults
    BY FrontEndsAssumption
  <2>3. QED
    BY <2>1, <2>2 DEF SessionTypeOK, Content, Writable, Dialogs
<1>2. PreviousSurvives /\ PreviousInPlace
  BY DEF PreviousSurvives, PreviousInPlace
<1>3. QED
  BY <1>1, <1>2 DEF FrontEndsInv

\* What earlier saves left in the files stays there when a session begins.
LEMMA BeginInv ==
    ASSUME FrontEndsInv, Begin, fe' \in FrontEnds, files' \in [Names -> Content],
           before = "none" \/ UNCHANGED files
    PROVE  FrontEndsInv'
<1> USE DEF FrontEndsInv, Begin
<1>1. DotConfig \in Names /\ Configs # {}
  BY FrontEndsAssumption
<1>2. mem' \in Configs
  BY <1>1 DEF Meaning
<1>3. SessionTypeOK'
  BY <1>2 DEF SessionTypeOK, Content, Writable, Dialogs
<1>4. PreviousSurvives' /\ PreviousInPlace'
  BY DEF PreviousSurvives, PreviousInPlace
<1>5. QED
  BY <1>3, <1>4

LEMMA StartInv == FrontEndsInv /\ Start => FrontEndsInv'
<1> SUFFICES ASSUME FrontEndsInv, Start PROVE FrontEndsInv'
  OBVIOUS
<1>1. files' \in [Names -> Content] /\ before = "none"
  BY FrontEndsAssumption DEF Start, Content, FrontEndsInv, PreviousInPlace
<1>2. QED
  BY <1>1, BeginInv DEF Start

LEMMA RestartInv == FrontEndsInv /\ Restart => FrontEndsInv'
BY BeginInv DEF Restart, FrontEndsInv, SessionTypeOK

LEMMA SessionStepInv == FrontEndsInv /\ [Start \/ SessionNext]_session => FrontEndsInv'
<1> SUFFICES ASSUME FrontEndsInv, [Start \/ SessionNext]_session PROVE FrontEndsInv'
  OBVIOUS
<1>1. CASE Mconf \/ Nconf \/ Gconf \/ Qconf
  BY <1>1, UserKinds, UserInv DEF FrontEndsInv
<1>2. CASE UNCHANGED session
  <2> USE <1>2 DEF session, FrontEndsInv
  <2>1. SessionTypeOK'
    BY DEF SessionTypeOK
  <2>2. PreviousSurvives' /\ PreviousInPlace'
    BY DEF PreviousSurvives, PreviousInPlace
  <2>3. QED
    BY <2>1, <2>2
<1>3. QED
  BY <1>1, <1>2, ConfWriteInv, StartInv, RestartInv DEF SessionNext

LEMMA SessionsInv == SessionSpec => []FrontEndsInv
<1>1. SessionInit => FrontEndsInv
  BY SessionInitInv
<1>2. FrontEndsInv /\ [Start \/ SessionNext]_session => FrontEndsInv'
  BY SessionStepInv
<1>3. QED
  BY <1>1, <1>2, PTL DEF SessionSpec

\* Every variable of a session keeps its type: the files hold contents, and the
\* symbols have a configuration once a session has begun.
THEOREM SessionTypeCorrect == SessionSpec => []SessionTypeOK
<1>1. FrontEndsInv => SessionTypeOK
  BY DEF FrontEndsInv
<1>2. QED
  BY <1>1, SessionsInv, PTL

\* Wherever any number of saves stopped, killed or failed, what the file held
\* before the first is under its name or under .old (conf_write of confdata.c).
THEOREM SavesKeepPrevious == SessionSpec => []PreviousSurvives
<1>1. FrontEndsInv => PreviousSurvives
  BY DEF FrontEndsInv
<1>2. QED
  BY <1>1, SessionsInv, PTL
=============================================================================
