--------------------------- MODULE KconfigFrontEnds ---------------------------
(***************************************************************************)
(* A session of one of the menu front ends of the configuration system     *)
(* (support/kconfig/mconf.c, nconf.c, gconf.c, qconf.cc): the user edits,   *)
(* loads, saves and quits.  What a front end knows of its work is one      *)
(* counter of confdata.c, sym_change_count; conf_read and conf_write set   *)
(* it, each edit raises it, and the question at the end is asked by it.    *)
(*                                                                         *)
(* A configuration is a value; how it is computed is in Kconfig.  A file   *)
(* holds a configuration or a text that is none: outdated (written for     *)
(* another Config.in), empty (headings only) or torn (the disk was full).  *)
(* conf_write is cut at each of its system calls, each of which may fail;  *)
(* between any two the program may be killed, and the next session starts. *)
(***************************************************************************)
EXTENDS Naturals, FiniteSets

CONSTANTS FrontEnds,  \* those considered: of "mconf", "nconf", "gconf", "qconf"
          Configs,    \* configurations
          Names,      \* of files
          DotConfig,  \* conf_get_configname(): BR2_CONFIG or .config
          Old,        \* the name with .old appended, for each name
          Typed,      \* the names a user may type
          Opened,     \* what the files may hold at first
          Faults      \* system calls of a session that fail

Texts == {"outdated", "empty", "torn"}

ASSUME FrontEndsAssumption ==
    /\ FrontEnds \subseteq {"mconf", "nconf", "gconf", "qconf"}
    /\ Configs # {} /\ Configs \cap (Texts \union {"none"}) = {}
    /\ DotConfig \in Names /\ Typed \subseteq Names
    /\ Old \in [Names -> Names] /\ \A f \in Typed \union {DotConfig} : Old[f] # f
    /\ Opened \subseteq [Names -> Configs \union Texts \union {"none"}]
    /\ Faults \in Nat

VARIABLES fe,        \* the front end that runs
          files,     \* what each file holds
          mem,       \* the configuration in the symbols
          changed,   \* conf_get_changed(): sym_change_count is not zero
          stripped,  \* the symbols are valid, but SYMBOL_WRITE was taken from them
          name,      \* filename, which mconf and nconf show in the title
          at,        \* the dialog that waits, or the next step of conf_write; "parse" at first
          from,      \* where the dialog was opened
          target,    \* the file conf_write writes
          tmp,       \* .tmpconfig.<pid>
          before,    \* what target held before the first try to write it
          answer,    \* the answer to the question at the end
          faults     \* failures left

session == <<fe, files, mem, changed, stripped, name, at, from, target, tmp,
             before, answer, faults>>

config == <<mem, changed, stripped>>
written == <<target, tmp, before>>

Dialogs == {"menu", "choice", "string", "load", "save"}
Text == {"mconf", "nconf"}

-----------------------------------------------------------------------------
(* conf_read, and the start of the programs.                               *)

\* The configurations a text is read as; for all but one that was written by
\* this program something is missing, and the counter says so.
Meaning(text) == IF text \in Configs THEN {text} ELSE Configs

\* All symbols are computed again.
Loaded(f) == mem' \in Meaning(files[f]) /\ stripped' = FALSE

\* main of each, after conf_parse: conf_read(NULL).  Without a .config the
\* configuration is one of defaults.
Begin ==
    /\ mem' \in Meaning(files'[DotConfig])
    /\ changed' = (files'[DotConfig] \notin Configs)
    /\ stripped' = FALSE
    /\ name' = DotConfig /\ at' = "menu" /\ from' = "menu"
    /\ tmp' = "none" /\ answer' = "none"
    /\ UNCHANGED <<target, before, faults>>

\* The first session, of some front end, with some files.
Start ==
    /\ at = "parse"
    /\ fe' \in FrontEnds /\ files' \in Opened /\ Begin

\* The next session, after the end of one or after it was killed, at any moment.
Restart == at # "parse" /\ UNCHANGED <<fe, files>> /\ Begin

SessionInit ==
    /\ fe = "none" /\ files = [f \in Names |-> "none"] /\ mem = "none"
    /\ changed = FALSE /\ stripped = FALSE
    /\ name = DotConfig /\ at = "parse" /\ from = "menu"
    /\ target = DotConfig /\ tmp = "none" /\ before = "none"
    /\ answer = "none" /\ faults = Faults

-----------------------------------------------------------------------------
(* Edits.                                                                  *)

\* sym_set_tristate_value, sym_set_string_value: with a new value
\* sym_clear_all_valid makes the symbols invalid and raises the counter.
Edit(c) ==
    /\ c # mem
    /\ mem' = c /\ changed' = TRUE /\ stripped' = FALSE
    /\ UNCHANGED <<fe, files, name, written, answer, faults>>

Stay == UNCHANGED <<at, from>>
Close == at' = from /\ from' = "menu"
Open(d) == at' = d /\ from' = at /\ UNCHANGED <<fe, files, config, name, written, answer, faults>>
Back == Close /\ UNCHANGED <<fe, files, config, name, written, answer, faults>>

\* conf of mconf: a key changes the entry, or opens what belongs to it.
MconfMenu ==
    /\ fe = "mconf" /\ at = "menu"
    /\ \/ \E c \in Configs : Edit(c) /\ Stay
       \/ \E d \in {"choice", "string", "save", "load"} : Open(d)

\* conf_choice of mconf: the entry chosen is set and the list left.
MconfChoice ==
    /\ fe = "mconf" /\ at = "choice"
    /\ \/ \E c \in Configs : Edit(c) /\ Close
       \/ Back

\* conf_string: a value out of range is asked for again.
MconfString ==
    /\ fe = "mconf" /\ at = "string"
    /\ \/ \E c \in Configs : Edit(c) /\ Close
       \/ Back

NconfMenu ==
    /\ fe = "nconf" /\ at = "menu"
    /\ \/ \E c \in Configs : Edit(c) /\ Stay
       \/ \E d \in {"choice", "string"} : Open(d)

\* The function keys work in the list of a choice, too (handle_f6, handle_f7).
NconfKeys ==
    /\ fe = "nconf" /\ at \in {"menu", "choice"}
    /\ \E d \in {"save", "load"} : Open(d)

NconfChoice ==
    /\ fe = "nconf" /\ at = "choice"
    /\ \/ \E c \in Configs : Edit(c) /\ Close
       \/ Back

NconfString ==
    /\ fe = "nconf" /\ at = "string"
    /\ \/ \E c \in Configs : Edit(c) /\ Close
       \/ Back

\* A click on a column, a key, a cell that was edited.
GconfEdit == fe = "gconf" /\ at = "menu" /\ \E c \in Configs : Edit(c) /\ Stay
QconfEdit == fe = "qconf" /\ at = "menu" /\ \E c \in Configs : Edit(c) /\ Stay

-----------------------------------------------------------------------------
(* Loading.  conf_read clears the counter before it tries to read.         *)

Unreadable ==
    /\ changed' = FALSE /\ UNCHANGED <<mem, stripped>>

\* conf_load of mconf and nconf: what was loaded counts as changed, and its
\* name is that of the session from now on.
LoadDialog ==
    /\ at = "load"
    /\ \/ \E f \in Typed :
            IF files[f] = "none" THEN Unreadable /\ UNCHANGED <<at, from, name>>
            ELSE Loaded(f) /\ changed' = TRUE /\ name' = f /\ Close
       \/ Close /\ UNCHANGED <<config, name>>
    /\ UNCHANGED <<fe, files, written, answer, faults>>
MconfLoad == fe = "mconf" /\ LoadDialog
NconfLoad == fe = "nconf" /\ LoadDialog

\* load_filename of gconf, loadConfig of qconf: the session is still about
\* .config.
Selected(f) ==
    IF files[f] = "none" THEN Unreadable
    ELSE Loaded(f) /\ changed' = (files[f] \notin Configs)
GconfLoad ==
    /\ fe = "gconf" /\ at = "menu" /\ \E f \in Typed : Selected(f)
    /\ UNCHANGED <<fe, files, at, from, name, written, answer, faults>>
QconfLoad ==
    /\ fe = "qconf" /\ at = "menu" /\ \E f \in Typed : Selected(f)
    /\ UNCHANGED <<fe, files, at, from, name, written, answer, faults>>

-----------------------------------------------------------------------------
(* conf_write of the file f, a system call at a time.                      *)

Write(f) ==
    /\ at' = "open" /\ target' = f
    /\ before' = IF files[f] # "none" THEN files[f]
                 ELSE IF f = target THEN before ELSE "none"
    /\ UNCHANGED <<fe, files, config, tmp, name, from, faults>>
Save(f) == Write(f) /\ UNCHANGED answer
SaveAndExit(f) == Write(f) /\ answer' = "yes"

Fails == faults > 0 /\ faults' = faults - 1

\* What the callers do when it returns.  An error of a save while gconf is quit
\* is written into its window, which is closed at once.
Saved(ok) ==
    /\ answer' = answer
    /\ IF fe \in Text THEN IF ok THEN name' = target /\ Close
                                ELSE at' = "save" /\ UNCHANGED <<name, from>>
       ELSE at' = "menu" /\ UNCHANGED <<name, from>>
SavedAtExit(ok) ==
    /\ IF fe = "qconf" /\ ~ok THEN at' = "menu" /\ answer' = "none"
                              ELSE at' = "ended" /\ answer' = answer
    /\ UNCHANGED <<name, from>>
Returned(ok) ==
    /\ IF answer = "yes" THEN SavedAtExit(ok) ELSE Saved(ok)
    /\ UNCHANGED <<fe, target>>

\* With nothing changed all symbols are to be computed again, which raises
\* the counter (sym_clear_all_valid).
OpenTmp ==
    /\ at = "open"
    /\ \/ /\ Fails /\ Returned(FALSE)
          /\ UNCHANGED <<files, mem, changed, stripped, tmp, before>>
       \/ /\ at' = "fill" /\ changed' = TRUE
          /\ stripped' = (stripped /\ changed)
          /\ UNCHANGED <<fe, files, mem, name, from, written, answer, faults>>

\* A symbol is written if it has SYMBOL_WRITE, which is then taken from it;
\* whether fprintf and fclose succeed is not looked at.
Fill ==
    /\ at = "fill" /\ at' = "aside" /\ stripped' = TRUE
    /\ IF stripped THEN tmp' = "empty" /\ UNCHANGED faults
       ELSE \/ tmp' = mem /\ UNCHANGED faults
            \/ tmp' = "torn" /\ Fails
    /\ UNCHANGED <<fe, files, mem, changed, name, from, target, before, answer>>

\* Mutant: the file is removed instead of renamed.
Aside_Removed == [files EXCEPT ![target] = "none"]

\* The file before goes to .old.
Aside == [files EXCEPT ![target] = "none", ![Old[target]] = files[target]]

\* rename(newname, dirname), whose result is not looked at.
RenameOld ==
    /\ at = "aside" /\ at' = "rename"
    /\ \/ files[target] # "none" /\ files' = Aside /\ UNCHANGED faults
       \/ files[target] = "none" /\ UNCHANGED <<files, faults>>
       \/ files[target] # "none" /\ Fails /\ UNCHANGED files
    /\ UNCHANGED <<fe, config, name, from, written, answer>>

RenameTmp ==
    /\ at = "rename"
    /\ \/ /\ files' = [files EXCEPT ![target] = tmp] /\ tmp' = "none" /\ before' = "none"
          /\ Returned(TRUE) /\ changed' = FALSE /\ UNCHANGED faults
       \/ /\ Fails /\ Returned(FALSE)
          /\ UNCHANGED <<files, tmp, before, changed>>
    /\ UNCHANGED <<mem, stripped>>

-----------------------------------------------------------------------------
(* Saving and quitting.                                                    *)

\* conf_save of mconf and nconf, until a file can be written.
SaveDialog == at = "save" /\ (Back \/ \E f \in Typed : Save(f))
MconfSave == fe = "mconf" /\ SaveDialog
NconfSave == fe = "nconf" /\ SaveDialog

\* on_save_activate, store_filename.
GconfSave ==
    /\ fe = "gconf" /\ at = "menu" /\ \E f \in Typed \union {DotConfig} : Save(f)

\* saveConfig, and saveConfigAs, which asks for a name and calls saveConfig.
QconfSave == fe = "qconf" /\ at = "menu" /\ Save(DotConfig)

Only == UNCHANGED <<fe, files, config, name, written, faults>>
Ask(d) == at' = d /\ from' = at /\ UNCHANGED answer /\ Only
End(a) == at' = "ended" /\ answer' = a /\ UNCHANGED from /\ Only
Resume == Close /\ UNCHANGED answer /\ Only

\* handle_exit, from main and from the handler of SIGINT.
HandleExit(d) == IF changed THEN Ask(d) ELSE End("none")
MconfExit == fe = "mconf" /\ at = "menu" /\ HandleExit("asking")
Interrupt == fe = "mconf" /\ at \in Dialogs /\ HandleExit("handler")

\* The handler exits whatever the answer; there is none when the window has
\* become too small for the question.
MconfAnswer ==
    /\ fe = "mconf" /\ at \in {"asking", "handler"}
    /\ \/ SaveAndExit(name)
       \/ \E a \in {"no", "none"} : End(a)
       \/ at = "asking" /\ Resume
       \/ at = "handler" /\ End("cancel")

\* do_exit, at the end of the main menu and by a function key.
NconfExit ==
    /\ fe = "nconf" /\ at \in {"menu", "choice"}
    /\ IF changed THEN Ask("asking") ELSE End("none")
NconfAnswer ==
    /\ fe = "nconf" /\ at = "asking"
    /\ \/ SaveAndExit(name)
       \/ End("no")
       \/ Resume

\* on_window1_delete_event.
GconfQuit ==
    /\ fe = "gconf"
    /\ \/ at = "menu" /\ IF changed THEN Ask("asking") ELSE End("none")
       \/ at = "asking" /\ (SaveAndExit(DotConfig) \/ End("no") \/ Resume)

\* closeEvent.
QconfQuit ==
    /\ fe = "qconf"
    /\ \/ at = "menu" /\ IF changed THEN Ask("asking") ELSE End("none")
       \/ at = "asking" /\ (SaveAndExit(DotConfig) \/ End("no") \/ Resume)

ConfWrite == OpenTmp \/ Fill \/ RenameOld \/ RenameTmp
Mconf == MconfMenu \/ MconfChoice \/ MconfString \/ MconfLoad \/ MconfSave \/ MconfExit \/ Interrupt \/ MconfAnswer
Nconf == NconfMenu \/ NconfKeys \/ NconfChoice \/ NconfString \/ NconfLoad \/ NconfSave \/ NconfExit \/ NconfAnswer
Gconf == GconfEdit \/ GconfLoad \/ GconfSave \/ GconfQuit
Qconf == QconfEdit \/ QconfLoad \/ QconfSave \/ QconfQuit
SessionNext == Mconf \/ Nconf \/ Gconf \/ Qconf \/ ConfWrite \/ Restart
SessionSpec == SessionInit /\ [][Start \/ SessionNext]_session

-----------------------------------------------------------------------------
(* Properties.                                                             *)

Session == IF fe \in Text THEN name ELSE DotConfig

\* closeEvent says of itself "ask for saving configuration before quitting"
\* (qconf.cc:1638): a session ends without the question only if its file holds
\* what the symbols do.
AskedBeforeQuitting ==
    at = "ended" /\ answer = "none" => files[Session] = mem

\* Wherever a save stops, killed or failed, once or several times in a row,
\* what the file held before it is still there, under its name or .old
\* (confdata.c:769-828).
PreviousSurvives ==
    before # "none" => before \in {files[target], files[Old[target]]}
=============================================================================
