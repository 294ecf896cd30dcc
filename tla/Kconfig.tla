------------------------------- MODULE Kconfig -------------------------------
(***************************************************************************)
(* The configuration system at run time: the values of the symbols, what   *)
(* the user sets, and the files a configuration is written to and read     *)
(* from (symbol.c, confdata.c, conf.c).  The dependencies are those left   *)
(* by menu_finalize; there are no modules, as no option here turns them    *)
(* on, so an m of a symbol becomes y.                                      *)
(***************************************************************************)
EXTENDS KconfigExpr, Integers

CONSTANTS
    Named,      \* the named symbols, in the order of the menus
    ChoiceSyms,    \* the nameless symbols of the choice blocks
    Ints,       \* the named symbols of type int
    NoSym,      \* no symbol
    Prompt,     \* Prompt[s]: the visibility of the prompt of s, Sym(N) if none
    RevDep,     \* RevDep[s]: rev_dep of s, by what it is selected
    Defaults,   \* Defaults[s]: the defaults of s, a sequence of [val, if]
    Ranges,     \* Ranges[s]: its ranges, a sequence of [lo, hi, if]
    ChoiceOf,   \* ChoiceOf[s]: the choice s is a value of, or NoSym
    Optional,   \* the choices that may be left open
    Order,      \* all symbols, each after those its value is computed from
    Numbers,    \* the numbers an int may be given
    Files,      \* the configuration files a first session starts from
    MaxEdits    \* how often a value is set in a session

All == ToSet(Order)
NamedSet == ToSet(Named)
Members(c) == {s \in NamedSet : ChoiceOf[s] = c}
Empty == -1     \* no string: neither a user value nor a default
Missing == -2   \* not mentioned in a file

ASSUME OrderComplete == All = NamedSet \cup ChoiceSyms

VARIABLES
    st,         \* the symbols, see Fresh
    changed,    \* sym_change_count is not 0
    edits       \* values set since the configuration was read

vars == <<st, changed, edits>>

\* Before anything is read: user values (def[S_DEF_USER]) and which of them
\* count (SYMBOL_DEF_USER), the chosen value of each choice, then the computed
\* values, visibilities and selects, SYMBOL_WRITE and SYMBOL_VALID.  A number
\* is a symbol of its own, the constant with that value.
Fresh ==
    [has |-> {},
     val |-> [s \in All |-> IF s \in Ints THEN Empty ELSE 0],
     pick |-> [c \in ChoiceSyms |-> NoSym],
     v |-> [s \in All \cup Numbers |->
              IF s \in Ints THEN Empty ELSE IF s \in Numbers THEN s ELSE 0],
     vis |-> [s \in All |-> 0],
     rev |-> [s \in All |-> 0],
     chosen |-> [c \in ChoiceSyms |-> NoSym],
     write |-> {},
     valid |-> {}]

------------------------------------------------------------------------------
(***************************************************************************)
(* sym_calc_value and what it calls.  Calc recomputes the symbols that are *)
(* not valid, each after those it depends on.                              *)
(***************************************************************************)
Val(x, e) == CalcValue(x.v, e)
\* m becomes y for a bool, and for a tristate while there are no modules.
ToBool(t) == IF t = 1 THEN 2 ELSE t

\* The first default or range whose condition holds, as a sequence of one.
HeadOnly(s) == SubSeq(s, 1, Lesser(Len(s), 1))
FirstOf(x, props) == HeadOnly(SelectSeq(props, LAMBDA p : Val(x, p.if) # 0))

InRange(x, s, n) ==
    \A p \in ToSet(FirstOf(x, Ranges[s])) : p.lo <= n /\ n <= p.hi

\* sym_validate_range: a value outside the range becomes its nearest end.
\* Mutant: a value above the range is left as it is.
Within_LowOnly(r, n, num) ==
    CASE r = <<>> -> n
      [] r # <<>> /\ num < r[1].lo -> r[1].lo
      [] OTHER -> n

Within(r, n, num) ==
    CASE r = <<>> -> n
      [] r # <<>> /\ num < r[1].lo -> r[1].lo
      [] r # <<>> /\ num > r[1].hi -> r[1].hi
      [] OTHER -> n

Clip(x, s, n) == Within(FirstOf(x, Ranges[s]), n, IF n = Empty THEN 0 ELSE n)

\* sym_calc_visibility, for the symbols of a set.  dir_dep is left out: it only
\* serves a warning.
Visibility(x, S) ==
    [x EXCEPT !.vis = [s \in All |-> IF s \in S THEN ToBool(Val(x, Prompt[s])) ELSE @[s]],
              !.rev = [s \in All |-> IF s \in S /\ ChoiceOf[s] = NoSym
                                     THEN ToBool(Val(x, RevDep[s])) ELSE @[s]]]

\* sym_choice_default: a visible default, else the first visible value.
ChoiceDefault(x, c) ==
    LET wanted == SelectSeq(Defaults[c], LAMBDA p : Val(x, p.if) # 0 /\ x.vis[p.val] # 0)
        shown == SelectSeq(Named, LAMBDA s : s \in Members(c) /\ x.vis[s] # 0)
    IN  Head([k \in DOMAIN wanted |-> wanted[k].val] \o shown \o <<NoSym>>)

\* Mutant: the user's choice is taken whether or not it is shown.
PickOf_Hidden(x, c) ==
    IF x.pick[c] # NoSym THEN x.pick[c] ELSE ChoiceDefault(x, c)

PickOf(x, c) ==
    IF x.pick[c] # NoSym /\ x.vis[x.pick[c]] # 0 THEN x.pick[c] ELSE ChoiceDefault(x, c)

Choose(x, c, pick) ==
    [x EXCEPT !.has = IF \A s \in Members(c) : x.vis[s] # 0 => s \in @ THEN @ ELSE @ \ {c},
              !.chosen[c] = pick,
              !.v[c] = IF pick = NoSym THEN 0 ELSE @]

\* sym_calc_choice.  The choice counts as new while a visible value is new.
Shown(x, c) == Choose(x, c, PickOf(x, c))
CalcChoice(x, c) == Shown(Visibility(x, Members(c)), c)

\* The symbol is asked for while it is visible or selected, or has a default.
Settle(x, s, v, asked) ==
    [x EXCEPT !.v[s] = v, !.write = IF asked THEN @ \cup {s} ELSE @]

ByUser(x, s) == x.vis[s] # 0 /\ s \in x.has

TristateFrom(x, s, dflt) ==
    LET own == CASE ByUser(x, s) -> Lesser(x.val[s], x.vis[s])
                 [] ~ByUser(x, s) /\ dflt # <<>> ->
                        Lesser(Val(x, dflt[1].val), Val(x, dflt[1].if))
                 [] OTHER -> 0
    IN  Settle(x, s, ToBool(Greater(own, x.rev[s])),
               x.vis[s] # 0 \/ x.rev[s] # 0 \/ dflt # <<>>)

CalcTristate(x, s) ==
    IF ChoiceOf[s] # NoSym /\ x.vis[s] = 2
    THEN [x EXCEPT !.v[s] = IF x.chosen[ChoiceOf[s]] = s THEN 2 ELSE 0]
    ELSE TristateFrom(x, s, IF s \in ChoiceSyms THEN <<>> ELSE FirstOf(x, Defaults[s]))

IntFrom(x, s, dflt) ==
    LET own == CASE ByUser(x, s) -> x.val[s]
                 [] ~ByUser(x, s) /\ dflt # <<>> -> dflt[1].val
                 [] OTHER -> Empty
    IN  Settle(x, s, Clip(x, s, own), x.vis[s] # 0 \/ dflt # <<>>)

CalcInt(x, s) == IntFrom(x, s, FirstOf(x, Defaults[s]))

Begun(x, s) ==
    [x EXCEPT !.valid = @ \cup {s},
              !.write = IF ChoiceOf[s] # NoSym THEN @ ELSE @ \ {s}]
Evaluated(x, s) == IF s \in Ints THEN CalcInt(x, s) ELSE CalcTristate(x, s)
Chosen(x, s) ==
    CASE s \notin ChoiceSyms -> x
      [] s \in ChoiceSyms /\ x.v[s] = 2 -> CalcChoice(x, s)
      [] s \in ChoiceSyms /\ x.v[s] # 2 -> [x EXCEPT !.chosen[s] = NoSym]
\* With a choice that is written, all its visible values are.
Marked(x, s) ==
    IF s \in ChoiceSyms /\ s \in x.write
    THEN [x EXCEPT !.write = @ \cup {m \in Members(s) : x.vis[m] # 0}] ELSE x

CalcSym(x, s) ==
    IF s \in x.valid THEN x
    ELSE Marked(Chosen(Evaluated(Visibility(Begun(x, s), {s}), s), s), s)

Calc(x) == IF All \subseteq x.valid THEN x ELSE FoldLeft(CalcSym, x, Order)

\* sym_clear_all_valid
Clear(x) == [x EXCEPT !.valid = {}]

------------------------------------------------------------------------------
(***************************************************************************)
(* Setting a value.  The new state of the symbols; x itself when refused.  *)
(***************************************************************************)
\* sym_tristate_within_range
Allowed(x, s, t) ==
    /\ x.vis[s] > x.rev[s]
    /\ t # 1
    /\ IF ChoiceOf[s] # NoSym /\ x.vis[s] = 2 THEN t = 2
       ELSE x.rev[s] <= t /\ t <= x.vis[s]

\* Everything is computed again, unless the value is the one it was.
Recalc(y, same) == IF same THEN y ELSE Clear(y)

\* Mutant: choosing a value of a choice does not record it as the choice's.
WithChoice_Forgets(y, s, c) == y

\* Choosing a value settles its whole choice.
WithChoice(y, s, c) ==
    [y EXCEPT !.pick[c] = s,
              !.has = @ \cup {c} \cup {m \in Members(c) : y.vis[m] # 0}]

UserValue(x, s, t) == [x EXCEPT !.has = @ \cup {s}, !.val[s] = t]

\* sym_set_tristate_value
SetTristate(x, s, t) ==
    IF x.v[s] # t /\ ~Allowed(x, s, t) THEN x
    ELSE Recalc(IF ChoiceOf[s] = NoSym \/ t # 2 THEN UserValue(x, s, t)
                ELSE WithChoice(UserValue(x, s, t), s, ChoiceOf[s]),
                x.v[s] = t)

\* sym_set_string_value of an int: nothing is recomputed when the text is the
\* one def[S_DEF_USER].val still holds, even if it did not count any more.
SetInt(x, s, n) ==
    IF InRange(x, s, n) THEN Recalc(UserValue(x, s, n), x.val[s] = n) ELSE x

SetValue(x, s, n) == IF s \in Ints THEN SetInt(x, s, n) ELSE SetTristate(x, s, n)

------------------------------------------------------------------------------
(***************************************************************************)
(* The files: a function from the named symbols to the value given there,  *)
(* or Missing.                                                             *)
(***************************************************************************)
\* Mutant: nothing is computed again before writing.
Computed_NoClear(x, dirty) == Calc(x)

Computed(x, dirty) == Calc(IF dirty THEN x ELSE Clear(x))

\* conf_write: what is marked SYMBOL_WRITE, and the mark is taken off.
Written(y) ==
    [file |-> [s \in NamedSet |-> IF s \in y.write THEN y.v[s] ELSE Missing],
     st |-> [y EXCEPT !.write = @ \ NamedSet]]
ConfWrite(x, dirty) == Written(Computed(x, dirty))

\* sym_get_string_default
BoolDefault(s, t) == IF t = 1 /\ (ChoiceOf[s] = NoSym \/ s \in Bools) THEN 2 ELSE t
DefaultFrom(x, s, d) ==
    CASE s \in Ints -> IF d = <<>> THEN Empty ELSE d[1].val
      [] s \notin Ints /\ d = <<>> -> BoolDefault(s, x.rev[s])
      [] s \notin Ints /\ d # <<>> ->
            BoolDefault(s, Greater(Lesser(Val(x, d[1].val), Val(x, d[1].if)), x.rev[s]))
StringDefault(x, s) == DefaultFrom(x, s, FirstOf(x, Defaults[s]))

\* Is the value of s what a configuration without s gets anyway?
\* Mutant: the default of a choice counts as redundant in an optional one too.
Redundant_Optional(x, s) ==
    LET c == ChoiceOf[s]
    IN  \/ x.v[s] = StringDefault(x, s)
        \/ c # NoSym /\ s = ChoiceDefault(x, c) /\ x.v[s] = 2

Redundant(x, s) ==
    LET c == ChoiceOf[s]
    IN  \/ x.v[s] = StringDefault(x, s)
        \/ /\ c # NoSym /\ c \notin Optional
           /\ s = ChoiceDefault(x, c) /\ s \in Bools /\ x.v[s] = 2

\* conf_write_defconfig: the minimal configuration.
Needed(y) ==
    {s \in NamedSet : s \in y.write /\ y.vis[s] > y.rev[s] /\ ~Redundant(y, s)}
Minimal(y, kept) == [s \in NamedSet |-> IF s \in kept THEN y.v[s] ELSE Missing]
MinimalOf(y) == Minimal(y, Needed(y))
ConfWriteDefconfig(x) == MinimalOf(Calc(Clear(x)))

\* conf_write_autoconf, of silentoldconfig, after conf_write when anything is
\* changed: everything is computed again, and what is n is left out.
Synced(x, dirty) == Calc(Clear(IF dirty THEN ConfWrite(x, dirty).st ELSE x))
Printed(s, v) == IF s \notin Ints /\ v = 0 THEN Missing ELSE v
AutoFile(y) ==
    [s \in NamedSet |-> IF s \in y.write THEN Printed(s, y.v[s]) ELSE Missing]

\* Mutant: the file of an option that is not written any more is not touched.
Touched_Written(y, old) ==
    {s \in y.write \cap NamedSet :
        IF old[s] # Missing THEN y.v[s] # old[s] ELSE s \in Ints \/ y.v[s] # 0}

\* conf_split_config: the options whose files under include/config are touched,
\* so that what was built with another value, after the auto.conf old, is
\* built again.
Touched(y, old) ==
    {s \in NamedSet :
        CASE s \in y.write /\ old[s] # Missing -> y.v[s] # old[s]
          [] s \in y.write /\ old[s] = Missing -> s \in Ints \/ y.v[s] # 0
          [] s \notin y.write -> old[s] # Missing}

\* conf_read_simple, for the user's values.  A choice counts as given.
ReadSimple(x, file) ==
    LET given == {s \in NamedSet : file[s] # Missing}
        chosen(c) == SelectSeq(Named, LAMBDA s : s \in Members(c) /\ file[s] = 2)
    IN  [x EXCEPT !.has = given \cup ChoiceSyms,
                  !.val = [s \in All |->
                             IF s \in given THEN file[s]
                             ELSE IF s \in Ints THEN Empty
                             ELSE IF s \in ChoiceSyms /\ chosen(s) # <<>> THEN 2 ELSE 0],
                  !.pick = [c \in ChoiceSyms |->
                             IF chosen(c) = <<>> THEN NoSym ELSE Last(chosen(c))],
                  !.valid = {}]

\* conf_read: the symbols, and whether the file has to be written again.  A
\* number out of range is always taken off, the value of an invisible symbol
\* while everything met before it agrees with the file; only the number itself
\* is computed again.
Differing(x) ==
    {s \in NamedSet : IF s \in x.has THEN ~(s \in x.write /\ x.v[s] = x.val[s])
                      ELSE s \in x.write}
OutOfRange(x) ==
    {s \in x.has \cap Ints : ChoiceOf[s] = NoSym /\ ~InRange(x, s, x.val[s])}
Unseen(x, differs, wrong) ==
    {s \in x.has : /\ ChoiceOf[s] = NoSym /\ x.vis[s] = 0 /\ differs = {}
                   /\ \E i \in DOMAIN Order :
                         Order[i] = s /\ \A k \in 1..(i - 1) : Order[k] \notin wrong}
TakenOff(x, differs, wrong) ==
    [x |-> Calc([x EXCEPT !.has = @ \ (Unseen(x, differs, wrong) \cup wrong),
                          !.valid = @ \ wrong]),
     dirty |-> differs \cup wrong # {}]
AfterRead(x) == TakenOff(x, Differing(x), OutOfRange(x))
ConfRead(file) == AfterRead(Calc(ReadSimple(Fresh, file)))

\* set_all_choice_values
SetAllChoiceValues(x, c) ==
    [x EXCEPT !.val = [s \in All |-> IF s \in Members(c) \ x.has THEN 0 ELSE @[s]],
              !.has = @ \cup {c},
              !.valid = @ \ {c}]

\* conf_set_all_new_symbols(def_default): only the choices that still count as
\* new are settled, each before anything that depends on its values.
SetAllDefault(x) ==
    LET Upto(acc, s) ==
            IF s \in ChoiceSyms /\ s \notin acc.has
            THEN CalcSym(SetAllChoiceValues(CalcSym(acc, s), s), s)
            ELSE CalcSym(acc, s)
    IN  FoldLeft(Upto, Clear(x), Order)

\* The same with def_no and def_yes, nothing being read: every symbol that is
\* not an int is given that value.
SetAllTo(x, t) ==
    Calc(Clear([x EXCEPT !.val = [s \in All |-> IF s \in Ints THEN @[s] ELSE t],
                         !.has = All \ Ints]))

\* And with def_random: any values, and any value of a choice, shown or not.
RandomChoice(x, s, pick) ==
    IF s \in ChoiceSyms /\ x.v[s] = 2
    THEN CalcSym([x EXCEPT !.pick[s] = pick[s], !.has = @ \cup {s}, !.valid = @ \ {s}], s)
    ELSE x
RandomValues(x, on, pick) ==
    FoldLeft(LAMBDA acc, s : RandomChoice(CalcSym(acc, s), s, pick),
             [x EXCEPT !.val = [s \in All |-> IF s \in on THEN 2 ELSE @[s]],
                       !.has = NamedSet \ Ints],
             Order)

------------------------------------------------------------------------------
(***************************************************************************)
(* Sessions.  One reads a file; the user sets values of what is shown; and *)
(* the configuration is saved and read again, as it is or by way of a      *)
(* minimal one.                                                            *)
(***************************************************************************)
\* What make allnoconfig, allyesconfig, alldefconfig and randconfig write.
Generated ==
    LET File(x) == ConfWrite(x, TRUE).file
        unchosen == {s \in NamedSet \ Ints : ChoiceOf[s] = NoSym}
        picks == {p \in [ChoiceSyms -> NamedSet] :
                    \A c \in ChoiceSyms : p[c] \in Members(c)}
    IN  {File(x) : x \in {SetAllTo(Fresh, 0), SetAllTo(Fresh, 2), SetAllDefault(Fresh)}}
        \cup {File(RandomValues(Fresh, on, p)) : on \in SUBSET unchosen, p \in picks}

\* The auto.conf a build may have left: none, or that of such a configuration.
Earlier ==
    {[s \in NamedSet |-> Missing]}
    \cup {AutoFile(Calc(Clear(x))) :
             x \in {SetAllTo(Fresh, 0), SetAllTo(Fresh, 2), SetAllDefault(Fresh)}}

Opened(r) == st = r.x /\ changed = r.dirty /\ edits = 0
Init == \E file \in Files \cup Generated : Opened(ConfRead(file))

Reread(r) == st' = r.x /\ changed' = r.dirty /\ edits' = 0
Open(file) == Reread(ConfRead(file))

\* What is shown is set, to the state y of the symbols.
Put(y) ==
    /\ y # st
    /\ st' = Calc(y)
    /\ changed' = (changed \/ y.valid = {})
    /\ edits' = edits + 1
Edit(s, n) == edits < MaxEdits /\ st.vis[s] # 0 /\ Put(SetValue(st, s, n))

\* conf_choice: one of the values shown of a choice that is on.
EditChoice(c, s) ==
    /\ edits < MaxEdits
    /\ s \in Members(c) /\ st.v[c] = 2 /\ st.vis[s] # 0
    /\ Put(SetTristate(st, s, 2))

Edits ==
    \/ \E s \in All \ Ints, t \in 0..2 : ChoiceOf[s] = NoSym /\ Edit(s, t)
    \/ \E s \in Ints, n \in Numbers : Edit(s, n)
    \/ \E c \in ChoiceSyms, s \in NamedSet : EditChoice(c, s)

\* Saved, and the session goes on.
Save ==
    /\ st' = ConfWrite(st, changed).st
    /\ changed' = FALSE
    /\ UNCHANGED edits

Reopen == Open(ConfWrite(st, changed).file)

\* make savedefconfig, then make defconfig, each a process of its own.
Minimised(x) == SetAllDefault(ConfRead(ConfWriteDefconfig(x)).x)

Minimise ==
    \E x \in {ConfRead(ConfWrite(st, changed).file).x} :
        \E back \in {Minimised(x)} : Open(ConfWrite(back, TRUE).file)

Next == Edits \/ Save \/ Reopen \/ Minimise

Spec == Init /\ [][Next]_vars

------------------------------------------------------------------------------
(***************************************************************************)
(* Properties.                                                             *)
(***************************************************************************)
SameValues(x, y) == \A s \in NamedSet : x.v[s] = y.v[s]

\* No value is left over from before something it depends on was reset.
NothingStale == SameValues(Calc(Clear(st)), st)

\* Saving and reading again keeps every value the user sees, whenever in a
\* session it is done and however often.
SavedIsKept ==
    NothingStale => SameValues(ConfRead(ConfWrite(st, changed).file).x, st)

\* The minimal configuration stands for the whole one: all other values come
\* back as defaults and selects.
MinimalIsEnough ==
    \A x \in {ConfRead(ConfWrite(st, changed).file).x} :
        SameValues(Calc(Clear(x)), x) => SameValues(Minimised(x), x)

\* The build sees what the user saved: auto.conf, computed anew, says the same
\* as .config, computed before it, and exactly the options of which it says
\* something else than an earlier auto.conf did are touched.
BuildSeesConfig ==
    NothingStale =>
        \A y \in {Synced(st, changed)}, config \in {ConfWrite(st, changed).file} :
            /\ \A s \in NamedSet : AutoFile(y)[s] = Printed(s, config[s])
            /\ \A old \in Earlier :
                  Touched(y, old) = {s \in NamedSet : AutoFile(y)[s] # old[s]}

\* What a choice or a range rules out is never the value of a symbol: a choice
\* that is on has exactly one value on, one that is shown, and one that is off
\* has none; a number is within the range that holds now.
OneChosen ==
    \A c \in ChoiceSyms :
        LET on == {s \in Members(c) : st.v[s] # 0}
        IN  IF st.v[c] = 0 THEN on = {}
            ELSE \E s \in Members(c) : on = {s} /\ st.vis[s] # 0
RangeRespected == \A s \in Ints : st.v[s] # Empty => InRange(st, s, st.v[s])
ValuesAllowed == OneChosen /\ RangeRespected

\* A value that is accepted is the value the symbol then has.  A number that
\* was taken off on reading and is set again is exempt: it may stay unseen.
SetTakesEffect ==
    \A s \in All, n \in 0..2 \cup Numbers :
        LET y == SetValue(st, s, n)
            kept == s \in Ints \ st.has /\ st.val[s] = n
        IN  /\ st.vis[s] # 0 /\ y # st /\ ~kept
            /\ n \in IF s \in Ints THEN Numbers ELSE 0..2
            => Calc(y).v[s] = n
=============================================================================
