----------------------------- MODULE KconfigMenu -----------------------------
(***************************************************************************)
(* menu_finalize on one menu whose entries are config options: the         *)
(* dependencies of the menu are handed down to each entry and to its       *)
(* prompt, what an entry selects is recorded, and the entries that depend  *)
(* on the one above them become its submenu.  The menu may be a choice,    *)
(* whose entries depend on it and whose values they are.                   *)
(***************************************************************************)
EXTENDS KconfigExpr

CONSTANTS
    Modules,    \* whether an option turns modules on (there is none here)
    SymOf,      \* the sequence of the symbols of the entries
    Menus       \* the menus looked at: the records with the fields choice,
                \* prompt, parentdep and entries: the symbol of the choice or
                \* the constant N; the final visibility of its prompt; what
                \* entries depend on if there is none; and a sequence of records
                \* with dep, vis and select, a symbol or N

Entries == 1..Len(SymOf)

VARIABLES
    menu,       \* the menu as the configuration files define it
    done,       \* how many entries have got their final dependencies
    dep, vis,   \* those of each entry and of its prompt
    rev,        \* rev_dep: by what each symbol is selected
    dir,        \* dir_dep: what each symbol directly depends on
    parent      \* the entry each entry is listed under, 0 for the menu itself

vars == <<menu, done, dep, vis, rev, dir, parent>>

Init ==
    /\ menu \in Menus
    /\ done = 0
    /\ dep = [k \in Entries |-> menu.entries[k].dep]
    /\ vis = [k \in Entries |-> menu.entries[k].vis]
    /\ rev = [s \in Symbols |-> Absent]
    /\ dir = [s \in Symbols |-> Absent]
    /\ parent = [k \in Entries |-> 0]

\* What every entry depends on.
ParentDep == IF menu.choice = N THEN menu.parentdep ELSE Sym(menu.choice)

\* The first loop: an entry, its prompt and what it selects.
FinalizeEntry ==
    /\ done < Len(SymOf)
    /\ LET k == done + 1
           target == menu.entries[k].select
           base == EliminateDups(AllocTwo("and", ParentDep, Transform(dep[k])))
           Below(e) == EliminateDups(AllocTwo("and", base, Transform(e)))
           ForType(e) == IF SymOf[k] \in Bools THEN TransBool(e) ELSE e
       IN  /\ done' = k
           /\ dep' = [dep EXCEPT ![k] = base]
           /\ vis' = [vis EXCEPT ![k] = ForType(Below(vis[k]))]
           /\ rev' = IF target = N THEN rev
                     ELSE [rev EXCEPT ![target] =
                             AllocTwo("or", @, AllocTwo("and", Sym(SymOf[k]),
                                                        ForType(Below(Absent))))]
    /\ UNCHANGED <<menu, dir, parent>>

NotNo(e) == EliminateDups(Transform(TransCompare(e, "ne", N)))

\* Mutant: the entry is taken when its prompt only mentions the symbol.
Under_Mentions(k, j) == ContainsSymbol(vis[j], SymOf[k])

\* Does entry j belong under entry k: its prompt needs the symbol of k, or
\* whatever makes its prompt visible makes that of k visible.
Under(k, j) ==
    /\ ContainsSymbol(vis[j], SymOf[k])
    /\ \/ DependsSymbol(vis[j], SymOf[k])
       \/ IsYes(EliminateEq(NotNo(vis[j]), NotNo(vis[k]))[2])

\* The scan for entry k from entry j on; an entry it takes is finalised, and
\* so takes its own entries, before the scan goes on.
RECURSIVE Scan(_, _, _)
Scan(k, j, up) ==
    IF j \notin Entries \/ ~Under(k, j) THEN [next |-> j, up |-> up]
    ELSE LET inner == Scan(j, j + 1, [up EXCEPT ![j] = k])
         IN  Scan(k, inner.next, inner.up)

RECURSIVE ScanAll(_, _)
ScanAll(k, up) ==
    IF k \notin Entries THEN up
    ELSE LET r == Scan(k, k + 1, up) IN ScanAll(r.next, r.up)

\* A choice that is not optional is selected, to m, by its own prompt.
SelectsItself ==
    IF menu.choice = N THEN rev
    ELSE [rev EXCEPT ![menu.choice] = AllocTwo("or", @, AllocTwo("and", menu.prompt, Sym(M)))]

\* The second loop: menu_finalize of each entry.
BuildSubmenus ==
    /\ done = Len(SymOf)
    /\ done' = done + 1
    /\ parent' = ScanAll(1, parent)
    /\ dir' = [s \in Symbols |->
                 IF \E k \in Entries : SymOf[k] = s
                 THEN dep[CHOOSE k \in Entries : SymOf[k] = s] ELSE Absent]
    /\ rev' = SelectsItself
    /\ UNCHANGED <<menu, dep, vis>>

Next == FinalizeEntry \/ BuildSubmenus

Spec == Init /\ [][Next]_vars

------------------------------------------------------------------------------
(***************************************************************************)
(* Properties.  They speak of every value the symbols can have: without    *)
(* modules a tristate is never m.                                          *)
(***************************************************************************)
Vals == {val \in [Symbols -> 0..2] : \A s \in Symbols :
            val[s] = 1 => Modules /\ s \in Tris}

Value(val, e) == CalcValue(val, e)

\* Rewriting never changes what the files say: the final dependency of an
\* entry has the value of the menu's and its own dependencies together, and
\* its prompt is visible exactly when these and its own condition allow it, in
\* the same degree for a tristate.
RewritingKeepsMeaning ==
    \A k \in 1..Lesser(done, Len(SymOf)), val \in Vals :
        LET raw == menu.entries[k]
            need == Lesser(Value(val, ParentDep), Value(val, raw.dep))
            show == Lesser(need, Value(val, raw.vis))
        IN  /\ Value(val, dep[k]) = need
            /\ IF SymOf[k] \in Tris THEN Value(val, vis[k]) = show
               ELSE (Value(val, vis[k]) = 0) = (show = 0)

\* menu_is_visible, with the prompts' values.
RECURSIVE MenuIsVisible(_, _)
MenuIsVisible(val, k) ==
    \/ Value(val, vis[k]) # 0
    \/ /\ val[SymOf[k]] # 0
       /\ \E j \in Entries : parent[j] = k /\ MenuIsVisible(val, j)

\* Nesting hides nothing: whenever the prompt of an entry is visible, so is
\* every entry it is listed under, whatever the values of the symbols.
NestingHidesNothing ==
    \A j \in Entries, val \in Vals :
        parent[j] # 0 /\ Value(val, vis[j]) # 0 => MenuIsVisible(val, parent[j])
=============================================================================
