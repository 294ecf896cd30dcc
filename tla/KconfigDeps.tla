----------------------------- MODULE KconfigDeps -----------------------------
(***************************************************************************)
(* sym_check_deps (symbol.c): the search for options that depend on        *)
(* themselves, run on every symbol once the menus are final.  A symbol     *)
(* depends on those in rev_dep and in the visibility of its prompt; a      *)
(* choice and its values are searched as one, since each depends on the    *)
(* other.  The stack is kept to print the cycle.                           *)
(***************************************************************************)
EXTENDS KconfigMenu, Integers, FiniteSets

CONSTANT Orders     \* the orders for_all_symbols may go in

VARIABLES
    reports,    \* the cycles printed, each from the symbol it closes at
    zconfnerrs  \* the symbols for which the search returned one

checkvars == <<reports, zconfnerrs>>

------------------------------------------------------------------------------
\* Choice values are the entries directly under the choice.
Values == IF menu.choice = N THEN <<>>
          ELSE SelectSeq(SymOf, LAMBDA s : \E k \in Entries : SymOf[k] = s /\ parent[k] = 0)
IsValue(s) == s \in ToSet(Values)

RECURSIVE Mentions(_)
Mentions(e) ==
    CASE e.op = "none" -> <<>>
      [] e.op = "sym" -> <<e.s>>
      [] e.op = "not" -> Mentions(e.l)
      [] e.op \in {"eq", "ne"} -> <<e.s, e.c>>
      [] IsTwo(e) -> Mentions(e.l) \o Mentions(e.r)

\* The visibility of the prompt of s; selects are found from the other side.
Shown(s) ==
    IF s = menu.choice THEN menu.prompt
    ELSE vis[CHOOSE k \in Entries : SymOf[k] = s]
Depends(s) ==
    IF s \in Consts \/ s \notin ToSet(SymOf) \cup {menu.choice} THEN <<>>
    ELSE Mentions(rev[s]) \o Mentions(Shown(s))

------------------------------------------------------------------------------
(***************************************************************************)
(* The search.  x: the stack, the flags SYMBOL_CHECK and SYMBOL_CHECKED,   *)
(* what was printed, and the symbol that is returned (N if none).          *)
(***************************************************************************)
Fresh == [stack |-> <<>>, check |-> {}, checked |-> {}, reports |-> {}, found |-> N]

Push(x, s) == [x EXCEPT !.stack = Append(@, s)]
Mark(x, S) == [x EXCEPT !.check = @ \cup S, !.checked = @ \cup S]
Unmark(x, S) == [x EXCEPT !.check = @ \ S]

\* sym_check_print_recursive; nothing but a complaint when last is not there.
Report(x, s) ==
    LET stack == IF IsValue(s) THEN Append(x.stack, s) ELSE x.stack
        last == IF IsValue(s) THEN menu.choice ELSE s
        places == {i \in DOMAIN stack : stack[i] = last}
        printed == IF places = {} THEN <<>>
                   ELSE SubSeq(stack, CHOOSE i \in places : \A j \in places : j <= i, Len(stack))
    IN  [x EXCEPT !.reports = @ \cup {printed}, !.found = s]

\* A symbol that was returned and is s itself is not returned any further.
Ended(x, s) == IF x.found = s THEN [x EXCEPT !.found = N] ELSE x

\* Mutant: the values of a choice are not marked while it is searched.
Group_Alone(c) == {c}

Group(c) == ToSet(Values) \cup {c}

RECURSIVE SymCheckDeps(_, _)

\* sym_check_sym_deps
SymDeps(x, s) ==
    LET y == FoldLeft(LAMBDA acc, t : IF acc.found # N THEN acc ELSE SymCheckDeps(acc, t),
                      Push(x, s), Depends(s))
    IN  [y EXCEPT !.stack = x.stack]

\* sym_check_choice_deps
ChoiceDeps(x, c) ==
    LET y == SymDeps(Mark(Push(x, c), Group(c)), c)
        z == FoldLeft(LAMBDA acc, v : IF acc.found # N THEN acc ELSE SymDeps(acc, v),
                      Unmark(y, {c}), Values)
    IN  [Unmark(z, Group(c)) EXCEPT !.stack = x.stack,
                                    !.found = IF IsValue(@) THEN c ELSE @]

SymCheckDeps(x, s) ==
    CASE s \in x.check -> Report(x, s)
      [] s \in x.checked \ x.check -> x
      [] s \notin x.checked /\ IsValue(s) ->
            Ended([SymCheckDeps(Push(x, s), menu.choice) EXCEPT !.stack = x.stack], s)
      [] s \notin x.checked /\ s = menu.choice -> Ended(ChoiceDeps(x, s), s)
      [] OTHER -> Ended(Unmark(SymDeps(Mark(x, {s}), s), {s}), s)

\* conf_parse: every symbol in turn.
CheckAll(order) ==
    FoldLeft(LAMBDA acc, s : LET x == SymCheckDeps([acc.x EXCEPT !.found = N], s)
                             IN [x |-> x, errs |-> acc.errs + (IF x.found = N THEN 0 ELSE 1)],
             [x |-> Fresh, errs |-> 0], order)

CheckDeps ==
    /\ done = Len(SymOf) + 1
    /\ done' = done + 1
    /\ \E order \in Orders : \E r \in {CheckAll(order)} :
          reports' = r.x.reports /\ zconfnerrs' = r.errs
    /\ UNCHANGED <<menu, dep, vis, rev, dir, parent>>

CheckedNext == (Next /\ UNCHANGED checkvars) \/ CheckDeps
CheckedInit == Init /\ reports = {} /\ zconfnerrs = 0
CheckedSpec == CheckedInit /\ [][CheckedNext]_<<vars, checkvars>>

------------------------------------------------------------------------------
\* What depends on what, a choice and its values taken for one; that a value
\* depends on its own choice, and the choice on its values, is no cycle.
Node(s) == IF IsValue(s) THEN menu.choice ELSE s
Edges ==
    {<<s, t>> \in Symbols \X Symbols :
        t \in ToSet(Depends(s)) /\ ~(IsValue(s) /\ t = menu.choice)}
RECURSIVE Reach(_)
Reach(S) ==
    LET wider == S \cup {Node(e[2]) : e \in {f \in Edges : Node(f[1]) \in S}}
    IN  IF wider = S THEN S ELSE Reach(wider)
Cyclic ==
    \E s \in Symbols :
        Node(s) \in Reach({Node(e[2]) : e \in {f \in Edges : Node(f[1]) = Node(s)}})

\* Options that depend on themselves, in whatever way and through a choice or
\* not, are reported if and only if there are any, whatever the order in which
\* the symbols are searched and although the search leaves a symbol it has
\* marked; and what is printed is a cycle, each symbol of it depending on the
\* next or being of one choice with it (symbol.c:1081-1287).
CyclesAreFound ==
    done = Len(SymOf) + 2 =>
        /\ (reports # {}) = Cyclic
        /\ \A r \in reports :
              /\ r # <<>>
              /\ \A i \in DOMAIN r :
                    LET next == r[IF i = Len(r) THEN 1 ELSE i + 1]
                    IN  next \in ToSet(Depends(r[i])) \/ Node(r[i]) = Node(next)
=============================================================================
