--------------------------- MODULE MC_KconfigMenu ----------------------------
(***************************************************************************)
(* Menus with one large dependency, menus of three entries with small      *)
(* dependencies on each other, and choices of such entries.                *)
(* Sessions are followed for one menu: two configurations and three names  *)
(* a user may type, one of which is where the previous .config goes; at    *)
(* first there is nothing, a .config, an outdated one, or a .config and    *)
(* two others.                                                             *)
(***************************************************************************)
EXTENDS KconfigProgram

CONSTANTS A, B, T, C, small, large

MCSymOf == <<A, T, B>>
MCOrders == {<<A, T, B, C>>, <<C, B, T, A>>, <<T, C, A, B>>}

Comparisons == [op : {"eq", "ne"}, s : {A, T}, c : Consts]
Leaves == {Sym(s) : s \in {A, B, T} \cup Consts} \cup Comparisons
Literals == Leaves \cup {Not(e) : e \in Leaves}

\* Every pair of literals, negated or not, and four literals of A, B and T in
\* every nesting of && and ||.
Pairs2 == {Two(op, l, r) : op \in {"or", "and"}, l \in Literals, r \in Literals}
Plain == {Sym(A), Not(Sym(A)), Sym(B), Not(Sym(B)), Sym(T), Ne(T, N)}
Plain2 == {Two(op, l, r) : op \in {"or", "and"}, l \in Plain, r \in Plain}
Fours == {Two(op, l, r) : op \in {"or", "and"}, l \in Plain2, r \in Plain2}
Threes == {Two(op, Not(l), r) : op \in {"or", "and"}, l \in Plain2, r \in Literals}

Entry(d, v, t) == [dep |-> d, vis |-> v, select |-> t]
Second == Entry(Absent, Two("or", Sym(T), Eq(A, Y)), N)
Third3 == Entry(Ne(T, N), Eq(T, M), N)

OneLarge == [choice : {N}, prompt : {Absent}, parentdep : {Absent}, entries : {<<Entry(d, Absent, B), Second, Third3>> :
                d \in Pairs2 \cup Threes}]
OneNested == [choice : {N}, prompt : {Absent}, parentdep : {Sym(B)}, entries : {<<Entry(d, Absent, N), Second, Third3>> :
                d \in Fours}]

Small == {Absent, Sym(A), Not(Sym(A)), Ne(T, N), Two("or", Sym(A), Sym(B)),
          Two("and", Sym(T), Sym(A)), Two("or", Sym(T), Eq(A, Y))}
ThreeSmall ==
    [choice : {N}, prompt : {Absent}, parentdep : {Absent, Sym(B)},
     entries : {<<Entry(Absent, v, N), Entry(d, w, A), Entry(f, x, T)>> :
                v \in Small, d \in Small, w \in {Absent, Sym(A), Ne(A, N)},
                f \in Small, x \in Small}]

Few == {Absent, Sym(A), Two("or", Sym(A), Sym(B)), Not(Sym(T))}
Choice ==
    [choice : {C}, prompt : {Absent, Sym(A), Sym(B)}, parentdep : {Absent},
     entries : {<<Entry(Absent, v, N), Entry(d, Absent, s), Entry(f, x, N)>> :
                v \in Few \cup {Sym(C), Sym(B)}, d \in Few, s \in {N, A, C}, f \in Few, x \in Few}]

MCFollowed ==
    {[choice |-> N, prompt |-> Absent, parentdep |-> Absent,
      entries |-> <<Entry(Absent, Absent, N), Entry(Absent, Absent, A), Entry(Absent, Absent, T)>>]}

Dot == ".config"
MCNames == {Dot, ".config.old", "alt", "elsewhere"}
MCTyped == {Dot, ".config.old", "alt"}
MCOld == [f \in MCNames |-> IF f = Dot THEN ".config.old" ELSE
                            IF f = "elsewhere" THEN Dot ELSE "elsewhere"]
Holding(c, old, alt) ==
    [f \in MCNames |-> CASE f = Dot -> c [] f = ".config.old" -> old
                         [] f = "alt" -> alt [] OTHER -> "none"]
MCOpened == {Holding("none", "none", "none"), Holding(small, "none", "none"),
             Holding("outdated", "none", "outdated"), Holding(small, large, large)}

\* A .config only: another file cannot be read.
MCOneFile == {Holding(small, "none", "none")}

MCMenus == OneLarge \cup OneNested \cup ThreeSmall \cup Choice
=============================================================================
