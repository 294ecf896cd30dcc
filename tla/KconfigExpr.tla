----------------------------- MODULE KconfigExpr -----------------------------
(***************************************************************************)
(* The dependency expressions of the configuration system: their value and *)
(* the rewriting passes menu_finalize applies to them (expr.c).  A chain   *)
(* of || or && is read through its operands: every pass walks the leaves   *)
(* of a chain from left to right and none looks at how it is nested, so a  *)
(* pass may rebuild it nested to the left.                                 *)
(***************************************************************************)
EXTENDS Naturals, Sequences, SequencesExt

CONSTANTS
    Bools,      \* the symbols of type bool
    Tris,       \* the symbols of type tristate
    Y, M, N     \* the constant symbols symbol_yes, symbol_mod and symbol_no

ASSUME SymbolsDistinct ==
    /\ Bools \cap Tris = {}
    /\ Y # M /\ Y # N /\ M # N
    /\ {Y, M, N} \cap (Bools \cup Tris) = {}

Consts == {Y, M, N}
Symbols == Bools \cup Tris

(***************************************************************************)
(* Constructors.  Absent is the null expression, which counts as "y".      *)
(***************************************************************************)
Absent == [op |-> "none"]
Sym(s) == [op |-> "sym", s |-> s]
Eq(s, c) == [op |-> "eq", s |-> s, c |-> c]
Ne(s, c) == [op |-> "ne", s |-> s, c |-> c]
Not(e) == [op |-> "not", l |-> e]
Two(type, e1, e2) == [op |-> type, l |-> e1, r |-> e2]

\* expr_alloc_and and expr_alloc_or: a null operand is left out.
AllocTwo(type, e1, e2) ==
    IF e1 = Absent THEN e2 ELSE IF e2 = Absent THEN e1 ELSE Two(type, e1, e2)

IsTwo(e) == e.op \in {"or", "and"}
IsYes(e) == e \in {Absent, Sym(Y)}
\* What an operand is replaced by when it no longer matters in its chain.
Neutral(type) == IF type = "or" THEN Sym(N) ELSE Sym(Y)
Other(type) == IF type = "or" THEN "and" ELSE "or"

RECURSIVE Operands(_, _)
Operands(type, e) ==
    IF e.op = type THEN Operands(type, e.l) \o Operands(type, e.r) ELSE <<e>>

Chain(type, s) == FoldLeft(LAMBDA acc, e : Two(type, acc, e), Head(s), Tail(s))

\* All pairs of positions of two chains, the first position varying slowest.
Pairs(m, n) == [k \in 1..(m * n) |-> <<((k - 1) \div n) + 1, ((k - 1) % n) + 1>>]

------------------------------------------------------------------------------
(***************************************************************************)
(* The value of an expression: 0 for n, 1 for m, 2 for y.  val gives the   *)
(* symbols their values.                                                   *)
(***************************************************************************)
ValOf(val, s) ==
    IF s = Y THEN 2 ELSE IF s = M THEN 1 ELSE IF s = N THEN 0 ELSE val[s]

Lesser(a, b) == IF a < b THEN a ELSE b
Greater(a, b) == IF a > b THEN a ELSE b

RECURSIVE CalcValue(_, _)
CalcValue(val, e) ==
    CASE e.op = "none" -> 2
      [] e.op = "sym"  -> ValOf(val, e.s)
      [] e.op = "and"  -> Lesser(CalcValue(val, e.l), CalcValue(val, e.r))
      [] e.op = "or"   -> Greater(CalcValue(val, e.l), CalcValue(val, e.r))
      [] e.op = "not"  -> 2 - CalcValue(val, e.l)
      [] e.op = "eq"   -> IF ValOf(val, e.s) = ValOf(val, e.c) THEN 2 ELSE 0
      [] e.op = "ne"   -> IF ValOf(val, e.s) = ValOf(val, e.c) THEN 0 ELSE 2

------------------------------------------------------------------------------
(***************************************************************************)
(* Removing the constant operands, and comparing two expressions.          *)
(***************************************************************************)
\* A connective of two operands already cleared of constants.
Simplified(type, l, r) ==
    CASE l = Neutral(Other(type)) -> l
      [] l = Neutral(type) -> r
      [] r = Neutral(Other(type)) -> r
      [] r = Neutral(type) -> l
      [] OTHER -> Two(type, l, r)

RECURSIVE EliminateYn(_)
EliminateYn(e) ==
    IF IsTwo(e) THEN Simplified(e.op, EliminateYn(e.l), EliminateYn(e.r)) ELSE e

\* Two chains, as their operands; operands i[1] and i[2] are crossed out.
TwoChains(type, p) == <<Operands(type, p[1]), Operands(type, p[2])>>
Rebuilt(type, s) == <<Chain(type, s[1]), Chain(type, s[2])>>
CrossOut(type, s, i) ==
    [s EXCEPT ![1] = [@ EXCEPT ![i[1]] = Neutral(type)],
              ![2] = [@ EXCEPT ![i[2]] = Neutral(type)]]
CleanedBoth(p) == <<EliminateYn(p[1]), EliminateYn(p[2])>>

RECURSIVE ExprEq(_, _)

\* __expr_eliminate_eq: equal operands of the two chains cancel out.
Cancels(x, y) == ~(x = y /\ x \in {Sym(Y), Sym(N)}) /\ ExprEq(x, y)

CancelAll(type, s) ==
    FoldLeft(LAMBDA acc, i : IF Cancels(acc[1][i[1]], acc[2][i[2]])
                             THEN CrossOut(type, acc, i) ELSE acc,
             s, Pairs(Len(s[1]), Len(s[2])))

Cancel(type, p) == Rebuilt(type, CancelAll(type, TwoChains(type, p)))

\* By the connective of the first expression, then by that of the second.
CancelFirst(p) == IF IsTwo(p[1]) THEN Cancel(p[1].op, p) ELSE p
CancelSecond(p) ==
    IF IsTwo(p[2]) /\ p[1].op # p[2].op THEN Cancel(p[2].op, p) ELSE p

EliminateEq(e1, e2) ==
    IF Absent \in {e1, e2} THEN <<e1, e2>>
    ELSE CleanedBoth(CancelSecond(CancelFirst(<<e1, e2>>)))

\* What is left of both is the same constant.
NothingLeft(p) == p[1].op = "sym" /\ p[1] = p[2]

ExprEq(e1, e2) ==
    /\ e1.op = e2.op
    /\ IF IsTwo(e1) THEN NothingLeft(EliminateEq(e1, e2))
       ELSE IF e1.op = "not" THEN ExprEq(e1.l, e2.l)
       ELSE e1 = e2

\* expr_extract_eq: what the two chains have in common is taken out of both.
\* When there is nothing, even the constants stay.
ExtractAll(type, s) ==
    FoldLeft(LAMBDA acc, i : IF ExprEq(acc.s[1][i[1]], acc.s[2][i[2]])
                             THEN [s |-> CrossOut(type, acc.s, i), some |-> TRUE]
                             ELSE acc,
             [s |-> s, some |-> FALSE], Pairs(Len(s[1]), Len(s[2])))

Extracted(type, acc) ==
    IF acc.some THEN CleanedBoth(Rebuilt(type, acc.s)) ELSE Rebuilt(type, acc.s)

Extract(type, e1, e2) == Extracted(type, ExtractAll(type, TwoChains(type, <<e1, e2>>)))

------------------------------------------------------------------------------
(***************************************************************************)
(* Negations pushed to the leaves, comparisons of bools made plain.        *)
(***************************************************************************)
RECURSIVE Transform(_)

\* Of an expression whose operands are transformed.
TransformTop(a) ==
    LET bool == a.op \in {"eq", "ne"} /\ a.s \in Bools /\ a.c \in Consts
    IN  CASE bool /\ a.c = M -> IF a.op = "eq" THEN Sym(N) ELSE Sym(Y)
          [] bool /\ a.c # M -> IF (a.op = "eq") = (a.c = Y) THEN Sym(a.s)
                                ELSE Not(Sym(a.s))
          [] a.op = "not" /\ a.l.op = "not" -> Transform(a.l.l)
          [] a.op = "not" /\ a.l.op = "eq" -> Ne(a.l.s, a.l.c)
          [] a.op = "not" /\ a.l.op = "ne" -> Eq(a.l.s, a.l.c)
          [] a.op = "not" /\ IsTwo(a.l) ->
                Transform(Two(Other(a.l.op), Not(a.l.l), Not(a.l.r)))
          [] a = Not(Sym(Y)) -> Sym(N)
          [] a = Not(Sym(M)) -> Sym(M)
          [] a = Not(Sym(N)) -> Sym(Y)
          [] OTHER -> a

Transform(e) ==
    CASE IsTwo(e) -> TransformTop(Two(e.op, Transform(e.l), Transform(e.r)))
      [] e.op = "not" -> TransformTop(Not(Transform(e.l)))
      [] OTHER -> TransformTop(e)

\* For a bool, "FOO != n" may as well be "FOO".
RECURSIVE TransBool(_)
TransBool(e) ==
    IF IsTwo(e) THEN Two(e.op, TransBool(e.l), TransBool(e.r))
    ELSE IF e.op = "not" THEN Not(TransBool(e.l))
    ELSE IF e.op = "ne" /\ e.s \in Tris /\ e.c = N THEN Sym(e.s)
    ELSE e

------------------------------------------------------------------------------
(***************************************************************************)
(* Joining two operands that speak of the same symbol.  Absent: they stay. *)
(***************************************************************************)
Atom(e) == e.op \in {"eq", "ne", "sym"}

\* The right operand may be a negated symbol, the left one also a negated
\* comparison.
Joinable(e1, e2) ==
    /\ Atom(e1) \/ (e1.op = "not" /\ Atom(e1.l))
    /\ Atom(e2) \/ (e2.op = "not" /\ e2.l.op = "sym")
    /\ LET s1 == IF e1.op = "not" THEN e1.l.s ELSE e1.s
           s2 == IF e2.op = "not" THEN e2.l.s ELSE e2.s
       IN  s1 = s2 /\ s1 \in Symbols

\* Two comparisons of the same kind with two of the three constants.
BothCompare(op, e1, e2) ==
    e1.op = op /\ e2.op = op /\ {e1.c, e2.c} \subseteq Consts /\ e1.c # e2.c
Third(e1, e2) == CHOOSE c \in Consts : c \notin {e1.c, e2.c}

JoinOr(e1, e2) ==
    IF ExprEq(e1, e2) THEN e1
    ELSE IF ~Joinable(e1, e2) THEN Absent
    ELSE LET s == IF e1.op = "not" THEN e1.l.s ELSE e1.s
         IN  CASE s \in Tris /\ BothCompare("eq", e1, e2) -> Ne(s, Third(e1, e2))
               [] s \in Bools /\ {e1, e2} = {Sym(s), Not(Sym(s))} -> Sym(Y)
               [] OTHER -> Absent

\* Mutant: "a && a != c" taken for "a = y" whatever the constant c.
JoinAnd_AnyEqual(e1, e2) ==
    IF ExprEq(e1, e2) THEN e1
    ELSE IF Joinable(e1, e2) /\ e1.op = "sym" /\ e2.op = "ne" THEN Eq(e1.s, Y)
    ELSE Absent

JoinAnd(e1, e2) ==
    IF ExprEq(e1, e2) THEN e1
    ELSE IF ~Joinable(e1, e2) THEN Absent
    ELSE LET s == IF e1.op = "not" THEN e1.l.s ELSE e1.s
             With(e) == {e1, e2} = {Sym(s), e}
             equal == IF e1.op = "eq" THEN e1 ELSE e2
             unequal == IF e1.op = "ne" THEN e1 ELSE e2
         IN  CASE With(Eq(s, Y)) \/ With(Ne(s, M)) -> Eq(s, Y)
               [] With(Ne(s, N)) -> Sym(s)
               [] /\ s \in Tris
                  /\ {e1.op, e2.op} = {"eq", "ne"}
                  /\ {e1.c, e2.c} \subseteq Consts ->
                     IF equal.c = unequal.c THEN Sym(N) ELSE equal
               [] s \in Tris /\ BothCompare("ne", e1, e2) -> Eq(s, Third(e1, e2))
               [] OTHER -> Absent

Join(type, e1, e2) == IF type = "or" THEN JoinOr(e1, e2) ELSE JoinAnd(e1, e2)

------------------------------------------------------------------------------
(***************************************************************************)
(* expr_eliminate_dups.  A pass returns the chain and whether it changed   *)
(* anything (trans_count), in the chain itself or in one inside it.        *)
(***************************************************************************)
Unchanged(e) == [e |-> e, changed |-> FALSE]
InChain(type, acc) == [e |-> Chain(type, acc.s), changed |-> acc.changed]

RECURSIVE Dups1(_)

\* Operand i[1], already rewritten to in, is joined with operand i[2] to t.
Joined1(type, acc, i, in, t) ==
    IF t = Absent
    THEN [s |-> [acc.s EXCEPT ![i[1]] = in.e], changed |-> acc.changed \/ in.changed]
    ELSE [s |-> [acc.s EXCEPT ![i[1]] = Neutral(type), ![i[2]] = t], changed |-> TRUE]

With1(type, acc, i, in) == Joined1(type, acc, i, in, Join(type, in.e, acc.s[i[2]]))

Pair1(type, acc, i) ==
    CASE i[1] = i[2] -> acc
      [] i[1] # i[2] /\ IsTwo(acc.s[i[1]]) -> With1(type, acc, i, Dups1(acc.s[i[1]]))
      [] i[1] # i[2] /\ ~IsTwo(acc.s[i[1]]) -> With1(type, acc, i, Unchanged(acc.s[i[1]]))

AllPairs1(type, s) ==
    InChain(type, FoldLeft(LAMBDA acc, i : Pair1(type, acc, i),
                           [s |-> s, changed |-> FALSE], Pairs(Len(s), Len(s))))

Dups1(e) == AllPairs1(e.op, Operands(e.op, e))

\* (FOO || BAR) && (!FOO && !BAR) is n, and the dual: an operand is dropped
\* when all of its negation is found in another operand or in the whole chain,
\* which comes last.
RECURSIVE Dups2(_)

Dropped2(type, s, i, changed, rest) ==
    IF rest[1] = Neutral(type)
    THEN [s |-> [s EXCEPT ![i[1]] = Neutral(Other(type))], changed |-> TRUE]
    ELSE [s |-> s, changed |-> changed]

Within2(type, s, i, changed) ==
    Dropped2(type, s, i, changed,
             Extract(type, Transform(Not(s[i[1]])),
                     IF i[2] > Len(s) THEN Chain(type, s) ELSE s[i[2]]))

With2(type, acc, i, in) ==
    Within2(type, [acc.s EXCEPT ![i[1]] = in.e], i, acc.changed \/ in.changed)

Pair2(type, acc, i) ==
    IF i[1] = i[2] \/ ~IsTwo(acc.s[i[1]]) THEN acc
    ELSE With2(type, acc, i, Dups2(acc.s[i[1]]))

AllPairs2(type, s) ==
    InChain(type, FoldLeft(LAMBDA acc, i : Pair2(type, acc, i),
                           [s |-> s, changed |-> FALSE], Pairs(Len(s), Len(s) + 1)))

Dups2(e) == AllPairs2(e.op, Operands(e.op, e))

BothPasses(p, q) == [e |-> q.e, changed |-> p.changed \/ q.changed]
DupsPass(p) == BothPasses(p, Dups2(p.e))

RECURSIVE EliminateDups(_)
Repeat(pass) ==
    IF pass.changed THEN EliminateDups(EliminateYn(pass.e)) ELSE pass.e
EliminateDups(e) == IF IsTwo(e) THEN Repeat(DupsPass(Dups1(e))) ELSE e

------------------------------------------------------------------------------
(***************************************************************************)
(* Questions about an expression, for the menu tree.                       *)
(***************************************************************************)
RECURSIVE TransCompare(_, _, _)
\* The expression for "e = c", or "e != c", with c one of Y and N.
TransCompare(e, op, c) ==
    LET wrap(x) == IF op = "ne" THEN Not(x) ELSE x
    IN  CASE e = Absent -> wrap(Sym(c))
          [] IsTwo(e) -> wrap(Two(IF c = Y THEN e.op ELSE Other(e.op),
                                  TransCompare(e.l, "eq", c), TransCompare(e.r, "eq", c)))
          [] e.op = "not" -> TransCompare(e.l, IF op = "eq" THEN "ne" ELSE "eq", c)
          [] e.op \in {"eq", "ne"} -> IF (op = "eq") = (c = Y) THEN e ELSE Not(e)
          [] e.op = "sym" -> [op |-> op, s |-> e.s, c |-> c]

RECURSIVE ContainsSymbol(_, _)
ContainsSymbol(e, s) ==
    CASE e.op = "none" -> FALSE
      [] IsTwo(e) -> ContainsSymbol(e.l, s) \/ ContainsSymbol(e.r, s)
      [] e.op = "not" -> ContainsSymbol(e.l, s)
      [] e.op \in {"eq", "ne"} -> s \in {e.s, e.c}
      [] e.op = "sym" -> e.s = s

RECURSIVE DependsSymbol(_, _)
DependsSymbol(e, s) ==
    \/ e.op = "and" /\ (DependsSymbol(e.l, s) \/ DependsSymbol(e.r, s))
    \/ e \in {Sym(s), Eq(s, Y), Eq(s, M), Ne(s, N)}
=============================================================================
