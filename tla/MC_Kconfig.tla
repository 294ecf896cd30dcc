----------------------------- MODULE MC_Kconfig ------------------------------
(***************************************************************************)
(* Two bools of which the second selects a tristate, a choice, an optional *)
(* choice, a number with two defaults and a range, and a symbol without a  *)
(* prompt that depends on the number.                                      *)
(***************************************************************************)
EXTENDS Kconfig

CONSTANTS A, B, S, C, P, Q, D, U, V, I, K

MCNamed == <<A, B, S, P, Q, U, V, I, K>>
MCOrder == <<A, B, S, C, P, Q, D, U, V, I, K>>

And(e1, e2) == Two("and", e1, e2)
Default(val, cond) == [val |-> val, if |-> cond]

MCPrompt ==
    (A :> Sym(Y)) @@ (B :> Sym(A)) @@ (S :> Sym(Y)) @@ (C :> Sym(Y)) @@
    (P :> Sym(C)) @@ (Q :> And(Sym(C), Sym(B))) @@ (D :> Sym(A)) @@
    (U :> Sym(D)) @@ (V :> And(Sym(D), Sym(S))) @@ (I :> Sym(A)) @@ (K :> Sym(N))
MCRevDep ==
    [s \in All |-> CASE s = S -> Sym(B) [] s = C -> And(Sym(Y), Sym(M)) [] OTHER -> Sym(N)]
MCDefaults ==
    [s \in All |->
        CASE s = B -> <<Default(Sym(Y), Sym(A))>>
          [] s = C -> <<Default(Q, Sym(Y))>>
          [] s = I -> <<Default(1, And(Sym(A), Sym(B))), Default(3, Sym(A))>>
          [] s = K -> <<Default(Sym(Y), Eq(I, 2))>>
          [] OTHER -> <<>>]
MCRanges ==
    [s \in All |-> IF s = I THEN <<[lo |-> 0, hi |-> 2, if |-> And(Sym(A), Sym(S))]>> ELSE <<>>]
MCChoiceOf ==
    [s \in All |-> CASE s \in {P, Q} -> C [] s \in {U, V} -> D [] OTHER -> NoSym]

\* Files as a user may have edited them: several values of a choice, numbers out
\* of range, symbols that are not to be given any more.
MCFiles ==
    {[s \in ToSet(MCNamed) |-> IF s \in {A, B, P, Q} THEN f[s] ELSE IF s = I THEN i
                               ELSE IF s \in on THEN 2 ELSE Missing] :
        f \in [{A, B, P, Q} -> {Missing, 0, 2}], i \in {Missing, 1, 3},
        on \in {{}, {S}, {U}, {S, U, V}, {S, V, K}}}
=============================================================================
