---------------------------- MODULE MCCalculator ----------------------------
(***************************************************************************)
(* An instance of Calculator, with the definition its evaluator is checked *)
(* against: an expression is split at the operator that binds least, the   *)
(* last of them, and its two sides have their values by themselves.        *)
(***************************************************************************)
EXTENDS Calculator, Functions

MCKey == {<<"3">>, <<"6">>, <<"0", "0", "0">>}

\* The place of the last operator of the lowest precedence.
SplitAt(e) ==
    LET at == {i \in DOMAIN e : e[i] \in Operator}
        low == {i \in at : Precedence(e[i]) = 1}
        least == IF low = {} THEN at ELSE low
    IN  CHOOSE i \in least : \A j \in least : j <= i

RECURSIVE Meaning(_)
Meaning(e) ==
    IF \A i \in DOMAIN e : e[i] \notin Operator
    THEN Frac(FoldFunctionOnSet(+, 0,
                  [i \in DOMAIN e |-> DigitValue(e[i]) * 10^(Len(e) - i)], DOMAIN e), 1, TRUE)
    ELSE LET i == SplitAt(e)
         IN  Apply(e[i], Meaning(SubSeq(e, 1, i - 1)), Meaning(SubSeq(e, i + 1, Len(e))))

\* The amount to pay is the whole number nearest to what the expression means: products
\* and quotients before sums and differences, each from left to right, and rounded once,
\* at the end.  Of two that are equally near it is the upper one, and may be the lower
\* one only when a quotient was no binary fraction.
AmountIsMeant ==
    fast /\ Tokenizes(expr) =>
        LET q == Meaning(expr)
        IN  \A n \in Amount :
                IF q.den = 0 THEN n = 0
                ELSE LET off == 2 * (n * q.den - q.num)
                     IN  -q.den <= off /\ off <= q.den /\ (off = -q.den => ~q.exact)

\* What the keys have built is an expression, or becomes one with a digit, unless it
\* goes back to a negative result.
TypedIsExpression ==
    \/ expr = <<>> \/ negative
    \/ Tokenizes(expr) \/ Tokenizes(Append(expr, "1"))
=============================================================================
