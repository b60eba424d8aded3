----------------------------- MODULE Calculator -----------------------------
(***************************************************************************)
(* The calculator of the till's fast mode: the keys that build the         *)
(* expression, and the evaluator of calc.ts behind the amount to pay.      *)
(*                                                                         *)
(* A character is a string of one character; "*" and "/" stand for the two *)
(* signs on the keys.                                                      *)
(*                                                                         *)
(* A JavaScript number is a double.  It is modelled by the fraction it     *)
(* stands for and by whether it is that fraction: a quotient that is no    *)
(* binary fraction is rounded to a double, and what is computed from it is *)
(* a little off, to either side.  Amounts of a few digits are off by far   *)
(* less than they are from the next half, unless they are a half, and only *)
(* there can the final rounding tell.                                      *)
(***************************************************************************)
EXTENDS Integers, Sequences

LOCAL INSTANCE SequencesExt

CONSTANTS
    Key,       \* what the number keys append: sequences of digits
    MaxLen     \* bound: the length from which no key appends any more

Digit == <<"0", "1", "2", "3", "4", "5", "6", "7", "8", "9">>
Operator == {"+", "-", "*", "/"}
Char == Operator \cup {Digit[i] : i \in DOMAIN Digit}

ASSUME CalculatorAssumption ==
    /\ Key \subseteq Seq(Char \ Operator)
    /\ MaxLen \in Nat

VARIABLES
    fast,      \* fastModeAtom
    expr,      \* fastExprAtom
    negative   \* history: "=" put down a negative result, and it is not all gone

vars == <<fast, expr, negative>>

-----------------------------------------------------------------------------
(* The evaluator                                                           *)

Frac(n, d, exact) == [num |-> n, den |-> d, exact |-> exact]

\* n/d is a binary fraction: a double stands for it.
IsBinary(n, d) ==
    LET k == CHOOSE k \in 0..d : d % 2^k = 0 /\ d % 2^(k + 1) # 0
    IN  n % (d \div 2^k) = 0

DigitValue(c) == (CHOOSE i \in DOMAIN Digit : Digit[i] = c) - 1
Num(n) == [op |-> "none", value |-> n]
Op(c) == [op |-> c, value |-> 0]

\* There is an operand before every operator and at the end.
Tokenizes(e) ==
    /\ e # <<>> /\ e[Len(e)] \notin Operator
    /\ \A i \in DOMAIN e : e[i] \in Operator => i > 1 /\ e[i - 1] \notin Operator

\* Reading a digit extends the number at the end, or begins one.
Scan(tokens, c) ==
    IF c \in Operator THEN Append(tokens, Op(c))
    ELSE IF tokens = <<>> \/ tokens[Len(tokens)].op # "none"
    THEN Append(tokens, Num(DigitValue(c)))
    ELSE [tokens EXCEPT ![Len(tokens)].value = 10 * @ + DigitValue(c)]

Tokenize(e) == FoldLeft(Scan, <<>>, e)

Precedence(c) == IF c \in {"*", "/"} THEN 2 ELSE 1

\* Mutant: an operator of the same precedence stays on the stack.
ReducesOnlyTighter(st, t) ==
    LET Waits(o) == Precedence(o.op) <= Precedence(t.op)
        Goes(o) == ~Waits(o)
    IN  IF t.op = "none" THEN [st EXCEPT !.output = Append(@, t)]
        ELSE [output |-> st.output \o Reverse(SelectSeq(st.ops, Goes)),
              ops |-> Append(SelectSeq(st.ops, Waits), t)]

\* The stack holds operators of rising precedence: those that bind as tightly as the
\* next one are at its top, and leave it from there.
Reduce(st, t) ==
    LET Waits(o) == Precedence(o.op) < Precedence(t.op)
        Goes(o) == ~Waits(o)
    IN  IF t.op = "none" THEN [st EXCEPT !.output = Append(@, t)]
        ELSE [output |-> st.output \o Reverse(SelectSeq(st.ops, Goes)),
              ops |-> Append(SelectSeq(st.ops, Waits), t)]

ToRpn(tokens) ==
    LET st == FoldLeft(Reduce, [output |-> <<>>, ops |-> <<>>], tokens)
    IN  st.output \o Reverse(st.ops)

\* A division by zero has no value.
NoValue == Frac(0, 0, TRUE)

\* A divisor is a number that was typed, so it is not negative.
Quotient(a, b) ==
    LET n == a.num * b.den
        d == a.den * b.num
    IN  IF b.num = 0 THEN NoValue ELSE Frac(n, d, a.exact /\ b.exact /\ IsBinary(n, d))

Apply(op, a, b) ==
    LET exact == a.exact /\ b.exact
    IN  CASE a = NoValue \/ b = NoValue -> NoValue
          [] op = "+" -> Frac(a.num * b.den + b.num * a.den, a.den * b.den, exact)
          [] op = "-" -> Frac(a.num * b.den - b.num * a.den, a.den * b.den, exact)
          [] op = "*" -> Frac(a.num * b.num, a.den * b.den, exact)
          [] op = "/" -> Quotient(a, b)

EvalRpn(rpn) ==
    LET Step(stack, t) ==
            LET n == Len(stack)
            IN  IF t.op = "none" THEN Append(stack, Frac(t.value, 1, TRUE))
                ELSE Append(SubSeq(stack, 1, n - 2), Apply(t.op, stack[n - 1], stack[n]))
    IN  FoldLeft(Step, <<>>, rpn)[1]

\* Math.round: halves go up, also below zero.  A half that is a little off goes either way.
Round(q) ==
    LET up == (2 * q.num + q.den) \div (2 * q.den)
        isHalf == (2 * q.num + q.den) % (2 * q.den) = 0
    IN  IF isHalf /\ ~q.exact THEN {up - 1, up} ELSE {up}

Value(e) == IF Tokenizes(e) THEN EvalRpn(ToRpn(Tokenize(e))) ELSE NoValue
HasValue(e) == Value(e) # NoValue

\* What evalExpr may return.
EvalExpr(e) == Round(Value(e))

\* What fastAmountAtom may be.
Amount == IF fast /\ HasValue(expr) THEN EvalExpr(expr) ELSE {0}

-----------------------------------------------------------------------------
(* The keys                                                                *)

Init == fast = FALSE /\ expr = <<>> /\ negative = FALSE

Enter(e) ==
    /\ expr' = e
    /\ negative' = (negative /\ e # <<>>)
    /\ UNCHANGED fast

PushDigits(key) == fast /\ Len(expr) < MaxLen /\ Enter(expr \o key)

\* Mutant: a second operator does not replace the first.
PushDouble(c) == fast /\ expr # <<>> /\ Len(expr) < MaxLen /\ Enter(Append(expr, c))

\* No leading operator, no doubles.
PushOperator(c) ==
    /\ fast /\ expr # <<>> /\ Len(expr) < MaxLen
    /\ Enter(Append(IF expr[Len(expr)] \in Operator THEN Front(expr) ELSE expr, c))

Backspace == fast /\ expr # <<>> /\ Enter(Front(expr))

Clear == fast /\ expr # <<>> /\ Enter(<<>>)

\* String(n), for an integer.
Shown(n) ==
    LET m == IF n < 0 THEN -n ELSE n
        k == CHOOSE k \in 1..10 : m < 10^k /\ (k = 1 \/ m >= 10^(k - 1))
    IN  (IF n < 0 THEN <<"-">> ELSE <<>>)
        \o [i \in 1..k |-> Digit[((m \div 10^(k - i)) % 10) + 1]]

Equals ==
    /\ fast /\ HasValue(expr)
    /\ \E n \in EvalExpr(expr) : expr' = Shown(n) /\ negative' = (n < 0)
    /\ UNCHANGED fast

\* Leaving a mode empties it.
ToggleFastMode ==
    /\ fast' = ~fast
    /\ expr' = (IF fast THEN <<>> ELSE expr)
    /\ negative' = FALSE

Calculate ==
    \/ \E key \in Key : PushDigits(key)
    \/ \E c \in Operator : PushOperator(c)
    \/ Backspace \/ Clear \/ Equals

Next == Calculate \/ ToggleFastMode

Spec == Init /\ [][Next]_vars
=============================================================================
