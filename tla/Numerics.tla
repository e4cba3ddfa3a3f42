---- MODULE Numerics ----
(***************************************************************************)
(* Arithmetic on integers of a fixed width that never leaves it: the       *)
(* operations of Entier (runtime/numeric.hpp) and those of instants and    *)
(* durations (stdlib/temps.cpp).  Each looks at its operands before it     *)
(* computes, because a sum out of range is undefined in C++; the questions *)
(* it asks must themselves stay in range.  Then those of Maths on integers *)
(* (stdlib/maths.cpp) and the interval of Aléatoire.entier.                *)
(***************************************************************************)
EXTENDS Integers

CONSTANT MaxEntier   \* INT64_MAX
ASSUME MaxEntierIsANumber == MaxEntier \in Nat \ {0}

MinEntier == -MaxEntier - 1
Entier == MinEntier..MaxEntier

\* std::optional: a number, or nothing.
Just(n) == [some |-> TRUE, n |-> n]
Nothing == [some |-> FALSE, n |-> 0]
\* What an operation promises: the exact result when an Entier can hold it.
Exact(n) == IF n \in Entier THEN Just(n) ELSE Nothing

\* The quotient and the remainder of C++, which round towards zero.
Abs(n) == IF n < 0 THEN -n ELSE n
Quotient(a, b) == IF (a < 0) = (b < 0) THEN Abs(a) \div Abs(b) ELSE -(Abs(a) \div Abs(b))
Rest(a, b) == IF a < 0 THEN -(Abs(a) % Abs(b)) ELSE Abs(a) % Abs(b)

-----------------------------------------------------------------------------
(* numeric.hpp.                                                             *)
Add(a, b) ==
    IF (b > 0 /\ a > MaxEntier - b) \/ (b < 0 /\ a < MinEntier - b) THEN Nothing ELSE Just(a + b)
\* Mutant: the negative limit is taken for the opposite of the positive one.
SubtractSymmetric(a, b) ==
    IF (b < 0 /\ a > MaxEntier + b) \/ (b > 0 /\ a < -MaxEntier + b) THEN Nothing ELSE Just(a - b)
Subtract(a, b) ==
    IF (b < 0 /\ a > MaxEntier + b) \/ (b > 0 /\ a < MinEntier + b) THEN Nothing ELSE Just(a - b)
Multiply(a, b) ==
    IF \/ a > 0 /\ (\/ b > 0 /\ a > Quotient(MaxEntier, b)
                    \/ b < 0 /\ b < Quotient(MinEntier, a))
       \/ a < 0 /\ (\/ b > 0 /\ a < Quotient(MinEntier, b)
                    \/ b < 0 /\ a < Quotient(MaxEntier, b))
    THEN Nothing ELSE Just(a * b)
Divide(a, b) == IF b = 0 \/ (a = MinEntier /\ b = -1) THEN Nothing ELSE Just(Quotient(a, b))
Remainder(a, b) ==
    IF b = 0 THEN Nothing
    ELSE IF a = MinEntier /\ b = -1 THEN Just(0)
    ELSE Just(Rest(a, b))
Negate(a) == Subtract(0, a)

-----------------------------------------------------------------------------
(* temps.cpp.                                                               *)
Ajouter(millis, duration) ==
    IF (duration > 0 /\ millis > MaxEntier - duration) \/ (duration < 0 /\ millis < MinEntier - duration)
    THEN Nothing ELSE Just(millis + duration)
Soustraire(millis, duration) ==
    IF (duration < 0 /\ millis > MaxEntier + duration) \/ (duration > 0 /\ millis < MinEntier + duration)
    THEN Nothing ELSE Just(millis - duration)
Entre(start, end) ==
    IF (start > 0 /\ end < MinEntier + start) \/ (start < 0 /\ end > MaxEntier + start)
    THEN Nothing ELSE Just(end - start)
\* bind_duration_constructor, for a unit of `factor` milliseconds.
DurationOf(amount, factor) ==
    IF \/ amount > 0 /\ amount > Quotient(MaxEntier, factor)
       \/ amount < 0 /\ amount < Quotient(MinEntier, factor)
    THEN Nothing ELSE Just(amount * factor)

-----------------------------------------------------------------------------
(* maths.cpp and aleatoire.cpp.                                             *)
Absolu(a) == IF a = MinEntier THEN Nothing ELSE Just(Abs(a))
\* integer_power: by squares, the last of which is the one of the highest bit.
IntegerPower(base, exponent) ==
    LET bits == CHOOSE k \in 0..exponent : exponent < 2^k /\ (k > 0 => 2^(k - 1) <= exponent)
        Square[k \in 0..bits] ==
            IF k = 0 THEN Just(base)
            ELSE IF Square[k - 1].some THEN Multiply(Square[k - 1].n, Square[k - 1].n) ELSE Nothing
        Result[k \in 0..bits] ==
            IF k = 0 THEN Just(1)
            ELSE IF ~Square[k - 1].some \/ ~Result[k - 1].some THEN Nothing
            ELSE IF (exponent \div 2^(k - 1)) % 2 = 1 THEN Multiply(Result[k - 1].n, Square[k - 1].n)
            ELSE Result[k - 1]
    IN Result[bits]
\* What fits between two bounds of Aléatoire.entier may be chosen; its size is asked without a subtraction that overflows.
IntervalFits(lo, hi) == lo <= hi /\ IF lo > 0 THEN hi - lo <= MaxEntier ELSE hi <= MaxEntier + lo
\* arrondir, plancher, plafond and tronquer of n / unit; the greatest double compared with is MaxEntier + 1.
RoundedInteger(n, unit, rounded) ==
    IF n < MinEntier * unit \/ n > (MaxEntier + 1) * unit THEN Nothing ELSE Exact(rounded)
Plancher(n, unit) == RoundedInteger(n, unit, n \div unit)
Plafond(n, unit) == RoundedInteger(n, unit, -((-n) \div unit))
Tronquer(n, unit) == RoundedInteger(n, unit, Quotient(n, unit))
Arrondir(n, unit) == RoundedInteger(n, unit, Quotient(2 * n + (IF n < 0 THEN -unit ELSE unit), 2 * unit))
====
