---------------------------- MODULE Decimals ----------------------------
(* The decimal numbers that the reports calculate with (Python's decimal): *)
(* n * 10^e, every result rounded to Precision digits, half to even.       *)
(* Python keeps 28 digits.  The proofs hold for any Precision; the runs    *)
(* take a small one, which keeps TLC within its integers and shows the     *)
(* same roundings.                                                         *)
EXTENDS Integers

CONSTANT Precision

ASSUME PrecisionAssumption == Precision \in Nat \ {0}

Dec(n) == [n |-> n, e |-> 0]

Abs(x) == IF x < 0 THEN -x ELSE x

Lower(x, y) == IF x < y THEN x ELSE y

(* A number below 10^9 has nine digits at most, and one of m times 10^9    *)
(* has no more than 9 + m.                                                 *)
Digits(n) ==
    CHOOSE k \in 1 .. 9 + (Abs(n) \div 10^9) : Abs(n) < 10^k /\ (k > 1 => Abs(n) >= 10^(k - 1))

(* num / den to the nearest integer, for den > 0.                          *)
HalfEven(num, den) ==
    LET q == Abs(num) \div den
        twice == 2 * (Abs(num) % den)
        up == twice > den \/ (twice = den /\ q % 2 = 1)
        r == IF up THEN q + 1 ELSE q
    IN IF num < 0 THEN -r ELSE r

(* A carry may leave one digit more than Precision; it is a zero.          *)
Fit(n, e) ==
    LET over == Digits(n) - Precision
    IN IF over <= 0 THEN [n |-> n, e |-> e]
       ELSE [n |-> HalfEven(n, 10^over), e |-> e + over]

Times(a, b) == Fit(a.n * b.n, a.e + b.e)

Minus(a, b) ==
    LET e == Lower(a.e, b.e)
    IN Fit(a.n * 10^(a.e - e) - b.n * 10^(b.e - e), e)

(* The quotient is scaled to exactly Precision digits and rounded once.    *)
Over(a, b) ==
    LET Scaled(k) == IF k >= 0 THEN <<Abs(a.n) * 10^k, Abs(b.n)>>
                               ELSE <<Abs(a.n), Abs(b.n) * 10^(-k)>>
        widest == Precision + Digits(b.n) - Digits(a.n)
        k == IF Scaled(widest)[1] >= Scaled(widest)[2] * 10^Precision
             THEN widest - 1 ELSE widest
        q == HalfEven(Scaled(k)[1], Scaled(k)[2])
        sign == IF (a.n < 0) = (b.n < 0) THEN 1 ELSE -1
    IN IF a.n = 0 THEN Dec(0) ELSE [n |-> sign * q, e |-> a.e - b.e - k]

Leq(a, b) ==
    LET e == Lower(a.e, b.e)
    IN a.n * 10^(a.e - e) <= b.n * 10^(b.e - e)

Less(a, b) == ~Leq(b, a)

Magnitude(a) == [a EXCEPT !.n = Abs(@)]
=============================================================================
