-------------------------------- MODULE Word --------------------------------
(* Words of a fixed width.  A word is a number in 0..2^n-1 where the unit   *)
(* adds, multiplies or divides it, and the set of its one bits (0 is the    *)
(* least significant) where the unit masks, rotates or counts it.           *)
EXTENDS Integers, FiniteSetsExt

B(p) == IF p THEN 1 ELSE 0

Slice(x, lo, n) == (x \div 2^lo) % 2^n
Bit(x, i) == Slice(x, i, 1)
Not(x, n) == 2^n - 1 - x
Neg(x, n) == (-x) % 2^n
Signed(x, n) == IF x % 2^n < 2^(n - 1) THEN x % 2^n ELSE (x % 2^n) - 2^n
Exts(x, from, to) == Signed(x, from) % 2^to

\* the bits of a number, moved up by lo, and the number of a set of bits
BitsOf(x, lo, n) == {lo + i : i \in {j \in 0 .. n - 1 : Bit(x, j) = 1}}
Num(S) == MapThenSumSet(LAMBDA k : 2^k, S)

(* Condition register field: what the output stage makes of a result.       *)
CrField(so, nonzero, negative) ==
    {f \in {"SO", "EQ", "GT", "LT"} :
        \/ f = "SO" /\ so
        \/ f = "EQ" /\ ~nonzero
        \/ f = "GT" /\ nonzero /\ ~negative
        \/ f = "LT" /\ negative}
=============================================================================
