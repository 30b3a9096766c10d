---------------------------- MODULE BoardUtilities ----------------------------
(***************************************************************************)
(* The pure functions of utilities.c.  The width of the integers and the   *)
(* generator's multiplier and increment are constants, so that TLC can     *)
(* take small ones and the proofs any.                                     *)
(***************************************************************************)
EXTENDS Integers

CONSTANTS
    IntMax,   \* 2^31 - 1: int32_t, and the mask of rand_value
    RandMul,  \* 1103515245
    RandAdd   \* 12345

ASSUME UtilitiesAssumption ==
    /\ IntMax \in Nat /\ RandMul \in Nat /\ RandAdd \in Nat

-----------------------------------------------------------------------------
(* Random numbers: rand_value is the generator's state.                    *)

srand1(seed) == IF seed > IntMax THEN seed - 2 * (IntMax + 1) ELSE seed

rand(value) == (value * RandMul + RandAdd) % (IntMax + 1)

\* Undefined when max - min + 1 is beyond IntMax or not positive.
randr(value, min, max) == (rand(value) % (max - min + 1)) + min

(* Whatever the seed, a random number lies in the range asked for, its     *)
(* ends included, as long as the range's width is an int32_t; and a range  *)
(* of one number gives that number.                                        *)
RandrInRange ==
    \A seed \in 0 .. 2 * IntMax + 1, min, max \in -IntMax - 1 .. IntMax :
        min <= max /\ max - min + 1 <= IntMax =>
            /\ randr(srand1(seed), min, max) \in min .. max
            /\ randr(rand(srand1(seed)), min, max) \in min .. max

-----------------------------------------------------------------------------
(* Memory, as a sequence of bytes from which dst and src are places.       *)

memcpy1(m, dst, src, size) ==
    [a \in DOMAIN m |-> IF a - dst \in 0 .. size - 1 THEN m[src + a - dst] ELSE m[a]]

\* Byte by byte: where dst and src overlap, a byte written is read again.
memcpyr(m, dst, src, size) ==
    LET after[i \in 0 .. size] ==
            IF i = 0 THEN m ELSE [after[i - 1] EXCEPT ![dst + i - 1] = after[i - 1][src + size - i]]
    IN  after[size]

memset1(m, dst, value, size) == [a \in DOMAIN m |-> IF a - dst \in 0 .. size - 1 THEN value ELSE m[a]]

(* memcpyr copies src reversed, and touches nothing else, when the two     *)
(* areas do not overlap; copying it back restores src.                     *)
MemcpyrReverses ==
    \A size \in 0 .. 3, dst, src \in 1 .. 6 :
        LET m == [a \in 1 .. 6 |-> a]
            r == memcpyr(m, dst, src, size)
        IN  /\ dst + size <= 7 /\ src + size <= 7
            /\ dst + size <= src \/ src + size <= dst
            => /\ \A a \in 1 .. 6 : r[a] = IF a - dst \in 0 .. size - 1 THEN src + size - 1 - (a - dst) ELSE a
               /\ memcpyr(memset1(r, src, 0, size), src, dst, size) = r

-----------------------------------------------------------------------------
(* Rounding, of the rational n / d with d > 0.  A conversion to int64_t    *)
(* truncates towards zero.                                                 *)

Truncated(n, d) == IF n >= 0 THEN n \div d ELSE -((-n) \div d)

ceil(n, d)  == IF n = Truncated(n, d) * d THEN Truncated(n, d) ELSE Truncated(n, d) + 1
floor(n, d) == Truncated(n, d)
round(n, d) == Truncated(2 * n + d, 2 * d)

(* For what is not negative, ceil is the least integer not below, floor    *)
(* the greatest not above, and round the nearest, halves up.  (Below zero  *)
(* ceil and floor are wrong for every number that is not whole.)           *)
RoundingIsRight ==
    \A n \in 0 .. 24, d \in 1 .. 5 :
        /\ ceil(n, d) * d >= n /\ (ceil(n, d) - 1) * d < n
        /\ floor(n, d) * d <= n /\ (floor(n, d) + 1) * d > n
        /\ 2 * round(n, d) * d <= 2 * n + d /\ 2 * (round(n, d) + 1) * d > 2 * n + d
=============================================================================
