---------------------------- MODULE RandomHeight ----------------------------
(***************************************************************************)
(* randomHeight of src/rope/util.go as a function of the random word it    *)
(* draws.  The code draws a 32-bit word and caps at maxHeight = 32, the    *)
(* word width; the model keeps that relation with WordBits words.          *)
(***************************************************************************)
EXTENDS Integers

CONSTANTS WordBits, MaxHeight

\* The words rand.Uint32() can return.
Words == 0 .. 2^WordBits - 1

\* bits.TrailingZeros32: the number of trailing zero bits, WordBits for 0.
RECURSIVE TrailingZerosFrom(_, _)
TrailingZerosFrom(x, k) ==
    IF k = WordBits \/ x % 2 = 1 THEN k ELSE TrailingZerosFrom(x \div 2, k + 1)
TrailingZeros(x) == TrailingZerosFrom(x, 0)

\* Mutant: the cap at maxHeight is missing.
RandomHeightNoCap(x) == 1 + TrailingZeros(x)

RandomHeight(x) ==
    LET h == 1 + TrailingZeros(x) IN
    IF h > MaxHeight THEN MaxHeight ELSE h

=============================================================================
