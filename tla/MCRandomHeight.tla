--------------------------- MODULE MCRandomHeight ---------------------------
(* randomHeight over every word of WordBits bits: each state is one draw,  *)
(* the word and the height the code computes from it.                     *)
EXTENDS RandomHeight, FiniteSets

VARIABLES word, height

vars == <<word, height>>

Draw(w) == word' = w /\ height' = RandomHeight(w)

Init == \E w \in Words : word = w /\ height = RandomHeight(w)
Next == \E w \in Words : Draw(w)
Spec == Init /\ [][Next]_vars

(* Every draw gives a height in [1, maxHeight], and the height drawn has  *)
(* the odds the comment of randomHeight in util.go states: a share 2^-h   *)
(* of the words for h < maxHeight, while the cap collects all the rest.   *)
(* The zero word is the edge: TrailingZeros32 gives the word width, and    *)
(* 1 + that is one above the cap.                                          *)
HeightOdds ==
    /\ height \in 1 .. MaxHeight
    /\ Cardinality({w \in Words : RandomHeight(w) = height}) =
          IF height < MaxHeight THEN 2^(WordBits - height) ELSE 2^(WordBits - MaxHeight + 1)
=============================================================================
