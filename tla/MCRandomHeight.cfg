\* Every 8-bit word drawn, with the cap at the word width as in the code.
CONSTANTS
    WordBits = 8
    MaxHeight = 8

SPECIFICATION Spec

INVARIANT HeightOdds
