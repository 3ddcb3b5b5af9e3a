--------------------------- MODULE MCSignalQuality ---------------------------
(* One signal that moves and one that stands still.                         *)
EXTENDS SignalQuality

OneMoves(s) == IF s = 1 THEN 0..2 ELSE {0}

OneIsRare(s) == IF s = 1 THEN 3 ELSE 1
===============================================================================
