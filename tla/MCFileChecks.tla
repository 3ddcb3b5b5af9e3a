----------------------------- MODULE MCFileChecks -----------------------------
(* Three errors that overlap.  The second is found by a pattern its group   *)
(* tries before that of the first; the third belongs to another group.      *)
EXTENDS FileChecks

ThreeErrors == {1, 2, 3}
TwoGroups == [e \in ThreeErrors |-> IF e = 3 THEN "other" ELSE "common"]
SecondFirst == [e \in ThreeErrors |-> IF e = 2 THEN 1 ELSE 2]
===============================================================================
