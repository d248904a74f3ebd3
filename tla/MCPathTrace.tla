------------------------------ MODULE MCPathTrace ------------------------------
(***************************************************************************)
(* Model-checking instances of PathTrace: a target two hops away and others *)
(* out of the sweep's reach, on a screen that shows them all and on one     *)
(* that does not.                                                           *)
(***************************************************************************)
EXTENDS PathTrace

MCDist == [t \in Rows |-> IF t = 0 THEN 2 ELSE TTTL + 1]

OneStart == {<<TRUE, FALSE, FALSE>>}

TallScreen == {<<40, 12>>}

\* Two of three targets fit below the column header.
ShortScreen == {<<40, 3>>}

===============================================================================
