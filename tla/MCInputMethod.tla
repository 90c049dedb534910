--------------------------- MODULE MCInputMethod ---------------------------
(***************************************************************************)
(* A client with two surfaces and two text inputs, and one with one each.  *)
(***************************************************************************)
EXTENDS InputMethod

CONSTANTS a1, a2, b1, t1, t2, u1

MCSurfaces == {a1, a2, b1}
MCTextInputs == {t1, t2, u1}
MCClient == [ x \in {a1, a2, b1, t1, t2, u1} |-> IF x \in {b1, u1} THEN "b" ELSE "a" ]
=============================================================================
