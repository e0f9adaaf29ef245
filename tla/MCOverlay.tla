------------------------------ MODULE MCOverlay ------------------------------
(***************************************************************************)
(* Instances of Overlay: two fields; c1 and c3 and the other users' o1 set *)
(* the first, c2 and o2 the second.                                        *)
(***************************************************************************)
EXTENDS Overlay

CONSTANTS f, g, c1, c2, c3, o1, o2

TwoFields == [a \in Author |-> IF a \in {c2, o2} THEN g ELSE f]
=============================================================================
