------------------------- MODULE MCErrorDispatcher -------------------------
(* Instances of ErrorDispatcher for TLC. *)
EXTENDS ErrorDispatcher

CONSTANTS e1, e2, e3, e4

\* Three events of one key and one of another.
MCKeyOf == [e \in Event |-> IF e = e4 THEN "other" ELSE "same"]
=============================================================================
