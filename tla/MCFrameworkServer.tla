-------------------------- MODULE MCFrameworkServer --------------------------
(***************************************************************************)
(* An orderly client together with one of each manner, and one pool thread.*)
(***************************************************************************)
EXTENDS FrameworkServer

CONSTANTS c1, c2

Both(a, b) == [c \in {c1, c2} |-> IF c = c1 THEN a ELSE b]

MCPopulations == {Both(m, "reads") : m \in Manners}
=============================================================================
