-------------------------- MODULE MCRoundRobinPool --------------------------
(* Values for RoundRobinPool's constants that a .cfg cannot write. *)
EXTENDS RoundRobinPool

TheFirst == {1}
=============================================================================
