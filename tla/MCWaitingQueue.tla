---------------------------- MODULE MCWaitingQueue ----------------------------
(* Workers are alike: nothing chooses one by its name. *)
EXTENDS WaitingQueue, TLC

Alike == Permutations(Workers)
=============================================================================
