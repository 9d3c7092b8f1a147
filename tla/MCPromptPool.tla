---------------------------- MODULE MCPromptPool ----------------------------
(* An instance of PromptPool for TLC: the second client closes its connection unused. *)
EXTENDS PromptPool

None   == {}
Second == {2}
=============================================================================
