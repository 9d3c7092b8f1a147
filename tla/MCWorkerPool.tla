---------------------------- MODULE MCWorkerPool ----------------------------
(***************************************************************************)
(* Instances of WorkerPool for TLC.  Neither workers nor descriptors are   *)
(* symmetric: the search of the boss and accept choose them by number.     *)
(***************************************************************************)
EXTENDS WorkerPool

None   == {}
First  == {1}     \* a connection that stalls
Second == {2}     \* the connection whose client closes it unused
Fourth == {4}     \* a client that stalls after three others
=============================================================================
