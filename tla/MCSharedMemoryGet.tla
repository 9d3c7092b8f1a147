------------------------- MODULE MCSharedMemoryGet -------------------------
(***************************************************************************)
(* Instances of SharedMemoryGet for TLC.  Requests with one descriptor     *)
(* follow one another or share it; all of them may overlap.                *)
(***************************************************************************)
EXTENDS SharedMemoryGet, TLC

ThreeRequests == 1 .. 3
FdOfThree     == 1 :> 4 @@ 2 :> 5 @@ 3 :> 4
TheSecond     == {2}
TheThird      == {3}

\* The token file exists, and ftok makes a key of its device, its inode and the descriptor;
\* or it does not, and ftok returns -1, here 255, for every descriptor.
KeyPerFd == 4 :> 104 @@ 5 :> 105
SameKey  == 4 :> 255 @@ 5 :> 255
Both     == {KeyPerFd, SameKey}
=============================================================================
