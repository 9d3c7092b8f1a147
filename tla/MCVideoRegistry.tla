--------------------------- MODULE MCVideoRegistry ---------------------------
(***************************************************************************)
(* Two subservers, and files that end at and inside a record, with blank   *)
(* lines and an unended last line.                                         *)
(***************************************************************************)
EXTENDS VideoRegistry

CONSTANTS s1, s2, s3, v1

NoPort  == <<"text", "text", "text", "blank">>
Short   == <<"text", "unended">>
Long    == <<"text", "blank", "text", "text", "text", "text", "text", "text", "unended">>
Blank   == [n \in 1 .. 9 |-> "blank"]

\* One file of more rows than the table has; two senders; one that is watched.
MCContents == {[s \in {s1} |-> Long], [s \in {s1} |-> Blank],
               [s \in {s1, s2} |-> IF s = s1 THEN NoPort ELSE Short],
               [s \in {s3} |-> NoPort]}
MCWatched == [v \in {v1} |-> s3]
=============================================================================
