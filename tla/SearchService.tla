---------------------------- MODULE SearchService ----------------------------
(***************************************************************************)
(* What the video registry's searches promise to those who send them.      *)
(* There is a list of rows that only grows, and one search at a time; it   *)
(* goes through the list as long as that is, picks some rows, and tells    *)
(* them whole, each at most once, in the order of the list, and its end.   *)
(***************************************************************************)
EXTENDS Naturals, Sequences

VARIABLES
  rows,       \* the list
  status,     \* "idle", "searching", how the last search ended, or "down"
  last,       \* the place of the last row told
  hits        \* the rows told

vars == <<rows, status, last, hits>>

Init == rows = <<>> /\ status = "idle" /\ last = 0 /\ hits = <<>>

\* A row is added, whatever it holds, and no other one changes.
Add ==
  /\ Len(rows') = Len(rows) + 1 /\ SubSeq(rows', 1, Len(rows)) = rows
  /\ UNCHANGED <<status, last, hits>>

Search ==
  /\ status \notin {"searching", "down"}
  /\ status' = "searching" /\ last' = 0 /\ hits' = <<>>
  /\ UNCHANGED rows

Tell ==
  /\ status = "searching"
  /\ \E n \in last + 1 .. Len(rows) : last' = n /\ hits' = Append(hits, rows[n])
  /\ UNCHANGED <<rows, status>>

End ==
  /\ status = "searching"
  /\ status' = IF hits = <<>> THEN "NOT FOUND" ELSE "END"
  /\ UNCHANGED <<rows, last, hits>>

\* The service ends.
Stop == status # "down" /\ status' = "down" /\ UNCHANGED <<rows, last, hits>>

Next == Add \/ Search \/ Tell \/ End \/ Stop

\* A search comes to its end.
Spec == Init /\ [][Next]_vars /\ (status = "searching" ~> status # "searching")
=============================================================================
