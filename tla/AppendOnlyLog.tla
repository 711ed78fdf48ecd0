---------------------------- MODULE AppendOnlyLog ----------------------------
(***************************************************************************)
(* What the bus log promises to everything that reads it: rows are only    *)
(* ever added, one at a time, and each new row has a sequence number above *)
(* every row already there.  A reader that remembers the largest sequence  *)
(* number it has read therefore knows exactly where to continue.           *)
(***************************************************************************)
EXTENDS Naturals

CONSTANT Events            \* what a row records, besides its number

VARIABLE rows              \* the committed rows

Row == [seq : Nat \ {0}, event : Events]

Init == rows = {}

Append ==
    /\ rows' \subseteq Row
    /\ \E new \in rows' \ rows :
        /\ rows' = rows \cup {new}
        /\ \A old \in rows : old.seq < new.seq

Spec == Init /\ [][Append]_rows
=============================================================================
