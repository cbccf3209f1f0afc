------------------------------ MODULE MCAreaIO ------------------------------
(* AreaIO on small instances. *)
EXTENDS AreaIO

Range(s, n) == [start |-> s, size |-> n]

\* Overlapping ranges, an empty one, one that ends at the last byte that a
\* 24-bit bit address can name, and one beyond it.
MCRanges == {Range(0, 9), Range(2, 2), Range(1, 0), Range(2097149, 3), Range(2097152, 1)}
=============================================================================
