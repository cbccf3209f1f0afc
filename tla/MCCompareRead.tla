--------------------------- MODULE MCCompareRead ---------------------------
(* CompareRead on small instances. *)
EXTENDS CompareRead

CONSTANTS rsA, rsB

\* No candidate, one, two (also the same one twice), and three.
MCCandidates == {<<>>, <<rsA>>, <<rsA, rsA>>, <<rsA, rsB>>, <<rsA, rsB, rsA>>}
=============================================================================
