---------------------------- MODULE MCS7Client ----------------------------
(* S7Client on small instances. *)
EXTENDS S7ClientInv, TLC

CONSTANTS t1, t2, rsA, rsB

MCThreads        == {t1, t2}
MCRackSlots      == {rsA, rsB}
OneCandidate     == {<<rsA>>}
AutoCandidates   == {<<rsA>>, <<rsA, rsB>>}
Symmetry         == Permutations(MCThreads)
=============================================================================
