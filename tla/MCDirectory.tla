---------------------------- MODULE MCDirectory ----------------------------
(* Directory on small instances. *)
EXTENDS Directory, TLC

Op(op) == [op |-> op, bt |-> 0, num |-> 0]

CONSTANTS lister, other

\* One goroutine lists and identifies; the other makes short calls, with block
\* numbers at both sides of what a byte holds.
MCCallsOf ==
    (lister :> {Op("listAll"), Op("identify"), Op("protection"), Op("diagBuffer")})
    @@ (other :> {Op("cpuState")}
            \cup {[op |-> "blockInfo", bt |-> BlockTypeDB, num |-> num] : num \in {255, 256}})

\* Blocks of the types whose place differs between the two orders.
MCBlocks == {<<BlockTypeFB, 1>>, <<BlockTypeSFC, 1>>}
MCFirstPLCs == {[blocks |-> {<<BlockTypeSFC, 1>>}, cpu |-> 8]}

\* A record that shows fields of both kinds, besides one that shows none.
MCFieldSets == {{"OrderNumber", "ModuleName"}}
=============================================================================
