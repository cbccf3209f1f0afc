--------------------------- MODULE MCUploadBlock ---------------------------
(* UploadBlock on small instances. *)
EXTENDS UploadBlock

\* A chunk of two bytes and an empty one in the middle; a block whose only
\* chunk is empty; one with more chunks than the loop allows; and an SDB.  The
\* numbers use the first and the last of the five digits.
MCBlocks == {<<BlockTypeDB, 1>>, <<BlockTypeOB, 1>>, <<BlockTypeSFB, 65535>>, <<BlockTypeSDB, 1>>}

MCChunksOf ==
    [b \in MCBlocks |->
        CASE b[1] = BlockTypeDB  -> << <<1, 2>>, <<>>, <<3>> >>
          [] b[1] = BlockTypeOB  -> << <<>> >>
          [] b[1] = BlockTypeSFB -> << <<1>>, <<2>>, <<3>>, <<4>> >>
          [] b[1] = BlockTypeSDB -> << <<5>> >>]

OneBlock == {<<BlockTypeFC, 10>>}

OneChunksOf == [b \in OneBlock |-> << <<1>>, <<2>> >>]
=============================================================================
