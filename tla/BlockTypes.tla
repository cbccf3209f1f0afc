----------------------------- MODULE BlockTypes -----------------------------
(***************************************************************************)
(* The block types of a PLC and the name by which a block is uploaded       *)
(* (pdu_blocks.go).  A block is <<type, number>>.                           *)
(***************************************************************************)
EXTENDS Integers, Sequences

\* Block type codes; each is the ASCII code of the type's letter on the wire.
BlockTypeOB  == 56
BlockTypeDB  == 65
BlockTypeSDB == 66
BlockTypeFC  == 67
BlockTypeSFC == 68
BlockTypeFB  == 69
BlockTypeSFB == 70

AllBlockTypes == {BlockTypeOB, BlockTypeDB, BlockTypeSDB, BlockTypeFC, BlockTypeSFC,
                  BlockTypeFB, BlockTypeSFB}

\* A block number is a uint16.
BlockNumbers == 0..65535

\* EncodeStartUploadRequest: the letter of the type.  There is none for SDB,
\* which gets that of DB.
typeChar(bt) ==
    IF bt \in {BlockTypeOB, BlockTypeDB, BlockTypeFC, BlockTypeFB, BlockTypeSFC,
               BlockTypeSFB}
    THEN bt ELSE BlockTypeDB

\* The block number in five decimal digits.
numStr(num) == <<(num \div 10000) % 10, (num \div 1000) % 10, (num \div 100) % 10,
                 (num \div 10) % 10, num % 10>>

\* The block a device finds under such a name.
Named(char, digits) ==
    <<char, 10000 * digits[1] + 1000 * digits[2] + 100 * digits[3]
              + 10 * digits[4] + digits[5]>>
=============================================================================
