---------------------------- MODULE MCInterning ----------------------------
(***************************************************************************)
(* A pool for four texts, one of them the beginning of two others and one  *)
(* larger than a block, in two buckets.                                    *)
(***************************************************************************)
EXTENDS Interning, TLC

CONSTANTS b1, b2, b3, b4, b5
MCBlocks == {b1, b2, b3, b4, b5}
AnyBlock == Permutations(MCBlocks)
MCTexts == {<<1>>, <<1, 2, 3, 4>>, <<1, 2, 3, 4, 5, 6, 7, 8>>, <<2>>}
MCHash == [t \in MCTexts |-> t[1]]
=============================================================================
