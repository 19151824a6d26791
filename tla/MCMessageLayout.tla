-------------------------- MODULE MCMessageLayout ---------------------------
(***************************************************************************)
(* Headers for MessageLayout.  With a uint32_t of 6 bits the product of    *)
(* the sizes can be 0 or wrap, the number of symbols of a block of 62 with *)
(* its redundance can, and a message can be too long for one.              *)
(***************************************************************************)
EXTENDS MessageLayout

SomeBlockSizes      == {0, 1, 2, 3, 8, 62}
SomeSymbolSizes     == {0, 1, 2, 3, 8, 9}
SomeRedundanceSizes == {0, 1, 2}
SomeMessageSizes    == 0 .. 14 \cup {24, 25, 65, 67, 130}
SomeMissing         == {0, 1, 9}
=============================================================================
