--------------------------- MODULE MCCoefficients ---------------------------
(***************************************************************************)
(* Seeds that are zero, small, all ones and a single bit, and matrices     *)
(* with one row, one column, no column and several of both.                *)
(***************************************************************************)
EXTENDS Coefficients

MCSeeds == {Small(0), Small(1), Small(42), {31}, Bits}

MCShapes == {<<1, 14>>, <<4, 1>>, <<2, 3>>, <<3, 2>>, <<3, 0>>}
=============================================================================
