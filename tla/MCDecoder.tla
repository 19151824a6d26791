----------------------------- MODULE MCDecoder ------------------------------
(***************************************************************************)
(* Decoder on the instances of MCBlockRecovery, with the elimination done. *)
(***************************************************************************)
EXTENDS MCBlockRecovery, Decoder
=============================================================================
