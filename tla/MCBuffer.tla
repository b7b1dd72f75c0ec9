------------------------------ MODULE MCBuffer ------------------------------
(***************************************************************************)
(* Bounds for TLC: a buffer of five and ten values, the ratio of the       *)
(* source, so that it fills, empties and fills again in every way.         *)
(***************************************************************************)
EXTENDS Buffer

=============================================================================
