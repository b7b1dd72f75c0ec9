----------------------------- MODULE MCHospital -----------------------------
(***************************************************************************)
(* Bounds for TLC: a waiting room of two, so that two consultations of two *)
(* patients need four of them; medicine for two consultations.             *)
(***************************************************************************)
EXTENDS Hospital, TLC

(* Patients are alike and so are pharmacists; sound where no property is a *)
(* liveness property.                                                      *)
Symmetry == Permutations(Patients) \union Permutations(Pharmacists)

=============================================================================
