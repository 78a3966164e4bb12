------------------------------ MODULE MCWatch ------------------------------
(***************************************************************************)
(* Watch for TLC.                                                          *)
(***************************************************************************)
EXTENDS Watch, TLC

OneRange == {Key}
PutFilters == {{}, {"put"}}

Symmetry == Permutations(Writer)
=============================================================================
