------------------------------- MODULE MCAuth -------------------------------
(***************************************************************************)
(* The auth store for TLC: two keys, 2 and 4, and a permission to read from *)
(* the first up to, and not including, the second.                          *)
(***************************************************************************)
EXTENDS Auth, TLC

ReadFirst == {[type |-> "read", key |-> 2, range_end |-> 4]}
=============================================================================
