------------------------------- MODULE MCMvcc -------------------------------
(***************************************************************************)
(* The MVCC store for TLC.  Threads are interchangeable: no definition     *)
(* tells one from another.                                                 *)
(***************************************************************************)
EXTENDS MvccReads, TLC

Symmetry == Permutations(Thread)
=============================================================================
