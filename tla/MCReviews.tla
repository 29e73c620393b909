------------------------------ MODULE MCReviews ------------------------------
(***************************************************************************)
(* Reviews for TLC: requests and texts are interchangeable.                *)
(***************************************************************************)
EXTENDS Reviews, TLC

Interchangeable == Permutations(Callers) \cup Permutations(Texts)
=============================================================================
