------------------------------ MODULE MCCache ------------------------------
(***************************************************************************)
(* Instances of Cache: readers are interchangeable, and so are writers.    *)
(***************************************************************************)
EXTENDS Cache, TLC

Symmetry == Permutations(Readers) \cup Permutations(Writers)
=============================================================================
