-------------------------- MODULE MCOrderGroups ----------------------------
(***************************************************************************)
(* Instances of OrderGroups: handlers are interchangeable.                 *)
(***************************************************************************)
EXTENDS OrderGroups

HandlerSymmetry == Permutations(Handlers)
=============================================================================
