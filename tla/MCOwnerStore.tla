---------------------------- MODULE MCOwnerStore ----------------------------
(***************************************************************************)
(* OwnerStore on small instances.  Organisations, keys and handlers are    *)
(* interchangeable: no definition orders or names one of them.             *)
(***************************************************************************)
EXTENDS OwnerStore, TLC

Symmetry == Permutations(Orgs) \cup Permutations(Keys) \cup Permutations(Handlers)
=============================================================================
