---------------------------- MODULE MCCacheSync ----------------------------
(* Instances of CacheSync for TLC. *)
EXTENDS CacheSync, TLC

\* Refreshes are interchangeable, and so are the rows.
Symmetry == Permutations(Refreshes) \union Permutations(Ids)
=============================================================================
