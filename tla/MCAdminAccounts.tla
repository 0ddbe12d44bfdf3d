-------------------------- MODULE MCAdminAccounts --------------------------
(* The instance of AdminAccounts for TLC. *)
EXTENDS AdminAccounts, TLC

\* Calls are interchangeable, and so are accounts.
Symmetry == Permutations(Handlers) \union Permutations(Accounts)
=============================================================================
