----------------------------- MODULE MCAccounts -----------------------------
(* Accounts on a small instance.  The addresses are not symmetric: one of   *)
(* them is the configured administrator's.                                  *)
EXTENDS Accounts, TLC

Symmetry == Permutations(User) \union Permutations(Proc)
============================================================================
