----------------------------- MODULE MCAuthFlow -----------------------------
(* AuthFlow on a small instance; all names are interchangeable.             *)
EXTENDS AuthFlow, TLC

Symmetry == Permutations(Req) \union Permutations(User) \union Permutations(Scope)
              \union Permutations(Code) \union Permutations(Proc)
=============================================================================
