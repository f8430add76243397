------------------------- MODULE MCRefreshRotation -------------------------
(* TLC instance of RefreshRotation: uuids are interchangeable, and so are  *)
(* requests.                                                               *)
EXTENDS RefreshRotation, TLC

Symmetry == Permutations(Token) \union Permutations(Proc) \union Permutations(Session)
============================================================================
