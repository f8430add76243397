---------------------------- MODULE MCPageCleanup ----------------------------
(* PageCleanup on a small instance; keys are told apart by Bundle.          *)
EXTENDS PageCleanup, TLC

Symmetry == Permutations(Chapter) \union Permutations(Proc)
              \union Permutations(Msg) \union Permutations(Worker)
==============================================================================
