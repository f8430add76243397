---------------------------- MODULE MCCoverMirror ----------------------------
(* CoverMirror on small instances.                                          *)
EXTENDS CoverMirror, TLC

Symmetry == Permutations(Proc) \union Permutations(Worker) \union Permutations(Msg)
              \union Permutations(Image)
==============================================================================
