---------------------------- MODULE MCConnections ----------------------------
(* Connections on small instances.                                          *)
EXTENDS Connections, TLC

Symmetry == Permutations(Conn) \union Permutations(Client) \union Permutations(Flow)
              \union Permutations(Pair) \union Permutations(Proc)
==============================================================================
