----------------------------- MODULE MCCatalog -----------------------------
(* Catalog on small instances.                                              *)
EXTENDS Catalog, TLC

CONSTANTS n1, n2, g1, g2

OneKind == <<"genre">>
Slugs == n1 :> g1 @@ n2 :> g2
Symmetry == Permutations(Proc) \union Permutations(TagId) \union Permutations(Entry)
              \union Permutations(Type)
=============================================================================
