------------------------------ MODULE MCAccess ------------------------------
(* Access on a small instance: one seeded client and one that registers.    *)
EXTENDS Access, TLC

Reader == {<<"manga", "read">>, <<"openid", "">>}
Editor == {<<"manga", "read">>, <<"manga", "write">>, <<"genres", "write">>,
            <<"categories", "write">>}
SomeAsks == {Reader, Editor}
CatalogWrite == <<"manga", "write">>

Symmetry == Permutations(Instance) \union Permutations(Kid) \union Permutations(Proc)
=============================================================================
