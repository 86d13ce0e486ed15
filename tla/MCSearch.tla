------------------------------ MODULE MCSearch ------------------------------
(* Two schemas of a table each, the second of them configured twice.       *)
EXTENDS Search

MCColumnOrder == <<"id", "total">>
MCSchemas == <<"public", "sales", "sales">>
MCListing == [s \in {"public", "sales"} |->
                IF s = "public" THEN <<"users">> ELSE <<"orders">>]

MCQueries == {{"users", "total"}, {"sales"}, {"id", "total"}}
=============================================================================
