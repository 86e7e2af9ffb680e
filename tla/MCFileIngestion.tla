-------------------------- MODULE MCFileIngestion --------------------------
(***************************************************************************)
(* Two uploads of the same bytes, one of them under a key, and other bytes *)
(* for a named document, which is a website's document in role staff.      *)
(***************************************************************************)
EXTENDS FileIngestion, TLC

CONSTANTS c1, c2, staff, guest, k1, site

MCRequests == {
    [content |-> c1, roles |-> staff, doc |-> NoDoc, force |-> FALSE, key |-> k1],
    [content |-> c1, roles |-> staff, doc |-> site, force |-> TRUE, key |-> NoKey],
    [content |-> c2, roles |-> staff, doc |-> site, force |-> FALSE, key |-> k1]}

Interchangeable == Permutations(Threads) \union Permutations(Sweepers) \union Permutations(Docs \ Websites)
=============================================================================
