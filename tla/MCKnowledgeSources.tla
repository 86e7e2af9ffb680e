------------------------- MODULE MCKnowledgeSources -------------------------
(***************************************************************************)
(* One assistant, two request threads, one key, two sources, two jobs. A   *)
(* creation names a URL or sends a direct text, which no URL identifies.   *)
(***************************************************************************)
EXTENDS KnowledgeSources, TLC

CONSTANTS u

MCUrls == {u}
MCBodies == {[url |-> u, name |-> "first"], [url |-> NoUrl, name |-> "text"]}

Interchangeable == Permutations(Threads) \union Permutations(Sources) \union Permutations(Jobs)
=============================================================================
