---------------------------- MODULE MCPublicChat ----------------------------
(***************************************************************************)
(* Two callers and two exchanges. In memory one slot of each caller and    *)
(* one of the deployment; in Redis a second slot of the deployment is      *)
(* tried when the first is taken, and the slots of a crashed process may   *)
(* fill it. A caller comes back while its abandoned request still holds    *)
(* its slots.                                                              *)
(***************************************************************************)
EXTENDS PublicChat

Usual == [origin |-> "allowed", media |-> "json", body |-> "small", texts |-> "short",
          history |-> <<"user", "assistant">>]

MCLimiters == {[kind |-> "memory", perClient |-> 1, globally |-> 1],
               [kind |-> "redis", perClient |-> 1, globally |-> 2]}

MCEnvelopes == {Usual, [Usual EXCEPT !.history = <<"user">>]}

Interchangeable == Permutations(Requests) \union Permutations(Clients)
=============================================================================
