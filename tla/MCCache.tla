------------------------------ MODULE MCCache ------------------------------
(* A small instance of Cache: three keys in two scopes, room for two. *)
EXTENDS Cache

mcCacheKey == {<<"q1", "lan">>, <<"q2", "lan">>, <<"q1", "vpn">>}

(* Records of one age, of two, of none to speak of; a negative answer. *)
mcAnswers ==
    [ttls : {{1}, {1, 3}, {3}, {0}}, negative : {0}] \cup [ttls : {{}}, negative : {1}]
=============================================================================
