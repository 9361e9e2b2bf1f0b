------------------------------ MODULE MCEngine ------------------------------
(* Small instances of Engine. *)
EXTENDS EngineExchanges, TLC

CONSTANTS q1, q2

mcQid1 == {q1}
mcQid2 == {q1, q2}
Questions == Permutations({q1, q2})

mcLabel == {"host", "corp", "lan", "local", "localhost", "me", "rev9"}
mcServer == {"s1", "s2", "fe80"}
mcLinkLocal == {"fe80"}
mcScopeId == {"eth", "vpn"}
mcAddress == {"ip9", "ip8", "lo"}
mcLoopback == {"lo"}
mcReverseMap == [n \in {<<"rev9", "lan">>} |-> "ip9"]

eth(servers) == [id |-> "eth", servers |-> servers, domains |-> <<<<"lan">>>>,
                 addresses |-> {[addr |-> "ip9", subnet |-> {"ip8", "ip9"}]},
                 default_route |-> TRUE, exclusive |-> FALSE,
                 metric |-> 10, level |-> Routed]
vpn(servers) == [id |-> "vpn", servers |-> servers, domains |-> <<<<"corp">>>>,
                 addresses |-> {}, default_route |-> FALSE, exclusive |-> FALSE,
                 metric |-> 5, level |-> Addressed]

(* An interface that comes, changes its servers and goes. *)
ChangingSnapshots == {<<>>, <<eth(<<"s1", "s2">>)>>, <<eth(<<"s2">>)>>}
(* A VPN beside it, so that a single label has two candidates. *)
VpnSnapshots == {<<>>, <<eth(<<"s1">>)>>, <<eth(<<"s1">>), vpn(<<"fe80", "s2">>)>>}
ComingVpn == {<<>>, <<eth(<<"s1">>), vpn(<<"fe80", "s2">>)>>}
(* One interface that comes and goes. *)
StableSnapshots == {<<>>, <<eth(<<"s1", "s2">>)>>}

NoFallback == [servers |-> <<>>, domains |-> <<>>]
mcFallbacks == {NoFallback, [servers |-> <<"s1">>, domains |-> <<<<"lan">>>>]}
OnlyNoFallback == {NoFallback}

NoHosts == {<<>>}
SomeHosts == {<<>>, [n \in {<<"host", "lan">>} |-> {"ip8"}]}
NoHostnames == {<<>>}
SomeHostnames == {<<>>, <<"me">>}

Q(name, rtype, no_cache) == [name |-> name, rtype |-> rtype, no_cache |-> no_cache]
OneName == {Q(<<"host", "lan">>, "A", FALSE)}
OneNameAnew == {Q(<<"host", "lan">>, "A", FALSE), Q(<<"host", "lan">>, "A", TRUE)}
SearchCached == {Q(<<"host">>, "A", FALSE)}
LocalAndRemote == {Q(<<"me">>, "A", FALSE), Q(<<"rev9", "lan">>, "PTR", FALSE)}
NoQuestions == {}
BothFamilies == {[name |-> <<"host", "lan">>, types |-> <<"A", "AAAA">>]}
=============================================================================
