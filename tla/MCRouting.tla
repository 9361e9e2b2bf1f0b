------------------------------ MODULE MCRouting ------------------------------
(***************************************************************************)
(* Routing checked under every scope list of up to three interfaces, and   *)
(* search expansion compared with the loop of the code.                    *)
(***************************************************************************)
EXTENDS ScopeTable, SequencesExt

mcLabel == {"host", "corp", "lan", "hq", "x", "rev9"}
mcScopeId == {"i1", "i2", "i3"}
mcInterfaceIds == <<"i1", "i2", "i3">>
mcReverseMap == [n \in {<<"rev9", "lan">>, <<"rev9", "x">>} |-> "ip9"]

mcNames == {<<"host">>, <<"host", "lan">>, <<"host", "hq", "corp">>, <<"host", "x">>,
            <<"rev9", "lan">>, <<"rev9", "x">>}

mcFallbackChoices ==
    {[servers |-> <<>>, domains |-> <<>>],
     [servers |-> <<"s9">>, domains |-> <<<<"corp">>, <<"x">>, <<"x", "x", "x">>>>]}

(* What an interface may contribute: a link that is only up, one with an   *)
(* address and perhaps a default route, or an exclusive one.               *)
Kinds == {[level |-> Link, default_route |-> FALSE, exclusive |-> TRUE],
          [level |-> Addressed, default_route |-> FALSE, exclusive |-> FALSE],
          [level |-> Routed, default_route |-> TRUE, exclusive |-> FALSE],
          [level |-> Addressed, default_route |-> FALSE, exclusive |-> TRUE],
          [level |-> Absent, default_route |-> TRUE, exclusive |-> TRUE]}

(* Servers and metrics are not varied where they cannot matter. *)
mcInterfaces ==
    {s \in {[id |-> "i1", servers |-> sv, domains |-> d, default_route |-> k.default_route,
             exclusive |-> k.exclusive, metric |-> m, level |-> k.level,
             addresses |-> IF k.level = Addressed
                           THEN {[addr |-> "ip8", subnet |-> {"ip8", "ip9"}]} ELSE {}] :
               sv \in {<<>>, <<"s1">>}, d \in {<<<<"corp">>>>, <<<<"lan">>, <<"hq", "corp">>>>},
               k \in Kinds, m \in {1, 2}} :
        /\ s.level = Absent => s.servers # <<>> /\ s.metric = 1
        /\ s.level = Link => s.metric = 1
        /\ s.level = Addressed /\ s.exclusive => s.servers # <<>>}

-----------------------------------------------------------------------------
(* The candidate list as Engine::candidates builds it, one domain at a     *)
(* time.                                                                   *)
Loop(f, name) ==
    LET up     == SetToSortSeq(up_scopes(scopes),
                      LAMBDA i, j : \/ scopes[i].metric < scopes[j].metric
                                    \/ scopes[i].metric = scopes[j].metric /\ i < j)
        chain  == FlattenSeq([k \in DOMAIN up |-> scopes[up[k]].domains]) \o f.domains
        ex     == exclusive(scopes)
        domains == IF ex = {} THEN chain ELSE scopes[min_by_metric(scopes, ex)].domains
        push(out, d) == IF Len(name \o d) > MaxLabels \/ Contains(out, name \o d)
                        THEN out ELSE Append(out, name \o d)
    IN  IF Len(name) # 1 THEN <<name>> ELSE FoldLeft(push, <<>>, domains)

(* The candidates are those the loop over the sorted scopes pushes: each   *)
(* name once, at its first place, overlong ones left out.                  *)
CandidatesAsLoop ==
    \A n \in Names : \A f \in FallbackChoices : candidates(scopes, f, n) = Loop(f, n)
=============================================================================
