------------------------------ MODULE Routing ------------------------------
(***************************************************************************)
(* The pure half of the engine: which scope a name goes to, which names a  *)
(* question stands for, in which order a scope's servers are tried, and    *)
(* which names are answered before any network (resolvd/src/engine.rs).    *)
(*                                                                         *)
(* A name is a sequence of labels, most specific first; the code compares  *)
(* names without regard to case, so labels have none here.  A scope list   *)
(* is a sequence of scopes in snapshot order.  An interface address is     *)
(* [addr, subnet]: the address and the set of addresses its prefix covers. *)
(***************************************************************************)
EXTENDS Integers, Sequences, FiniteSets, FiniteSetsExt

CONSTANTS
    Label,       \* the labels names are made of
    MaxLabels,   \* the longest name, standing for the 255-byte wire limit
    ScopeId,     \* interface identifiers (UUIDs in the code)
    Server,      \* addresses of name servers
    LinkLocal,   \* those among them that are IPv6 link-local
    Address,     \* the other IP addresses
    Loopback,    \* the loopback addresses among them
    ReverseMap   \* the reverse-mapping names, with the address each one spells

FALLBACK_SCOPE == "fallback"
NoScope == ""

Name == Seq(Label)

(* netd's readiness levels, in their declared order. *)
Absent == 0
Link == 1
Addressed == 2
Routed == 3

Scope == [id : ScopeId, servers : Seq(Server), domains : Seq(Name),
          addresses : SUBSET [addr : Address, subnet : SUBSET Address],
          default_route : BOOLEAN, exclusive : BOOLEAN,
          metric : Nat, level : Absent..Routed]

Fallback == [servers : Seq(Server), domains : Seq(Name)]

ASSUME RoutingConstants ==
    /\ MaxLabels \in Nat
    /\ {FALLBACK_SCOPE, NoScope} \cap ScopeId = {}
    /\ LinkLocal \subseteq Server
    /\ Loopback \subseteq Address
    /\ \A n \in DOMAIN ReverseMap : n \in Name /\ ReverseMap[n] \in Address

-----------------------------------------------------------------------------
(* Helpers *)

(* The members of a finite set in the order of R, a strict total order. *)
Ordered(S, R) ==
    [k \in 1..Cardinality(S) |->
        CHOOSE x \in S : Cardinality({y \in S : <<y, x>> \in R}) = k - 1]

(* Name::ends_with: the name is the suffix or is under it. *)
ends_with(name, suffix) ==
    /\ Len(suffix) <= Len(name)
    /\ \A k \in 1..Len(suffix) : name[Len(name) - Len(suffix) + k] = suffix[k]

-----------------------------------------------------------------------------
(* Scope selection *)

up_scopes(scopes) == {i \in DOMAIN scopes : scopes[i].level >= Link}

(* Fault: the metric is not looked at. *)
min_by_metric_first(scopes, I) == Min(I)

(* Of the scopes I, the first one with the least metric. *)
min_by_metric(scopes, I) ==
    CHOOSE i \in I : \A j \in I :
        \/ scopes[i].metric < scopes[j].metric
        \/ scopes[i].metric = scopes[j].metric /\ i <= j

exclusive(scopes) ==
    {i \in up_scopes(scopes) : scopes[i].exclusive /\ scopes[i].level >= Addressed}

(* The lengths of the search domains of scope i that the name ends with. *)
MatchLengths(scopes, name, i) ==
    {Len(scopes[i].domains[k]) :
        k \in {l \in DOMAIN scopes[i].domains : ends_with(name, scopes[i].domains[l])}}

(* Fault: any matching search domain will do. *)
LongestMatch_any(scopes, name) ==
    {i \in up_scopes(scopes) : MatchLengths(scopes, name, i) # {}}

(* The scopes that hold the longest matching search domain. *)
LongestMatch(scopes, name) ==
    {i \in up_scopes(scopes) :
        \E n \in MatchLengths(scopes, name, i) :
            \A j \in up_scopes(scopes) : \A m \in MatchLengths(scopes, name, j) : m <= n}

contains(scope, addr) == \E a \in scope.addresses : addr \in a.subnet

OnSubnet(scopes, name) ==
    {i \in up_scopes(scopes) :
        name \in DOMAIN ReverseMap /\ contains(scopes[i], ReverseMap[name])}

DefaultRoute(scopes) == {i \in up_scopes(scopes) : scopes[i].default_route}

(* Fault: the last resort wants a configured address. *)
WithServers_addressed(scopes) ==
    {i \in up_scopes(scopes) : scopes[i].servers # <<>> /\ scopes[i].level >= Addressed}

WithServers(scopes) == {i \in up_scopes(scopes) : scopes[i].servers # <<>>}

(* Fault: search domains are looked at before exclusive scopes. *)
RouteRules_domainFirst(scopes, name) ==
    << LongestMatch(scopes, name), exclusive(scopes), OnSubnet(scopes, name),
       DefaultRoute(scopes), WithServers(scopes) >>

(* The routing rules in order: the first that selects a scope decides. *)
RouteRules(scopes, name) ==
    << exclusive(scopes), LongestMatch(scopes, name), OnSubnet(scopes, name),
       DefaultRoute(scopes), WithServers(scopes) >>

route(scopes, fallback, name) ==
    LET rules == RouteRules(scopes, name)
        apply == {k \in 1..5 : rules[k] # {}}
    IN  IF apply # {} THEN scopes[min_by_metric(scopes, rules[Min(apply)])].id
        ELSE IF fallback.servers # <<>> THEN FALLBACK_SCOPE ELSE NoScope

-----------------------------------------------------------------------------
(* Servers *)

(* A scope's servers as configured; a scope that is not listed has none. *)
Configured(scopes, fallback, scope) ==
    LET I == {i \in DOMAIN scopes : scopes[i].id = scope}
    IN  IF scope = FALLBACK_SCOPE THEN fallback.servers
        ELSE IF I = {} THEN <<>> ELSE scopes[Min(I)].servers

(* A link-local address is a different server on every interface. *)
server_key(server, scope) == <<server, IF server \in LinkLocal THEN scope ELSE NoScope>>

(* Fault: demotion does not change the order. *)
servers_of_asConfigured(scopes, fallback, demoted, scope) ==
    Configured(scopes, fallback, scope)

(* The servers to try: the healthy ones, then the demoted ones. *)
servers_of(scopes, fallback, demoted, scope) ==
    LET servers == Configured(scopes, fallback, scope)
        I == DOMAIN servers
        is_demoted(i) == server_key(servers[i], scope) \in demoted
        R == {p \in I \X I : \/ ~is_demoted(p[1]) /\ is_demoted(p[2])
                             \/ is_demoted(p[1]) = is_demoted(p[2]) /\ p[1] < p[2]}
    IN  [k \in I |-> servers[Ordered(I, R)[k]]]

-----------------------------------------------------------------------------
(* Search expansion *)

(* Fault: the fallback's search domains come before the interfaces'. *)
Earlier_fallbackFirst(scopes, p, q) ==
    \/ p[1] = q[1] /\ p[2] < q[2]
    \/ /\ p[1] \in DOMAIN scopes /\ q[1] \in DOMAIN scopes
       /\ \/ scopes[p[1]].metric < scopes[q[1]].metric
          \/ scopes[p[1]].metric = scopes[q[1]].metric /\ p[1] < q[1]
    \/ p[1] \notin DOMAIN scopes /\ q[1] \in DOMAIN scopes

(* The place <<i, k>> of a search domain: domain k of scope i, or of the   *)
(* fallback configuration, which comes after every scope.                  *)
DomainsAt(scopes, fallback, i) ==
    IF i \in DOMAIN scopes THEN scopes[i].domains ELSE fallback.domains

Places(scopes, fallback) ==
    LET I == IF exclusive(scopes) # {} THEN {min_by_metric(scopes, exclusive(scopes))}
             ELSE up_scopes(scopes) \cup {Len(scopes) + 1}
    IN  UNION {{i} \X DOMAIN DomainsAt(scopes, fallback, i) : i \in I}

(* Scopes by metric, then in snapshot order; domains as configured. *)
Earlier(scopes, p, q) ==
    \/ p[1] = q[1] /\ p[2] < q[2]
    \/ /\ p[1] \in DOMAIN scopes /\ q[1] \in DOMAIN scopes
       /\ \/ scopes[p[1]].metric < scopes[q[1]].metric
          \/ scopes[p[1]].metric = scopes[q[1]].metric /\ p[1] < q[1]
    \/ p[1] \in DOMAIN scopes /\ q[1] \notin DOMAIN scopes

(* The names to try, in order: overlong ones and repeats left out. *)
candidates(scopes, fallback, name) ==
    LET full(p) == name \o DomainsAt(scopes, fallback, p[1])[p[2]]
        P == {p \in Places(scopes, fallback) : Len(full(p)) <= MaxLabels}
        first == {p \in P : \A q \in P : Earlier(scopes, q, p) => full(q) # full(p)}
        R == {x \in first \X first : Earlier(scopes, x[1], x[2])}
        order == Ordered(first, R)
    IN  IF Len(name) # 1 THEN <<name>>
        ELSE [k \in 1..Cardinality(first) |-> full(order[k])]

-----------------------------------------------------------------------------
(* Names answered before any network *)

own_addresses(scopes) ==
    {a.addr : a \in UNION {scopes[i].addresses :
                  i \in {j \in DOMAIN scopes : scopes[j].level >= Addressed}}} \ Loopback

(* The outcome and source of a name answered locally; "none" for the rest. *)
(* hosts maps static names to sets of addresses; no hostname is <<>>.      *)
synthetic(scopes, hosts, hostname, name, rtype) ==
    LET ptr == name \in DOMAIN ReverseMap /\ rtype \in {"PTR", "ANY"}
        by(source) == [outcome |-> "found", source |-> source]
    IN  IF ends_with(name, <<"localhost">>) THEN by("synthetic")
        ELSE IF name \in DOMAIN hosts THEN by("hosts")
        ELSE IF hostname # <<>> /\ name = hostname THEN by("synthetic")
        ELSE IF ends_with(name, <<"local">>) THEN [outcome |-> "notfound", source |-> "synthetic"]
        ELSE IF ptr /\ ReverseMap[name] \in Loopback THEN by("synthetic")
        ELSE IF ptr /\ \E h \in DOMAIN hosts : ReverseMap[name] \in hosts[h] THEN by("hosts")
        ELSE IF ptr /\ hostname # <<>> /\ ReverseMap[name] \in own_addresses(scopes)
             THEN by("synthetic")
        ELSE [outcome |-> "none", source |-> "none"]
=============================================================================
