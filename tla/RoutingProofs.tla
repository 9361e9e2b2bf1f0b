--------------------------- MODULE RoutingProofs ---------------------------
(* What the routing operators return, for every scope list. *)
EXTENDS Routing, FiniteSetTheorems, TLAPS

(* A non-empty set of natural numbers has a least member, which Min names. *)
LEMMA NatMin ==
    ASSUME NEW T, T \subseteq Nat, T # {}
    PROVE  Min(T) \in T /\ \A m \in T : Min(T) <= m
<1> DEFINE R == {p \in Nat \X Nat : p[1] < p[2]}
<1>1. IsWellFoundedOn(R, Nat)
  BY NatLessThanWellFounded DEF OpToRel
<1> HIDE DEF R
<1>2. PICK n \in T : \A m \in T : ~(<<m, n>> \in R)
  BY ZenonT(40), <1>1, WFMin
<1>3. ASSUME NEW m \in T PROVE n <= m
  <2>1. m \in Nat /\ n \in Nat
    OBVIOUS
  <2>2. m < n => <<m, n>> \in R
    BY <2>1 DEF R
  <2> QED BY <1>2, <2>1, <2>2
<1> QED
  BY ZenonT(40), <1>2, <1>3 DEF Min

(* min_by_metric picks one of the scopes it is given, and there is none    *)
(* with a lower metric, nor an earlier one with the same.                  *)
LEMMA MinByMetric ==
    ASSUME NEW scopes \in Seq(Scope), NEW I, I \subseteq DOMAIN scopes, I # {}
    PROVE  LET i == min_by_metric(scopes, I)
           IN  /\ i \in I
               /\ \A j \in I : \/ scopes[i].metric < scopes[j].metric
                               \/ scopes[i].metric = scopes[j].metric /\ i <= j
<1> DEFINE M == {scopes[i].metric : i \in I}
           m == Min(M)
           J == {i \in I : scopes[i].metric = m}
<1>0. \A i \in I : i \in Nat /\ scopes[i] \in Scope
  OBVIOUS
<1>1. m \in M /\ \A x \in M : m <= x
  <2>1. M \subseteq Nat /\ M # {}
    <3>1. ASSUME NEW i \in I PROVE scopes[i].metric \in Nat
      BY SMTT(30), <1>0 DEF Scope
    <3> QED BY ZenonT(40), <3>1
  <2> HIDE DEF M
  <2> QED BY ZenonT(40), <2>1, NatMin
<1>2. J # {} /\ J \subseteq Nat
  BY ZenonT(40), <1>0, <1>1
<1>3. Min(J) \in J /\ \A j \in J : Min(J) <= j
  <2> HIDE DEF J
  <2> QED BY ZenonT(40), <1>2, NatMin
<1>4. \A j \in I : \/ scopes[Min(J)].metric < scopes[j].metric
                   \/ scopes[Min(J)].metric = scopes[j].metric /\ Min(J) <= j
  <2> SUFFICES ASSUME NEW j \in I
               PROVE  \/ scopes[Min(J)].metric < scopes[j].metric
                      \/ scopes[Min(J)].metric = scopes[j].metric /\ Min(J) <= j
    BY ZenonT(40)
  <2>1. m <= scopes[j].metric /\ scopes[Min(J)].metric = m
    BY <1>1, <1>3
  <2>2. m \in Nat /\ scopes[j].metric \in Nat
    BY ZenonT(40), <1>0, <1>1 DEF Scope
  <2>3. scopes[j].metric = m => Min(J) <= j
    BY ZenonT(40), <1>3
  <2> HIDE DEF m, J
  <2> QED BY <2>1, <2>2, <2>3
<1>5. Min(J) \in I
  BY <1>3
<1> DEFINE best(i) == \A j \in I : \/ scopes[i].metric < scopes[j].metric
                                   \/ scopes[i].metric = scopes[j].metric /\ i <= j
<1> HIDE DEF J
<1>6. best(Min(J))
  BY <1>4
<1>7. min_by_metric(scopes, I) = CHOOSE i \in I : best(i)
  BY DEF min_by_metric
<1> HIDE DEF best
<1>8. min_by_metric(scopes, I) \in I /\ best(min_by_metric(scopes, I))
  BY ZenonT(40), <1>5, <1>6, <1>7
<1> QED BY ZenonT(40), <1>8 DEF best

(* The scopes of a routing rule are interfaces that are up. *)
LEMMA RulesAreUp ==
    ASSUME NEW scopes, NEW name, NEW k \in 1..5
    PROVE  RouteRules(scopes, name)[k] \subseteq up_scopes(scopes)
BY DEF RouteRules, exclusive, LongestMatch, OnSubnet, DefaultRoute, WithServers

(* A name is routed to an interface that is up, to the fallback servers,   *)
(* or nowhere.                                                             *)
LEMMA RouteType ==
    ASSUME NEW scopes \in Seq(Scope), NEW fallback, NEW name
    PROVE  \/ \E i \in up_scopes(scopes) : route(scopes, fallback, name) = scopes[i].id
           \/ route(scopes, fallback, name) \in {FALLBACK_SCOPE, NoScope}
<1> DEFINE rules == RouteRules(scopes, name)
           apply == {k \in 1..5 : rules[k] # {}}
<1>1. CASE apply = {}
  BY <1>1 DEF route
<1>2. CASE apply # {}
  <2>1. Min(apply) \in apply
    <3>1. apply \subseteq Nat
      OBVIOUS
    <3> HIDE DEF apply
    <3> QED BY ZenonT(40), <1>2, <3>1, NatMin
  <2>2. rules[Min(apply)] \subseteq up_scopes(scopes) /\ rules[Min(apply)] # {}
    BY ZenonT(40), <2>1, RulesAreUp
  <2>3. up_scopes(scopes) \subseteq DOMAIN scopes
    BY DEF up_scopes
  <2>4. min_by_metric(scopes, rules[Min(apply)]) \in rules[Min(apply)]
    <3> HIDE DEF rules, apply
    <3> QED BY <2>2, <2>3, MinByMetric
  <2>5. route(scopes, fallback, name) = scopes[min_by_metric(scopes, rules[Min(apply)])].id
    BY <1>2 DEF route
  <2> QED BY ZenonT(40), <2>2, <2>4, <2>5
<1> QED BY <1>1, <1>2

(* R is a strict total order of S. *)
StrictOrder(S, R) ==
    /\ \A x \in S : <<x, x>> \notin R
    /\ \A x, y \in S : x = y \/ <<x, y>> \in R \/ <<y, x>> \in R
    /\ \A x, y, z \in S : <<x, y>> \in R /\ <<y, z>> \in R => <<x, z>> \in R

(* How many members of S come before x. *)
Rank(S, R, x) == Cardinality({y \in S : <<y, x>> \in R})

(* Ordered lists members of its set: each place is some member's rank, the *)
(* number of members before it, and ranks respect the order.               *)
LEMMA OrderedType ==
    ASSUME NEW S, IsFiniteSet(S), NEW R, StrictOrder(S, R)
    PROVE  /\ Cardinality(S) \in Nat
           /\ Ordered(S, R) \in [1..Cardinality(S) -> S]
           /\ \A k \in 1..Cardinality(S) : Rank(S, R, Ordered(S, R)[k]) = k - 1
           /\ \A x \in S : Rank(S, R, x) \in 0..(Cardinality(S) - 1)
           /\ \A x, y \in S : <<x, y>> \in R => Rank(S, R, x) < Rank(S, R, y)
<1> DEFINE n == Cardinality(S)
           below(x) == {y \in S : <<y, x>> \in R}
           rank == [x \in S |-> Cardinality(below(x))]
<1>1. n \in Nat
  BY FS_CardinalityType
<1>2. \A x \in S : /\ IsFiniteSet(below(x))
                   /\ Cardinality(below(x)) \in Nat
                   /\ Cardinality(below(x)) \in 0..(n - 1)
  <2> SUFFICES ASSUME NEW x \in S
               PROVE  /\ IsFiniteSet(below(x))
                      /\ Cardinality(below(x)) \in Nat
                      /\ Cardinality(below(x)) \in 0..(n - 1)
    OBVIOUS
  <2> DEFINE B == below(x)
  <2>1. B \in SUBSET S /\ B # S
    BY ZenonT(40) DEF StrictOrder
  <2> HIDE DEF B
  <2>2. IsFiniteSet(B) /\ Cardinality(B) <= n /\ Cardinality(B) # n
    BY <2>1, FS_Subset
  <2>3. Cardinality(B) \in Nat
    BY <2>2, FS_CardinalityType
  <2>4. Cardinality(B) \in 0..(n - 1)
    BY <1>1, <2>2, <2>3
  <2> QED BY <2>2, <2>3, <2>4 DEF B
<1>3. \A x, y \in S : <<x, y>> \in R => Cardinality(below(x)) < Cardinality(below(y))
  <2> SUFFICES ASSUME NEW x \in S, NEW y \in S, <<x, y>> \in R
               PROVE  Cardinality(below(x)) < Cardinality(below(y))
    OBVIOUS
  <2> DEFINE X == below(x)
             Y == below(y)
  <2>1. X \in SUBSET Y /\ X # Y
    BY ZenonT(40) DEF StrictOrder
  <2>2. IsFiniteSet(X) /\ IsFiniteSet(Y)
    BY <1>2
  <2>3. Cardinality(X) \in Nat /\ Cardinality(Y) \in Nat
    BY ZenonT(40), <1>2
  <2> HIDE DEF X, Y
  <2>4. Cardinality(X) <= Cardinality(Y) /\ Cardinality(X) # Cardinality(Y)
    BY <2>1, <2>2, FS_Subset
  <2>5. Cardinality(X) < Cardinality(Y)
    BY <2>3, <2>4
  <2> QED BY <2>5 DEF X, Y
<1>4. rank \in Injection(S, 0..(n - 1))
  <2>1. rank \in [S -> 0..(n - 1)]
    BY ZenonT(40), <1>2
  <2>2. \A x, y \in S : rank[x] = rank[y] => x = y
    <3> SUFFICES ASSUME NEW x \in S, NEW y \in S, rank[x] = rank[y], x # y PROVE FALSE
      OBVIOUS
    <3>1. Cardinality(below(x)) = Cardinality(below(y))
      OBVIOUS
    <3>2. Cardinality(below(x)) < Cardinality(below(y)) \/ Cardinality(below(y)) < Cardinality(below(x))
      BY ZenonT(40), <1>3 DEF StrictOrder
    <3>3. Cardinality(below(x)) \in Nat /\ Cardinality(below(y)) \in Nat
      BY <1>2
    <3> HIDE DEF below
    <3> QED BY <3>1, <3>2, <3>3
  <2> HIDE DEF rank
  <2> QED BY <2>1, <2>2 DEF Injection, IsInjective
<1>5. IsFiniteSet(0..(n - 1)) /\ Cardinality(0..(n - 1)) = n
  <2> HIDE DEF n
  <2>1. /\ IsFiniteSet(0..(n - 1))
        /\ Cardinality(0..(n - 1)) = IF 0 > n - 1 THEN 0 ELSE (n - 1) - 0 + 1
    BY <1>1, FS_Interval
  <2> QED BY <1>1, <2>1
<1>6. rank \in Surjection(S, 0..(n - 1))
  <2> HIDE DEF rank
  <2> QED BY <1>4, <1>5, FS_Injection
<1>7. ASSUME NEW k \in 1..n PROVE \E x \in S : Cardinality(below(x)) = k - 1
  <2>1. k - 1 \in 0..(n - 1)
    BY <1>1
  <2>2. \E x \in S : rank[x] = k - 1
    <3> HIDE DEF rank
    <3> QED BY <1>6, <2>1 DEF Surjection
  <2> QED BY ZenonT(40), <2>2
<1>8. ASSUME NEW k \in 1..n
      PROVE  Ordered(S, R)[k] \in S /\ Cardinality(below(Ordered(S, R)[k])) = k - 1
  BY ZenonT(40), <1>7 DEF Ordered
<1>9. Ordered(S, R) \in [1..n -> S]
  BY ZenonT(40), <1>8 DEF Ordered
<1>10. \A x : Rank(S, R, x) = Cardinality(below(x))
  BY ZenonT(40) DEF Rank
<1> HIDE DEF n, below
<1> QED BY <1>1, <1>2, <1>3, <1>8, <1>9, <1>10 DEF n

(* Ordered lists every member of its set, each before the ones after it. *)
LEMMA OrderedAll ==
    ASSUME NEW S, IsFiniteSet(S), NEW R, StrictOrder(S, R)
    PROVE  /\ \A x \in S : \E k \in 1..Cardinality(S) : Ordered(S, R)[k] = x
           /\ \A j, k \in 1..Cardinality(S) :
                  <<Ordered(S, R)[j], Ordered(S, R)[k]>> \in R => j < k
<1> DEFINE n == Cardinality(S)
           o == Ordered(S, R)
           rank(x) == Rank(S, R, x)
<1>1. /\ n \in Nat /\ o \in [1..n -> S]
      /\ \A k \in 1..n : rank(o[k]) = k - 1
      /\ \A x \in S : rank(x) \in 0..(n - 1)
      /\ \A x, y \in S : <<x, y>> \in R => rank(x) < rank(y)
  BY ZenonT(40), OrderedType
<1> HIDE DEF n, o, rank
<1>2. ASSUME NEW x \in S PROVE \E k \in 1..n : o[k] = x
  <2> DEFINE k == rank(x) + 1
  <2>1. k \in 1..n /\ k - 1 = rank(x)
    BY <1>1
  <2> HIDE DEF k
  <2>2. o[k] \in S /\ rank(o[k]) = rank(x)
    BY <1>1, <2>1
  <2>3. rank(x) \in Nat
    BY <1>1
  <2>4. ~(rank(x) < rank(x))
    BY <2>3
  <2>5. <<o[k], x>> \notin R /\ <<x, o[k]>> \notin R
    BY ZenonT(40), <1>1, <2>2, <2>4
  <2> QED BY ZenonT(40), <2>1, <2>2, <2>5 DEF StrictOrder
<1>3. ASSUME NEW j \in 1..n, NEW k \in 1..n, <<o[j], o[k]>> \in R PROVE j < k
  <2>1. rank(o[j]) < rank(o[k]) /\ rank(o[j]) = j - 1 /\ rank(o[k]) = k - 1
    BY ZenonT(40), <1>1, <1>3
  <2>2. j \in Int /\ k \in Int
    BY <1>1
  <2> QED BY <2>1, <2>2
<1> QED BY ZenonT(40), <1>2, <1>3 DEF n, o

(* The places of a sequence, counted. *)
LEMMA UpTo ==
    ASSUME NEW n \in Nat
    PROVE  IsFiniteSet(1..n) /\ Cardinality(1..n) = n
<1>1. /\ IsFiniteSet(1..n)
      /\ Cardinality(1..n) = IF 1 > n THEN 0 ELSE n - 1 + 1
  BY FS_Interval
<1> QED BY <1>1

(* A scope's configured servers are a list of servers. *)
LEMMA ConfiguredType ==
    ASSUME NEW scopes \in Seq(Scope), NEW fallback \in Fallback, NEW scope
    PROVE  Configured(scopes, fallback, scope) \in Seq(Server)
<1> DEFINE I == {i \in DOMAIN scopes : scopes[i].id = scope}
<1>1. CASE scope = FALLBACK_SCOPE
  BY <1>1 DEF Configured, Fallback
<1>2. CASE scope # FALLBACK_SCOPE /\ I = {}
  BY <1>2 DEF Configured
<1>3. CASE scope # FALLBACK_SCOPE /\ I # {}
  <2>1. I \subseteq Nat
    OBVIOUS
  <2>2. Min(I) \in I
    <3> HIDE DEF I
    <3> QED BY ZenonT(40), <1>3, <2>1, NatMin
  <2>3. scopes[Min(I)] \in Scope
    BY <2>2
  <2>4. Configured(scopes, fallback, scope) = scopes[Min(I)].servers
    BY <1>3 DEF Configured
  <2> QED BY <2>3, <2>4 DEF Scope
<1> QED BY <1>1, <1>2, <1>3

(* The list servers_of returns has the configured servers and no others,   *)
(* the healthy ones before the demoted ones.                               *)
LEMMA ServersOfType ==
    ASSUME NEW scopes \in Seq(Scope), NEW fallback \in Fallback, NEW demoted, NEW scope
    PROVE  LET servers == Configured(scopes, fallback, scope)
               order   == servers_of(scopes, fallback, demoted, scope)
           IN  /\ order \in Seq(Server)
               /\ Len(order) = Len(servers)
               /\ Range(order) \subseteq Range(servers)
               /\ \A s \in Range(servers) : \E k \in DOMAIN order : order[k] = s
               /\ \A j, k \in DOMAIN order :
                      /\ server_key(order[j], scope) \notin demoted
                      /\ server_key(order[k], scope) \in demoted
                      => j < k
<1> DEFINE servers == Configured(scopes, fallback, scope)
           order == servers_of(scopes, fallback, demoted, scope)
           I == DOMAIN servers
           sick(i) == server_key(servers[i], scope) \in demoted
           R == {p \in I \X I : \/ ~sick(p[1]) /\ sick(p[2])
                                \/ sick(p[1]) = sick(p[2]) /\ p[1] < p[2]}
<1>1. servers \in Seq(Server)
  BY ConfiguredType
<1>2. order = [k \in I |-> servers[Ordered(I, R)[k]]]
  BY DEF servers_of
<1> HIDE DEF servers, order
<1>3. I = 1..Len(servers) /\ Len(servers) \in Nat
  BY <1>1
<1>4. IsFiniteSet(I) /\ Cardinality(I) = Len(servers)
  BY <1>3, UpTo
<1>6. /\ \A x \in I : <<x, x>> \notin R
      /\ \A x, y \in I : x = y \/ <<x, y>> \in R \/ <<y, x>> \in R
      /\ \A x, y, z \in I : <<x, y>> \in R /\ <<y, z>> \in R => <<x, z>> \in R
  <2> DEFINE d == [i \in I |-> sick(i)]
  <2>1. \A x \in I : x \in Int
    BY <1>3
  <2>2. \A x \in I : d[x] \in BOOLEAN
    OBVIOUS
  <2>3. ASSUME NEW x \in I, NEW y \in I
        PROVE  <<x, y>> \in R <=> ((~d[x] /\ d[y]) \/ (d[x] = d[y] /\ x < y))
    BY ZenonT(40)
  <2> HIDE DEF I, d, R
  <2>4. \A x \in I : <<x, x>> \notin R
    BY <2>1, <2>2, <2>3
  <2>5. ASSUME NEW x \in I, NEW y \in I PROVE x = y \/ <<x, y>> \in R \/ <<y, x>> \in R
    <3>1. x = y \/ x < y \/ y < x
      BY <2>1
    <3>2. d[x] \in BOOLEAN /\ d[y] \in BOOLEAN
      BY <2>2
    <3> QED BY <3>1, <3>2, <2>3
  <2>6. ASSUME NEW x \in I, NEW y \in I, NEW z \in I, <<x, y>> \in R, <<y, z>> \in R
        PROVE  <<x, z>> \in R
    BY <2>1, <2>2, <2>3, <2>6
  <2> QED BY <2>4, <2>5, <2>6
<1>7. Ordered(I, R) \in [1..Len(servers) -> I]
  <2> HIDE DEF I, R
  <2> QED BY <1>4, <1>6, OrderedType DEF StrictOrder
<1>8. order \in [1..Len(servers) -> Server]
  <2> HIDE DEF R
  <2>1. \A k \in I : Ordered(I, R)[k] \in I
    BY <1>3, <1>7
  <2> QED BY <1>1, <1>2, <1>3, <2>1
<1>9. \A k \in I : \E i \in I : order[k] = servers[i]
  <2> HIDE DEF R
  <2> QED BY <1>2, <1>3, <1>7
<1>10. order \in Seq(Server) /\ Len(order) = Len(servers)
  BY <1>3, <1>8
<1>11. Range(order) \subseteq Range(servers)
  <2>1. DOMAIN order = I
    BY <1>2
  <2>2. ASSUME NEW s \in Range(order) PROVE s \in Range(servers)
    <3>1. PICK k \in I : s = order[k]
      BY <2>1 DEF Range
    <3> QED BY <3>1, <1>9 DEF Range
  <2> QED BY <2>2
<1>12. /\ \A x \in I : \E k \in 1..Len(servers) : Ordered(I, R)[k] = x
       /\ \A j, k \in 1..Len(servers) : <<Ordered(I, R)[j], Ordered(I, R)[k]>> \in R => j < k
  <2> HIDE DEF I, R
  <2> QED BY <1>4, <1>6, OrderedAll DEF StrictOrder
<1>13. ASSUME NEW s \in Range(servers) PROVE \E k \in DOMAIN order : order[k] = s
  <2>1. PICK i \in I : s = servers[i]
    BY ZenonT(40) DEF Range
  <2>2. PICK k \in 1..Len(servers) : Ordered(I, R)[k] = i
    BY ZenonT(40), <1>12
  <2>3. k \in DOMAIN order /\ order[k] = servers[Ordered(I, R)[k]]
    BY <1>2, <1>3
  <2> HIDE DEF R, I
  <2> QED BY ZenonT(40), <2>1, <2>2, <2>3
<1>14. ASSUME NEW j \in DOMAIN order, NEW k \in DOMAIN order,
              server_key(order[j], scope) \notin demoted,
              server_key(order[k], scope) \in demoted
       PROVE  j < k
  <2> DEFINE a == Ordered(I, R)[j]
             b == Ordered(I, R)[k]
  <2>1. /\ j \in 1..Len(servers) /\ k \in 1..Len(servers)
        /\ order[j] = servers[a] /\ order[k] = servers[b]
    BY <1>2, <1>3
  <2>2. a \in I /\ b \in I
    <3> HIDE DEF R
    <3> QED BY <1>7, <2>1
  <2>3. ~sick(a) /\ sick(b)
    BY ZenonT(40), <1>14, <2>1
  <2> HIDE DEF a, b
  <2>4. <<a, b>> \in R
    BY ZenonT(40), <2>2, <2>3
  <2> QED BY ZenonT(40), <1>12, <2>1, <2>4 DEF a, b
<1> HIDE DEF R, I
<1>15. /\ \A s \in Range(servers) : \E k \in DOMAIN order : order[k] = s
       /\ \A j, k \in DOMAIN order :
              /\ server_key(order[j], scope) \notin demoted
              /\ server_key(order[k], scope) \in demoted
              => j < k
  BY ZenonT(40), <1>13, <1>14
<1> QED BY ZenonT(40), <1>10, <1>11, <1>15 DEF servers, order

(* The places of search domains are finite in number and lead to names. *)
LEMMA PlacesType ==
    ASSUME NEW scopes \in Seq(Scope), NEW fallback \in Fallback
    PROVE  /\ IsFiniteSet(Places(scopes, fallback))
           /\ \A p \in Places(scopes, fallback) :
                  /\ p = <<p[1], p[2]>>
                  /\ p[1] \in 1..(Len(scopes) + 1)
                  /\ p[2] \in Nat
                  /\ DomainsAt(scopes, fallback, p[1])[p[2]] \in Name
<1> DEFINE at(i) == DomainsAt(scopes, fallback, i)
           I == IF exclusive(scopes) # {} THEN {min_by_metric(scopes, exclusive(scopes))}
                ELSE up_scopes(scopes) \cup {Len(scopes) + 1}
           N == Len(scopes) + 1
           block == [i \in 1..N |-> {i} \X DOMAIN at(i)]
<1>1. up_scopes(scopes) \subseteq 1..Len(scopes) /\ exclusive(scopes) \subseteq 1..Len(scopes)
  BY DEF up_scopes, exclusive
<1>2. I \subseteq 1..N
  <2>1. exclusive(scopes) # {} => min_by_metric(scopes, exclusive(scopes)) \in exclusive(scopes)
    BY <1>1, MinByMetric
  <2> QED BY <1>1, <2>1
<1>3. ASSUME NEW i \in 1..N PROVE at(i) \in Seq(Name)
  <2>1. CASE i \in DOMAIN scopes
    <3>1. scopes[i] \in Scope
      BY <2>1
    <3> QED BY <2>1, <3>1 DEF DomainsAt, Scope
  <2>2. CASE i \notin DOMAIN scopes
    BY <2>2 DEF DomainsAt, Fallback
  <2> QED BY <2>1, <2>2
<1>4. Places(scopes, fallback) = UNION {block[i] : i \in I}
  BY ZenonT(40), <1>2 DEF Places
<1>5. ASSUME NEW i \in 1..N PROVE IsFiniteSet(block[i])
  <2>1. IsFiniteSet({i})
    BY ZenonT(40), FS_Singleton
  <2>2. DOMAIN at(i) = 1..Len(at(i)) /\ Len(at(i)) \in Nat
    BY <1>3
  <2>3. IsFiniteSet(DOMAIN at(i))
    BY <2>2, UpTo
  <2>4. IsFiniteSet({i} \X DOMAIN at(i))
    BY <2>1, <2>3, FS_Product
  <2> QED BY <2>4
<1>6. IsFiniteSet(Places(scopes, fallback))
  <2> DEFINE B == {block[i] : i \in 1..N}
             f == [i \in 1..N |-> block[i]]
  <2>1. f \in Surjection(1..N, B)
    BY ZenonT(40) DEF Surjection
  <2>2. IsFiniteSet(1..N)
    BY UpTo
  <2> HIDE DEF f, block
  <2>3. IsFiniteSet(B)
    BY <2>1, <2>2, FS_Surjection
  <2>4. \A T \in B : IsFiniteSet(T)
    BY <1>5
  <2> HIDE DEF B
  <2>5. IsFiniteSet(UNION B)
    BY <2>3, <2>4, FS_UNION
  <2>6. Places(scopes, fallback) \in SUBSET (UNION B)
    BY <1>2, <1>4 DEF B
  <2> QED BY <2>5, <2>6, FS_Subset
<1>7. ASSUME NEW p \in Places(scopes, fallback)
      PROVE  /\ p = <<p[1], p[2]>>
             /\ p[1] \in 1..N
             /\ p[2] \in Nat
             /\ at(p[1])[p[2]] \in Name
  <2>1. PICK i \in 1..N : p \in {i} \X DOMAIN at(i)
    BY ZenonT(40), <1>2, <1>4
  <2>2. at(i) \in Seq(Name)
    BY <1>3
  <2>3. p = <<p[1], p[2]>> /\ p[1] = i /\ p[2] \in DOMAIN at(i)
    BY <2>1
  <2> HIDE DEF at
  <2> QED BY <2>2, <2>3
<1> QED BY <1>6, <1>7

(* Earlier orders the places: i, j, l are scopes, or the one place after   *)
(* them, with metrics m; a, b, c are places in their lists of domains.     *)
LEMMA EarlierOrder ==
    ASSUME NEW scopes \in Seq(Scope),
           NEW i \in 1..(Len(scopes) + 1), NEW j \in 1..(Len(scopes) + 1),
           NEW l \in 1..(Len(scopes) + 1), NEW a \in Nat, NEW b \in Nat, NEW c \in Nat
    PROVE  /\ ~Earlier(scopes, <<i, a>>, <<i, a>>)
           /\ \/ i = j /\ a = b
              \/ Earlier(scopes, <<i, a>>, <<j, b>>)
              \/ Earlier(scopes, <<j, b>>, <<i, a>>)
           /\ (Earlier(scopes, <<i, a>>, <<j, b>>) /\ Earlier(scopes, <<j, b>>, <<l, c>>))
                 => Earlier(scopes, <<i, a>>, <<l, c>>)
<1> DEFINE D == 1..Len(scopes)
           before(x, u, y, v) ==
               \/ x = y /\ u < v
               \/ /\ x \in D /\ y \in D
                  /\ \/ scopes[x].metric < scopes[y].metric
                     \/ scopes[x].metric = scopes[y].metric /\ x < y
               \/ x \in D /\ y \notin D
<1>1. \A x, u, y, v : Earlier(scopes, <<x, u>>, <<y, v>>) <=> before(x, u, y, v)
  BY DEF Earlier
<1>2. ASSUME NEW k \in D PROVE scopes[k].metric \in Nat
  <2>1. scopes[k] \in Scope
    OBVIOUS
  <2> QED BY ZenonT(40), <2>1 DEF Scope
<1>3. \A k \in 1..(Len(scopes) + 1) : k \in D \/ k = Len(scopes) + 1
  OBVIOUS
<1>4. ~before(i, a, i, a)
  BY <1>2
<1>5. (i = j /\ a = b) \/ before(i, a, j, b) \/ before(j, b, i, a)
  BY <1>2, <1>3
<1>6. before(i, a, j, b) /\ before(j, b, l, c) => before(i, a, l, c)
  <2>1. CASE i \in D /\ j \in D /\ l \in D
    BY SMTT(30), <1>2, <2>1
  <2>2. CASE ~(i \in D /\ j \in D /\ l \in D)
    BY <1>2, <1>3, <2>2
  <2> QED BY <2>1, <2>2
<1> HIDE DEF before
<1> QED BY <1>1, <1>4, <1>5, <1>6

(* The name that the search domain at place p makes of a label. *)
Full(S, f, name, p) == name \o DomainsAt(S, f, p[1])[p[2]]

(* The places search expansion uses: the first one for each name. *)
Firsts(S, f, name) ==
    LET P == {p \in Places(S, f) : Len(Full(S, f, name, p)) <= MaxLabels}
    IN  {p \in P : \A q \in P : Earlier(S, q, p) => Full(S, f, name, q) # Full(S, f, name, p)}

(* Their order. *)
EarlierIn(S, F) == {x \in F \X F : Earlier(S, x[1], x[2])}

(* Any places are finite in number and in order. *)
LEMMA PlacesOrder ==
    ASSUME NEW S \in Seq(Scope), NEW f \in Fallback, NEW F, F \subseteq Places(S, f)
    PROVE  IsFiniteSet(F) /\ StrictOrder(F, EarlierIn(S, F))
<1> DEFINE R == EarlierIn(S, F)
<1>1. F \in SUBSET Places(S, f)
  OBVIOUS
<1>2. IsFiniteSet(F)
  BY ZenonT(40), <1>1, PlacesType, FS_Subset
<1>3. \A p \in F : /\ p = <<p[1], p[2]>>
                   /\ p[1] \in 1..(Len(S) + 1)
                   /\ p[2] \in Nat
  BY ZenonT(40), <1>1, PlacesType
<1>4. \A p, q \in F : <<p, q>> \in R <=> Earlier(S, p, q)
  BY ZenonT(40) DEF EarlierIn
<1> HIDE DEF R
<1>5. ASSUME NEW p \in F PROVE <<p, p>> \notin R
  BY <1>3, <1>4, EarlierOrder
<1>6. ASSUME NEW p \in F, NEW q \in F
      PROVE  p = q \/ <<p, q>> \in R \/ <<q, p>> \in R
  <2>1. \/ p[1] = q[1] /\ p[2] = q[2]
        \/ Earlier(S, <<p[1], p[2]>>, <<q[1], q[2]>>)
        \/ Earlier(S, <<q[1], q[2]>>, <<p[1], p[2]>>)
    BY <1>3, EarlierOrder
  <2>2. p = <<p[1], p[2]>> /\ q = <<q[1], q[2]>>
    BY ZenonT(40), <1>3
  <2> QED BY ZenonT(40), <1>4, <2>1, <2>2
<1>7. ASSUME NEW p \in F, NEW q \in F, NEW r \in F, <<p, q>> \in R, <<q, r>> \in R
      PROVE  <<p, r>> \in R
  <2>1. \/ ~Earlier(S, <<p[1], p[2]>>, <<q[1], q[2]>>)
        \/ ~Earlier(S, <<q[1], q[2]>>, <<r[1], r[2]>>)
        \/ Earlier(S, <<p[1], p[2]>>, <<r[1], r[2]>>)
    BY <1>3, EarlierOrder
  <2>2. p = <<p[1], p[2]>> /\ q = <<q[1], q[2]>> /\ r = <<r[1], r[2]>>
    BY <1>3
  <2>3. Earlier(S, p, q) /\ Earlier(S, q, r)
    BY <1>4, <1>7
  <2>4. Earlier(S, p, r)
    BY ZenonT(40), <2>1, <2>2, <2>3
  <2> QED BY <1>4, <2>4
<1>8. StrictOrder(F, R)
  BY ZenonT(40), <1>5, <1>6, <1>7 DEF StrictOrder
<1> QED BY ZenonT(40), <1>2, <1>8 DEF R

(* So are the places used. *)
LEMMA FirstsOrder ==
    ASSUME NEW S \in Seq(Scope), NEW f \in Fallback, NEW name \in Name
    PROVE  /\ Firsts(S, f, name) \subseteq Places(S, f)
           /\ IsFiniteSet(Firsts(S, f, name))
           /\ StrictOrder(Firsts(S, f, name), EarlierIn(S, Firsts(S, f, name)))
<1>1. Firsts(S, f, name) \subseteq Places(S, f)
  BY ZenonT(40) DEF Firsts
<1> QED BY ZenonT(40), <1>1, PlacesOrder

(* Search expansion lists the names of the places it uses, in order. *)
LEMMA CandidatesAre ==
    ASSUME NEW S, NEW f, NEW name, Len(name) = 1
    PROVE  LET F == Firsts(S, f, name)
           IN  candidates(S, f, name)
                   = [k \in 1..Cardinality(F) |->
                         Full(S, f, name, Ordered(F, EarlierIn(S, F))[k])]
BY DEF candidates, Firsts, Full, EarlierIn

(* Search expansion turns a name into a list of names. *)
LEMMA CandidatesType ==
    ASSUME NEW scopes \in Seq(Scope), NEW fallback \in Fallback, NEW name \in Name
    PROVE  candidates(scopes, fallback, name) \in Seq(Name)
<1>1. CASE Len(name) # 1
  <2>1. candidates(scopes, fallback, name) = <<name>>
    BY ZenonT(40), <1>1 DEF candidates
  <2> QED BY <2>1
<1>2. CASE Len(name) = 1
  <2> DEFINE F == Firsts(scopes, fallback, name)
             full(p) == Full(scopes, fallback, name, p)
             order == Ordered(F, EarlierIn(scopes, F))
             n == Cardinality(F)
  <2>1. candidates(scopes, fallback, name) = [k \in 1..n |-> full(order[k])]
    BY <1>2, CandidatesAre
  <2>2. F \subseteq Places(scopes, fallback) /\ n \in Nat /\ order \in [1..n -> F]
    <3> HIDE DEF F
    <3> QED BY ZenonT(40), FirstsOrder, OrderedType DEF F
  <2>3. ASSUME NEW p \in F PROVE full(p) \in Name
    <3>1. DomainsAt(scopes, fallback, p[1])[p[2]] \in Name
      BY ZenonT(40), <2>2, PlacesType
    <3> QED BY <3>1 DEF Name, Full
  <2> HIDE DEF F, order, full, n
  <2>4. ASSUME NEW k \in 1..n PROVE full(order[k]) \in Name
    BY <2>2, <2>3
  <2>5. candidates(scopes, fallback, name) \in [1..n -> Name]
    BY <2>1, <2>4
  <2> QED BY <2>2, <2>5
<1> QED BY <1>1, <1>2
=============================================================================
