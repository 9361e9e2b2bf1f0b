-------------------------- MODULE RoutingTheorems --------------------------
(* What routing and search expansion promise, for every scope list. *)
EXTENDS ScopeTable, RoutingProofs, SequenceTheorems

-----------------------------------------------------------------------------
(* Routes *)

(* Scope i is to be preferred to scope j. *)
Before(S, i, j) ==
    \/ S[i].metric < S[j].metric
    \/ S[i].metric = S[j].metric /\ i <= j

(* Rule p is the first that selects a scope for the name. *)
Decides(S, name, p) ==
    /\ RouteRules(S, name)[p] # {}
    /\ \A q \in 1..5 : q < p => RouteRules(S, name)[q] = {}

(* The first rule that selects a scope decides. *)
LEMMA RouteDecided ==
    ASSUME NEW S \in Seq(Scope), NEW f, NEW name, NEW p \in 1..5, Decides(S, name, p)
    PROVE  LET I == RouteRules(S, name)[p]
               i == min_by_metric(S, I)
           IN  /\ route(S, f, name) = S[i].id
               /\ i \in I /\ i \in up_scopes(S) /\ i \in DOMAIN S
               /\ \A j \in I : Before(S, i, j)
<1> DEFINE rules == RouteRules(S, name)
           apply == {k \in 1..5 : rules[k] # {}}
           I == rules[p]
           i == min_by_metric(S, I)
<1>1. Min(apply) = p
  <2>1. p \in apply /\ apply \subseteq Nat
    BY DEF Decides
  <2>2. \A q \in apply : ~(q < p) /\ q \in Nat
    BY DEF Decides
  <2> HIDE DEF apply
  <2>3. Min(apply) \in apply /\ \A q \in apply : Min(apply) <= q
    BY ZenonT(40), <2>1, NatMin
  <2>4. Min(apply) <= p /\ ~(Min(apply) < p) /\ Min(apply) \in Nat /\ p \in Nat
    BY ZenonT(40), <2>1, <2>2, <2>3
  <2> QED BY <2>4
<1>2. p \in apply
  BY ZenonT(40) DEF Decides
<1>3. route(S, f, name) = S[i].id
  BY ZenonT(40), <1>1, <1>2 DEF route
<1>4. I \subseteq up_scopes(S) /\ up_scopes(S) \subseteq DOMAIN S /\ I # {}
  BY ZenonT(40), RulesAreUp DEF up_scopes, Decides
<1> HIDE DEF I
<1>5. i \in I /\ \A j \in I : Before(S, i, j)
  BY <1>4, MinByMetric DEF Before
<1> QED BY ZenonT(40), <1>3, <1>4, <1>5 DEF I

(* No rule selects a scope: the fallback servers, if there are any. *)
LEMMA RouteUndecided ==
    ASSUME NEW S, NEW f, NEW name, \A p \in 1..5 : RouteRules(S, name)[p] = {}
    PROVE  route(S, f, name) = IF f.servers # <<>> THEN FALLBACK_SCOPE ELSE NoScope
BY ZenonT(40) DEF route

(* Some rule decides, or none selects a scope. *)
LEMMA RouteCases ==
    ASSUME NEW S, NEW name
    PROVE  \/ \E p \in 1..5 : Decides(S, name, p)
           \/ \A p \in 1..5 : RouteRules(S, name)[p] = {}
<1> DEFINE apply == {k \in 1..5 : RouteRules(S, name)[k] # {}}
           p == Min(apply)
<1>1. CASE apply # {}
  <2>1. apply \subseteq Nat
    OBVIOUS
  <2>2. \A q : q \in apply <=> q \in 1..5 /\ RouteRules(S, name)[q] # {}
    BY ZenonT(40)
  <2> HIDE DEF apply
  <2>3. p \in apply /\ \A q \in apply : p <= q
    BY ZenonT(40), <1>1, <2>1, NatMin
  <2> HIDE DEF p
  <2>4. \A q \in 1..5 : q < p => q \notin apply
    BY <2>1, <2>3
  <2> QED BY ZenonT(40), <2>2, <2>3, <2>4 DEF Decides
<1>2. CASE apply = {}
  BY ZenonT(40), <1>2
<1> QED BY ZenonT(40), <1>1, <1>2

(* The rules, by number. *)
LEMMA RulesAre ==
    ASSUME NEW S, NEW name
    PROVE  /\ RouteRules(S, name)[1] = exclusive(S)
           /\ RouteRules(S, name)[2] = LongestMatch(S, name)
           /\ RouteRules(S, name)[3] = OnSubnet(S, name)
           /\ RouteRules(S, name)[4] = DefaultRoute(S)
           /\ RouteRules(S, name)[5] = WithServers(S)
BY DEF RouteRules

(* An interface's identifier is not one of the two that stand for none. *)
LEMMA ScopeIds ==
    ASSUME NEW S \in Seq(Scope), NEW i \in DOMAIN S
    PROVE  S[i] \in Scope /\ S[i].id \notin {FALLBACK_SCOPE, NoScope}
<1>1. S[i] \in Scope
  OBVIOUS
<1> QED BY ZenonT(40), <1>1, RoutingConstants DEF Scope

(* If a search domain of an interface that is up matches, there is a       *)
(* longest one.                                                            *)
LEMMA LongestExists ==
    ASSUME NEW S \in Seq(Scope), NEW name \in Name, NEW i \in up_scopes(S),
           NEW m \in MatchLengths(S, name, i)
    PROVE  LongestMatch(S, name) # {}
<1> DEFINE all == UNION {MatchLengths(S, name, j) : j \in up_scopes(S)}
           short == {Len(name) - l : l \in all}
           least == Min(short)
<1>1. ASSUME NEW j \in up_scopes(S), NEW l \in MatchLengths(S, name, j)
      PROVE  l \in Nat /\ l <= Len(name)
  <2>1. S[j] \in Scope
    BY DEF up_scopes
  <2>2. S[j].domains \in Seq(Name)
    BY ZenonT(40), <2>1 DEF Scope
  <2>3. PICK k \in DOMAIN S[j].domains : l = Len(S[j].domains[k]) /\ ends_with(name, S[j].domains[k])
    BY ZenonT(40) DEF MatchLengths
  <2>4. S[j].domains[k] \in Name
    BY <2>2, <2>3
  <2>5. Len(S[j].domains[k]) \in Nat
    BY <2>4 DEF Name
  <2> QED BY ZenonT(40), <2>3, <2>5 DEF ends_with
<1>2. Len(name) \in Nat
  BY DEF Name
<1>3. \A l \in all : l \in Nat /\ l <= Len(name)
  BY ZenonT(40), <1>1
<1>4. m \in all
  BY ZenonT(40)
<1>5. \A l \in all : \E j \in up_scopes(S) : l \in MatchLengths(S, name, j)
  BY ZenonT(40)
<1>6. \A j \in up_scopes(S) : \A l \in MatchLengths(S, name, j) : l \in all
  BY ZenonT(40)
<1> HIDE DEF all
<1>7. short \subseteq Nat /\ short # {}
  BY <1>2, <1>3, <1>4
<1>8. least \in short /\ \A x \in short : least <= x
  <2> HIDE DEF short
  <2> QED BY ZenonT(40), <1>7, NatMin
<1>9. PICK n \in all : least = Len(name) - n
  BY ZenonT(40), <1>8
<1> HIDE DEF least
<1>10. ASSUME NEW l \in all PROVE l <= n
  <2>1. Len(name) - n <= Len(name) - l
    BY ZenonT(40), <1>8, <1>9
  <2> QED BY <1>2, <1>3, <2>1
<1>11. PICK j \in up_scopes(S) : n \in MatchLengths(S, name, j)
  BY ZenonT(40), <1>5
<1> QED BY ZenonT(40), <1>6, <1>10, <1>11 DEF LongestMatch

-----------------------------------------------------------------------------
(* Lists of scopes that differ in what does not matter *)

(* T lists scopes of S, as h says, and in the same order of preference. *)
Embeds(S, T, h) ==
    /\ h \in [DOMAIN T -> DOMAIN S]
    /\ \A j \in DOMAIN T : T[j] = S[h[j]]
    /\ \A j, l \in DOMAIN T : Before(T, j, l) <=> Before(S, h[j], h[l])

(* The lengths of search domains are numbers. *)
LEMMA MatchLengthsType ==
    ASSUME NEW S \in Seq(Scope), NEW name, NEW j \in DOMAIN S
    PROVE  MatchLengths(S, name, j) \subseteq Nat
<1>1. S[j] \in Scope
  OBVIOUS
<1>2. S[j].domains \in Seq(Name)
  BY ZenonT(40), <1>1 DEF Scope
<1> SUFFICES ASSUME NEW l \in MatchLengths(S, name, j) PROVE l \in Nat
  OBVIOUS
<1>3. PICK k \in DOMAIN S[j].domains : l = Len(S[j].domains[k])
  BY ZenonT(40) DEF MatchLengths
<1>4. S[j].domains[k] \in Name
  BY <1>2, <1>3
<1> QED BY <1>3, <1>4 DEF Name

(* Whether an interface is up, its domains and its subnets go with it. *)
LEMMA EmbedScope ==
    ASSUME NEW S, NEW T, NEW h, Embeds(S, T, h), NEW j \in DOMAIN T, NEW name
    PROVE  /\ h[j] \in DOMAIN S
           /\ j \in up_scopes(T) <=> h[j] \in up_scopes(S)
           /\ j \in exclusive(T) <=> h[j] \in exclusive(S)
           /\ j \in OnSubnet(T, name) <=> h[j] \in OnSubnet(S, name)
           /\ j \in DefaultRoute(T) <=> h[j] \in DefaultRoute(S)
           /\ j \in WithServers(T) <=> h[j] \in WithServers(S)
           /\ MatchLengths(T, name, j) = MatchLengths(S, name, h[j])
<1>1. T[j] = S[h[j]] /\ h[j] \in DOMAIN S
  BY ZenonT(40) DEF Embeds
<1>2. j \in up_scopes(T) <=> h[j] \in up_scopes(S)
  BY ZenonT(40), <1>1 DEF up_scopes
<1>3. MatchLengths(T, name, j) = MatchLengths(S, name, h[j])
  BY ZenonT(40), <1>1 DEF MatchLengths
<1> QED BY ZenonT(40), <1>1, <1>2, <1>3 DEF exclusive, OnSubnet, DefaultRoute, WithServers

(* What each rule selects goes with it too, as long as the interface it    *)
(* prefers is still there.                                                 *)
LEMMA EmbedLongest ==
    ASSUME NEW S \in Seq(Scope), NEW T \in Seq(Scope), NEW h, Embeds(S, T, h), NEW name \in Name
    PROVE  /\ LongestMatch(S, name) = {} => LongestMatch(T, name) = {}
           /\ \A k \in DOMAIN T : h[k] \in LongestMatch(S, name) =>
                  /\ k \in LongestMatch(T, name)
                  /\ \A j \in LongestMatch(T, name) : h[j] \in LongestMatch(S, name)
<1>1. up_scopes(T) \subseteq DOMAIN T /\ up_scopes(S) \subseteq DOMAIN S
  BY ZenonT(40) DEF up_scopes
<1>2. ASSUME NEW j \in LongestMatch(T, name) PROVE LongestMatch(S, name) # {}
  <2>1. PICK n \in MatchLengths(T, name, j) : j \in up_scopes(T)
    BY ZenonT(40) DEF LongestMatch
  <2>2. h[j] \in up_scopes(S) /\ n \in MatchLengths(S, name, h[j])
    BY <1>1, <2>1, EmbedScope
  <2> QED BY ZenonT(40), <2>2, LongestExists
<1>3. ASSUME NEW k \in DOMAIN T, h[k] \in LongestMatch(S, name)
      PROVE  /\ k \in LongestMatch(T, name)
             /\ \A j \in LongestMatch(T, name) : h[j] \in LongestMatch(S, name)
  <2>1. PICK n \in MatchLengths(S, name, h[k]) :
            \A i \in up_scopes(S) : \A m \in MatchLengths(S, name, i) : m <= n
    BY ZenonT(40), <1>3 DEF LongestMatch
  <2>2. h[k] \in up_scopes(S)
    BY ZenonT(40), <1>3 DEF LongestMatch
  <2>3. k \in up_scopes(T) /\ n \in MatchLengths(T, name, k)
    BY <2>1, <2>2, EmbedScope
  <2>4. ASSUME NEW j \in up_scopes(T), NEW m \in MatchLengths(T, name, j) PROVE m <= n
    <3>1. h[j] \in up_scopes(S) /\ m \in MatchLengths(S, name, h[j])
      BY <1>1, EmbedScope
    <3> QED BY ZenonT(40), <2>1, <3>1
  <2>5. k \in LongestMatch(T, name)
    BY ZenonT(40), <2>3, <2>4 DEF LongestMatch
  <2>6. ASSUME NEW j \in LongestMatch(T, name) PROVE h[j] \in LongestMatch(S, name)
    <3>1. PICK l \in MatchLengths(T, name, j) :
              \A i \in up_scopes(T) : \A m \in MatchLengths(T, name, i) : m <= l
      BY ZenonT(40) DEF LongestMatch
    <3>2. j \in up_scopes(T)
      BY ZenonT(40) DEF LongestMatch
    <3>3. h[j] \in up_scopes(S) /\ l \in MatchLengths(S, name, h[j]) /\ n <= l
      BY SMTT(30), <1>1, <2>3, <3>1, <3>2, EmbedScope
    <3>4. ASSUME NEW i \in up_scopes(S), NEW m \in MatchLengths(S, name, i) PROVE m <= l
      <4>1. m \in Nat /\ n \in Nat /\ l \in Nat
        BY ZenonT(40), <1>1, <2>2, <3>3, MatchLengthsType
      <4>2. m <= n
        BY ZenonT(40), <2>1
      <4> QED BY <3>3, <4>1, <4>2
    <3> QED BY ZenonT(40), <3>3, <3>4 DEF LongestMatch
  <2> QED BY ZenonT(40), <2>5, <2>6
<1> QED BY ZenonT(40), <1>2, <1>3

(* The same for every rule. *)
LEMMA EmbedRules ==
    ASSUME NEW S \in Seq(Scope), NEW T \in Seq(Scope), NEW h, Embeds(S, T, h),
           NEW name \in Name, NEW p \in 1..5
    PROVE  LET I == RouteRules(S, name)[p]
               J == RouteRules(T, name)[p]
           IN  /\ I = {} => J = {}
               /\ \A k \in DOMAIN T : h[k] \in I => k \in J /\ \A j \in J : h[j] \in I
<1>1. up_scopes(T) \subseteq DOMAIN T
  BY ZenonT(40) DEF up_scopes
<1>2. p = 1 \/ p = 2 \/ p = 3 \/ p = 4 \/ p = 5
  OBVIOUS
<1>3. CASE p = 2
  BY <1>3, RulesAre, EmbedLongest
<1> DEFINE I == RouteRules(S, name)[p]
           J == RouteRules(T, name)[p]
<1>4. CASE p # 2
  <2>1. J \subseteq DOMAIN T
    BY ZenonT(40), <1>1, RulesAreUp
  <2>2. ASSUME NEW j \in DOMAIN T PROVE j \in J <=> h[j] \in I
    <3>1. CASE p = 1
      BY <3>1, RulesAre, EmbedScope
    <3>2. CASE p = 3
      BY SMTT(30), <3>2, RulesAre, EmbedScope
    <3>3. CASE p = 4
      BY SMTT(30), <3>3, RulesAre, EmbedScope
    <3>4. CASE p = 5
      BY SMTT(30), <3>4, RulesAre, EmbedScope
    <3> QED BY ZenonT(40), <1>2, <1>4, <3>1, <3>2, <3>3, <3>4
  <2> HIDE DEF I, J
  <2> QED BY ZenonT(40), <2>1, <2>2 DEF I, J
<1> QED BY ZenonT(40), <1>3, <1>4

(* Scopes have one order of preference. *)
LEMMA BeforeOrder ==
    ASSUME NEW S \in Seq(Scope), NEW i \in DOMAIN S, NEW j \in DOMAIN S
    PROVE  /\ Before(S, i, j) /\ Before(S, j, i) => i = j
           /\ ~Before(S, j, i) <=> \/ S[i].metric < S[j].metric
                                   \/ S[i].metric = S[j].metric /\ i < j
<1>1. S[i] \in Scope /\ S[j] \in Scope /\ i \in Int /\ j \in Int
  OBVIOUS
<1>2. S[i].metric \in Int /\ S[j].metric \in Int
  BY <1>1 DEF Scope
<1> QED BY <1>1, <1>2 DEF Before

(* A route does not depend on scopes that are not its own. *)
LEMMA EmbedRoute ==
    ASSUME NEW S \in Seq(Scope), NEW T \in Seq(Scope), NEW h, Embeds(S, T, h),
           NEW name \in Name, NEW f,
           \A i \in DOMAIN S : route(S, f, name) = S[i].id => \E k \in DOMAIN T : h[k] = i
    PROVE  route(T, f, name) = route(S, f, name)
<1>1. CASE \A p \in 1..5 : RouteRules(S, name)[p] = {}
  <2>1. \A p \in 1..5 : RouteRules(T, name)[p] = {}
    BY ZenonT(40), <1>1, EmbedRules
  <2> QED BY <1>1, <2>1, RouteUndecided
<1>2. ASSUME NEW p \in 1..5, Decides(S, name, p) PROVE route(T, f, name) = route(S, f, name)
  <2> DEFINE I == RouteRules(S, name)[p]
             J == RouteRules(T, name)[p]
             i == min_by_metric(S, I)
             j == min_by_metric(T, J)
  <2>1. route(S, f, name) = S[i].id /\ i \in I /\ i \in DOMAIN S /\ \A l \in I : Before(S, i, l)
    BY SMTT(30), <1>2, RouteDecided
  <2>2. PICK k \in DOMAIN T : h[k] = i
    BY ZenonT(40), <2>1
  <2>3. k \in J /\ \A l \in J : h[l] \in I
    BY SMTT(30), <2>1, <2>2, EmbedRules
  <2>4. Decides(T, name, p)
    BY ZenonT(40), <1>2, <2>3, EmbedRules DEF Decides
  <2>5. route(T, f, name) = T[j].id /\ j \in J /\ j \in DOMAIN T /\ \A l \in J : Before(T, j, l)
    BY SMTT(30), <2>4, RouteDecided
  <2> HIDE DEF i, j, I, J
  <2>6. Before(T, j, k) /\ Before(T, k, j)
    BY ZenonT(40), <2>1, <2>2, <2>3, <2>5 DEF Embeds
  <2>7. j = k
    BY ZenonT(40), <2>5, <2>6, BeforeOrder
  <2> QED BY ZenonT(40), <2>1, <2>2, <2>5, <2>7 DEF Embeds
<1> QED BY ZenonT(40), <1>1, <1>2, RouteCases

(* What LeavingOut puts after the place. *)
LEMMA SkipAt ==
    ASSUME NEW S \in Seq(Scope), NEW i \in 1..Len(S), NEW j \in 1..(Len(S) - 1), i <= j
    PROVE  LeavingOut(S, i)[j] = S[j + 1]
<1> DEFINE A == SubSeq(S, 1, i - 1)
           B == SubSeq(S, i + 1, Len(S))
           b == j - (i - 1)
           n == Len(S)
<1>1. A \in Seq(Scope) /\ Len(A) = i - 1 /\ B \in Seq(Scope) /\ Len(B) = n - i
  OBVIOUS
<1>2. \A x \in 1..(n - i) : B[x] = S[i + x]
  OBVIOUS
<1>3. LeavingOut(S, i) = A \o B
  BY ZenonT(40) DEF LeavingOut
<1>4. n \in Nat /\ i \in 1..n /\ j \in 1..(n - 1)
  OBVIOUS
<1> HIDE DEF A, B, n
<1>5. \A x \in 1..(Len(A) + Len(B)) :
          (A \o B)[x] = IF x <= Len(A) THEN A[x] ELSE B[x - Len(A)]
  BY ZenonT(40), <1>1, ConcatProperties
<1>6. b \in 1..(n - i) /\ i + b = j + 1 /\ (i - 1) + b = j
  BY <1>4
<1> HIDE DEF b
<1>7. (A \o B)[j] = B[b]
  <2>1. j \in 1..(Len(A) + Len(B)) /\ ~(j <= Len(A)) /\ j - Len(A) = b
    BY <1>1, <1>4, <1>6
  <2> QED BY ZenonT(40), <1>5, <2>1
<1> QED BY SMTT(30), <1>2, <1>3, <1>6, <1>7

(* Without the scope at i the others are in the same order. *)
LEMMA RemovalEmbeds ==
    ASSUME NEW S \in Seq(Scope), NEW i \in DOMAIN S
    PROVE  LET T == LeavingOut(S, i)
               h == [j \in 1..(Len(S) - 1) |-> IF j < i THEN j ELSE j + 1]
           IN  /\ T \in Seq(Scope) /\ Embeds(S, T, h)
               /\ \A l \in DOMAIN S \ {i} : \E k \in DOMAIN T : h[k] = l
<1> DEFINE T == LeavingOut(S, i)
           h == [j \in 1..(Len(S) - 1) |-> IF j < i THEN j ELSE j + 1]
<1>1. i \in 1..Len(S) /\ Len(S) \in Nat /\ DOMAIN S = 1..Len(S)
  OBVIOUS
<1>2. T \in Seq(Scope) /\ Len(T) = Len(S) - 1
  BY SMTT(30), <1>1 DEF LeavingOut
<1>3. DOMAIN T = 1..(Len(S) - 1)
  BY <1>1, <1>2
<1>4. ASSUME NEW j \in DOMAIN T PROVE T[j] = S[h[j]]
  <2>1. CASE j < i
    BY SMTT(30), <1>1, <1>3, <2>1 DEF LeavingOut
  <2>2. CASE ~(j < i)
    <3>1. j \in 1..(Len(S) - 1) /\ i <= j /\ h[j] = j + 1
      BY SMTT(30), <1>1, <1>3, <2>2
    <3> QED BY SMTT(30), <1>1, <3>1, SkipAt
  <2> QED BY <2>1, <2>2
<1> HIDE DEF T
<1>5. h \in [DOMAIN T -> DOMAIN S]
  BY <1>1, <1>3
<1>6. ASSUME NEW j \in DOMAIN T, NEW l \in DOMAIN T
      PROVE  Before(T, j, l) <=> Before(S, h[j], h[l])
  <2>1. j <= l <=> h[j] <= h[l]
    BY <1>1, <1>3
  <2>2. T[j] = S[h[j]] /\ T[l] = S[h[l]]
    BY ZenonT(40), <1>4
  <2> HIDE DEF h
  <2> QED BY ZenonT(40), <2>1, <2>2 DEF Before
<1>7. ASSUME NEW l \in DOMAIN S \ {i} PROVE \E k \in DOMAIN T : h[k] = l
  <2>1. CASE l < i
    <3>1. l \in DOMAIN T /\ h[l] = l
      BY <1>1, <1>3, <2>1
    <3> QED BY ZenonT(40), <3>1
  <2>2. CASE ~(l < i)
    <3>1. l - 1 \in DOMAIN T /\ h[l - 1] = l
      BY SMTT(30), <1>1, <1>3, <2>2
    <3> QED BY ZenonT(40), <3>1
  <2> QED BY <2>1, <2>2
<1> HIDE DEF h
<1>8. Embeds(S, T, h)
  BY ZenonT(40), <1>4, <1>5, <1>6 DEF Embeds
<1> QED BY ZenonT(40), <1>2, <1>7, <1>8 DEF T, h

(* S and T list the same scopes in the same order of preference, and h     *)
(* leads from one to the other and back.                                   *)
Mirrors(S, T, h) ==
    /\ S \in Seq(Scope) /\ T \in Seq(Scope) /\ Len(S) = Len(T)
    /\ Embeds(S, T, h) /\ Embeds(T, S, h)
    /\ \A j \in DOMAIN S : h[h[j]] = j

(* Half of it suffices. *)
LEMMA MirrorsHalf ==
    ASSUME NEW S \in Seq(Scope), NEW T \in Seq(Scope), Len(S) = Len(T), NEW h,
           Embeds(S, T, h), \A j \in DOMAIN S : h[h[j]] = j
    PROVE  Mirrors(S, T, h)
<1>1. DOMAIN S = DOMAIN T
  OBVIOUS
<1>2. \A j \in DOMAIN S : h[j] \in DOMAIN S
  BY ZenonT(40), <1>1 DEF Embeds
<1>3. ASSUME NEW j \in DOMAIN S, NEW l \in DOMAIN S
      PROVE  S[j] = T[h[j]] /\ (Before(S, j, l) <=> Before(T, h[j], h[l]))
  <2>1. h[j] \in DOMAIN T /\ h[l] \in DOMAIN T /\ h[h[j]] = j /\ h[h[l]] = l
    BY ZenonT(40), <1>1, <1>2
  <2>2. T[h[j]] = S[h[h[j]]] /\ (Before(T, h[j], h[l]) <=> Before(S, h[h[j]], h[h[l]]))
    BY <2>1 DEF Embeds
  <2> QED BY <2>1, <2>2
<1>4. Embeds(T, S, h)
  BY ZenonT(40), <1>1, <1>3 DEF Embeds
<1> QED BY ZenonT(40), <1>4 DEF Mirrors

(* Exchanging two neighbours of different metrics. *)
LEMMA SwapMirrors ==
    ASSUME NEW S \in Seq(Scope), NEW i \in 1..(Len(S) - 1), S[i].metric # S[i + 1].metric
    PROVE  Mirrors(S, [S EXCEPT ![i] = S[i + 1], ![i + 1] = S[i]],
                   [j \in DOMAIN S |-> IF j = i THEN i + 1 ELSE IF j = i + 1 THEN i ELSE j])
<1> DEFINE T == [S EXCEPT ![i] = S[i + 1], ![i + 1] = S[i]]
           h == [j \in DOMAIN S |-> IF j = i THEN i + 1 ELSE IF j = i + 1 THEN i ELSE j]
<1>1. /\ i \in DOMAIN S /\ i + 1 \in DOMAIN S /\ i # i + 1 /\ i \in Nat
      /\ DOMAIN S = 1..Len(S) /\ Len(S) \in Nat
  OBVIOUS
<1>2. T \in Seq(Scope) /\ Len(T) = Len(S) /\ DOMAIN T = DOMAIN S
  <2>1. S[i] \in Scope /\ S[i + 1] \in Scope
    BY <1>1
  <2>2. T \in [1..Len(S) -> Scope]
    BY SMTT(30), <1>1, <2>1
  <2> HIDE DEF T
  <2> QED BY SMTT(30), <1>1, <2>2
<1>3. \A j \in DOMAIN S : /\ h[j] \in DOMAIN S
                          /\ j = i => h[j] = i + 1
                          /\ j = i + 1 => h[j] = i
                          /\ j # i /\ j # i + 1 => h[j] = j
  BY <1>1
<1>4. \A j \in DOMAIN S : T[j] = S[h[j]]
  BY ZenonT(40), <1>1, <1>3
<1>5. \A j \in DOMAIN S : h[h[j]] = j
  BY ZenonT(40), <1>1, <1>3
<1>6. h \in [DOMAIN T -> DOMAIN S]
  BY ZenonT(40), <1>2, <1>3
<1> HIDE DEF T, h
<1>7. ASSUME NEW j \in DOMAIN S, NEW l \in DOMAIN S
      PROVE  Before(T, j, l) <=> Before(S, h[j], h[l])
  <2>1. T[j] = S[h[j]] /\ T[l] = S[h[l]]
    BY ZenonT(40), <1>4
  <2>2. S[h[j]].metric = S[h[l]].metric => (j <= l <=> h[j] <= h[l])
    <3>1. ~(j = i /\ l = i + 1 /\ S[h[j]].metric = S[h[l]].metric)
      BY ZenonT(40), <1>1, <1>3
    <3>2. ~(l = i /\ j = i + 1 /\ S[h[j]].metric = S[h[l]].metric)
      BY ZenonT(40), <1>1, <1>3
    <3>3. j \in Nat /\ l \in Nat
      BY <1>1
    <3>4. ~(j = i /\ l = i + 1) /\ ~(l = i /\ j = i + 1) => (j <= l <=> h[j] <= h[l])
      BY SMTT(30), <1>1, <1>3, <3>3
    <3> QED BY ZenonT(40), <3>1, <3>2, <3>4
  <2> QED BY ZenonT(40), <2>1, <2>2 DEF Before
<1>8. Embeds(S, T, h)
  BY ZenonT(40), <1>2, <1>4, <1>6, <1>7 DEF Embeds
<1>9. Mirrors(S, T, h)
  BY ZenonT(40), <1>2, <1>5, <1>8, MirrorsHalf
<1> QED BY ZenonT(40), <1>9 DEF T, h

(* A route is the same in the mirror. *)
LEMMA MirrorRoute ==
    ASSUME NEW S, NEW T, NEW h, Mirrors(S, T, h), NEW name \in Name, NEW f
    PROVE  route(T, f, name) = route(S, f, name)
<1>1. S \in Seq(Scope) /\ T \in Seq(Scope) /\ Embeds(S, T, h)
  BY ZenonT(40) DEF Mirrors
<1>2. \A i \in DOMAIN S : h[i] \in DOMAIN T /\ h[h[i]] = i
  BY ZenonT(40) DEF Mirrors, Embeds
<1>3. \A i \in DOMAIN S : route(S, f, name) = S[i].id => \E k \in DOMAIN T : h[k] = i
  BY ZenonT(40), <1>2
<1> QED BY SMTT(30), <1>1, <1>3, EmbedRoute

-----------------------------------------------------------------------------
(* Search expansion in the mirror *)

(* A one-to-one correspondence of two orders. *)
Corresponds(X, R, Y, Q, g) ==
    /\ g \in Bijection(X, Y)
    /\ \A x, y \in X : <<x, y>> \in R <=> <<g[x], g[y]>> \in Q

(* Corresponding members have the same rank. *)
LEMMA SameRank ==
    ASSUME NEW X, NEW R, NEW Y, NEW Q, NEW g, IsFiniteSet(X), Corresponds(X, R, Y, Q, g),
           NEW x \in X
    PROVE  Rank(X, R, x) = Rank(Y, Q, g[x])
<1> DEFINE A == {y \in X : <<y, x>> \in R}
           B == {y \in Y : <<y, g[x]>> \in Q}
           b == [y \in A |-> g[y]]
<1>1. /\ g \in [X -> Y]
      /\ \A u, v \in X : g[u] = g[v] => u = v
      /\ \A v \in Y : \E u \in X : g[u] = v
  BY ZenonT(40) DEF Corresponds, Bijection, Injection, Surjection, IsInjective
<1>2. \A u \in X : u \in A <=> g[u] \in B
  BY ZenonT(40), <1>1 DEF Corresponds
<1>3. A \in SUBSET X /\ B \in SUBSET Y
  BY ZenonT(40)
<1>4. IsFiniteSet(A)
  <2> HIDE DEF A
  <2> QED BY <1>3, FS_Subset
<1> HIDE DEF A, B
<1>5. b \in [A -> B] /\ \A u, v \in A : b[u] = b[v] => u = v
  BY ZenonT(40), <1>1, <1>2, <1>3
<1>6. \A v \in B : \E u \in A : b[u] = v
  BY ZenonT(40), <1>1, <1>2, <1>3
<1>7. b \in Bijection(A, B)
  BY ZenonT(40), <1>5, <1>6 DEF Bijection, Injection, Surjection, IsInjective
<1>8. Cardinality(A) = Cardinality(B)
  BY ZenonT(40), <1>4, <1>7, FS_Bijection DEF ExistsBijection
<1> QED BY ZenonT(40), <1>8 DEF A, B, Rank

(* Ordered lists corresponding members in the same places. *)
LEMMA SameOrder ==
    ASSUME NEW X, NEW R, NEW Y, NEW Q, NEW g,
           IsFiniteSet(X), IsFiniteSet(Y), StrictOrder(X, R), StrictOrder(Y, Q),
           Corresponds(X, R, Y, Q, g)
    PROVE  /\ Cardinality(X) = Cardinality(Y)
           /\ \A k \in 1..Cardinality(X) : /\ Ordered(X, R)[k] \in X
                                           /\ Ordered(Y, Q)[k] = g[Ordered(X, R)[k]]
<1>1. Cardinality(X) = Cardinality(Y)
  BY ZenonT(40), FS_Bijection DEF Corresponds, ExistsBijection
<1>2. ASSUME NEW k \in 1..Cardinality(X)
      PROVE  Ordered(X, R)[k] \in X /\ Ordered(Y, Q)[k] = g[Ordered(X, R)[k]]
  <2> DEFINE x == Ordered(X, R)[k]
             y == Ordered(Y, Q)[k]
  <2>1. x \in X /\ Rank(X, R, x) = k - 1
    BY SMTT(30), OrderedType
  <2>2. y \in Y /\ Rank(Y, Q, y) = k - 1
    BY <1>1, OrderedType
  <2> HIDE DEF x, y
  <2>3. g[x] \in Y
    BY ZenonT(40), <2>1 DEF Corresponds, Bijection, Injection
  <2>4. Rank(Y, Q, g[x]) = k - 1
    BY SMTT(30), <2>1, SameRank
  <2>5. Rank(Y, Q, y) \in Int
    BY SMTT(30), <2>2, OrderedType
  <2>6. ~(<<y, g[x]>> \in Q) /\ ~(<<g[x], y>> \in Q)
    <3>1. <<y, g[x]>> \in Q => Rank(Y, Q, y) < Rank(Y, Q, g[x])
      BY ZenonT(40), <2>2, <2>3, OrderedType
    <3>2. <<g[x], y>> \in Q => Rank(Y, Q, g[x]) < Rank(Y, Q, y)
      BY ZenonT(40), <2>2, <2>3, OrderedType
    <3> QED BY SMTT(30), <2>2, <2>4, <2>5, <3>1, <3>2
  <2>7. y = g[x]
    BY ZenonT(40), <2>2, <2>3, <2>6 DEF StrictOrder
  <2> QED BY ZenonT(40), <2>1, <2>7 DEF x, y
<1> QED BY ZenonT(40), <1>1, <1>2

(* The scopes whose search domains are used. *)
Searched(S) ==
    IF exclusive(S) # {} THEN {min_by_metric(S, exclusive(S))}
    ELSE up_scopes(S) \cup {Len(S) + 1}

(* The place in S that corresponds to place p in T. *)
Across(S, h, p) == <<IF p[1] \in DOMAIN S THEN h[p[1]] ELSE p[1], p[2]>>

(* Places are pairs of a scope that is used and one of its domains. *)
LEMMA PlacesAre ==
    ASSUME NEW S, NEW f, NEW i, NEW k
    PROVE  <<i, k>> \in Places(S, f) <=> i \in Searched(S) /\ k \in DOMAIN DomainsAt(S, f, i)
BY DEF Places, Searched

(* The scopes used correspond. *)
LEMMA MirrorSearched ==
    ASSUME NEW S, NEW T, NEW h, Mirrors(S, T, h), NEW j \in Searched(T)
    PROVE  /\ j \in DOMAIN S => h[j] \in Searched(S)
           /\ j \notin DOMAIN S => j \in Searched(S)
<1>1. /\ S \in Seq(Scope) /\ T \in Seq(Scope) /\ Len(S) = Len(T)
      /\ Embeds(S, T, h) /\ Embeds(T, S, h) /\ \A i \in DOMAIN S : h[h[i]] = i
  BY ZenonT(40) DEF Mirrors
<1>2. DOMAIN S = DOMAIN T /\ Len(S) + 1 \notin DOMAIN S
  BY <1>1
<1>3. exclusive(S) \subseteq DOMAIN S /\ exclusive(T) \subseteq DOMAIN S
      /\ up_scopes(S) \subseteq DOMAIN S /\ up_scopes(T) \subseteq DOMAIN S
  BY ZenonT(40), <1>2 DEF exclusive, up_scopes
<1>4. \A i \in DOMAIN S : /\ h[i] \in DOMAIN S
                          /\ i \in exclusive(T) <=> h[i] \in exclusive(S)
                          /\ i \in exclusive(S) <=> h[i] \in exclusive(T)
                          /\ i \in up_scopes(T) <=> h[i] \in up_scopes(S)
  BY ZenonT(40), <1>1, <1>2, EmbedScope
<1>5. CASE exclusive(T) # {}
  <2> DEFINE a == min_by_metric(S, exclusive(S))
             b == min_by_metric(T, exclusive(T))
  <2>1. exclusive(S) # {}
    BY ZenonT(40), <1>3, <1>4, <1>5
  <2>2. a \in exclusive(S) /\ \A i \in exclusive(S) : Before(S, a, i)
    BY ZenonT(40), <1>1, <1>3, <2>1, MinByMetric DEF Before
  <2>3. b \in exclusive(T) /\ \A i \in exclusive(T) : Before(T, b, i)
    BY ZenonT(40), <1>1, <1>2, <1>3, <1>5, MinByMetric DEF Before
  <2>4. j = b /\ Searched(S) = {a}
    BY ZenonT(40), <1>5, <2>1 DEF Searched
  <2> HIDE DEF a, b
  <2>5. h[b] \in exclusive(S) /\ h[a] \in exclusive(T) /\ b \in DOMAIN S /\ a \in DOMAIN S
    BY ZenonT(40), <1>3, <1>4, <2>2, <2>3
  <2>6. Before(S, a, h[b])
    BY ZenonT(40), <2>2, <2>5
  <2>7. Before(T, b, h[a]) /\ h[h[a]] = a /\ h[a] \in DOMAIN T /\ b \in DOMAIN T
    BY ZenonT(40), <1>1, <1>2, <1>4, <2>3, <2>5
  <2>8. Before(S, h[b], h[h[a]])
    BY SMTT(30), <1>1, <2>7 DEF Embeds
  <2>9. h[b] = a
    <3>1. h[b] \in DOMAIN S
      BY ZenonT(40), <1>4, <2>5
    <3>2. Before(S, h[b], a)
      BY ZenonT(40), <2>7, <2>8
    <3> QED BY ZenonT(40), <1>1, <2>5, <2>6, <3>1, <3>2, BeforeOrder
  <2> QED BY ZenonT(40), <2>4, <2>5, <2>9
<1>6. CASE exclusive(T) = {}
  <2>1. exclusive(S) = {}
    BY ZenonT(40), <1>3, <1>4, <1>6
  <2>2. Searched(S) = up_scopes(S) \cup {Len(S) + 1} /\ Searched(T) = up_scopes(T) \cup {Len(S) + 1}
    BY SMTT(30), <1>1, <1>6, <2>1 DEF Searched
  <2> QED BY ZenonT(40), <1>2, <1>3, <1>4, <2>2
<1> QED BY ZenonT(40), <1>5, <1>6

(* What is known of a place. *)
LEMMA PlaceParts ==
    ASSUME NEW S \in Seq(Scope), NEW f \in Fallback, NEW p \in Places(S, f)
    PROVE  /\ p = <<p[1], p[2]>> /\ p[1] \in 1..(Len(S) + 1) /\ p[2] \in Nat
           /\ p[1] \in Searched(S) /\ p[2] \in DOMAIN DomainsAt(S, f, p[1])
<1>1. p = <<p[1], p[2]>> /\ p[1] \in 1..(Len(S) + 1) /\ p[2] \in Nat
  BY ZenonT(40), PlacesType
<1>2. <<p[1], p[2]>> \in Places(S, f)
  BY ZenonT(40), <1>1
<1>3. p[1] \in Searched(S) /\ p[2] \in DOMAIN DomainsAt(S, f, p[1])
  BY ZenonT(40), <1>2, PlacesAre
<1> QED BY ZenonT(40), <1>1, <1>3

(* Places correspond, and so do the names they make. *)
LEMMA MirrorPlace ==
    ASSUME NEW S, NEW T, NEW h, Mirrors(S, T, h), NEW f \in Fallback, NEW name,
           NEW p \in Places(T, f)
    PROVE  /\ Across(S, h, p) \in Places(S, f)
           /\ Across(S, h, Across(S, h, p)) = p
           /\ Full(S, f, name, Across(S, h, p)) = Full(T, f, name, p)
<1> DEFINE i == p[1]
           k == p[2]
           a == IF i \in DOMAIN S THEN h[i] ELSE i
<1>1. S \in Seq(Scope) /\ T \in Seq(Scope) /\ Embeds(S, T, h) /\ DOMAIN S = DOMAIN T
      /\ \A j \in DOMAIN S : h[h[j]] = j
  BY DEF Mirrors
<1>2. p = <<i, k>> /\ i \in Searched(T) /\ k \in DOMAIN DomainsAt(T, f, i)
  BY ZenonT(40), <1>1, PlaceParts
<1>3. Across(S, h, p) = <<a, k>>
  BY ZenonT(40) DEF Across
<1>4. i \in DOMAIN S => h[i] \in DOMAIN S /\ T[i] = S[h[i]] /\ h[h[i]] = i
  BY ZenonT(40), <1>1 DEF Embeds
<1> HIDE DEF i, k
<1>5. DomainsAt(S, f, a) = DomainsAt(T, f, i)
  BY ZenonT(40), <1>1, <1>4 DEF DomainsAt
<1>6. a \in Searched(S)
  BY ZenonT(40), <1>2, MirrorSearched
<1>7. (IF a \in DOMAIN S THEN h[a] ELSE a) = i
  BY ZenonT(40), <1>4
<1> HIDE DEF a
<1>8. <<a, k>> \in Places(S, f)
  BY ZenonT(40), <1>2, <1>5, <1>6, PlacesAre
<1>9. Across(S, h, <<a, k>>) = p
  BY SMTT(30), <1>2, <1>7 DEF Across
<1>10. Full(S, f, name, <<a, k>>) = Full(T, f, name, p)
  BY SMTT(30), <1>2, <1>5 DEF Full
<1> QED BY ZenonT(40), <1>3, <1>8, <1>9, <1>10

(* The order of places corresponds. *)
LEMMA MirrorEarlier ==
    ASSUME NEW S, NEW T, NEW h, Mirrors(S, T, h), NEW f \in Fallback,
           NEW p \in Places(T, f), NEW q \in Places(T, f)
    PROVE  Earlier(T, p, q) <=> Earlier(S, Across(S, h, p), Across(S, h, q))
<1> DEFINE D == DOMAIN S
           i == p[1]
           j == q[1]
           a == IF i \in D THEN h[i] ELSE i
           b == IF j \in D THEN h[j] ELSE j
<1>1. /\ S \in Seq(Scope) /\ T \in Seq(Scope) /\ Embeds(S, T, h) /\ D = DOMAIN T
      /\ D = 1..Len(S) /\ Len(T) = Len(S) /\ Len(S) \in Nat
      /\ \A l \in D : h[h[l]] = l
  BY DEF Mirrors
<1>2. i \in 1..(Len(S) + 1) /\ j \in 1..(Len(S) + 1)
  BY ZenonT(40), <1>1, PlaceParts
<1>3. \A l \in 1..(Len(S) + 1) : l \notin D => l = Len(S) + 1
  BY <1>1
<1>4. \A l \in D : h[l] \in D
  BY ZenonT(40), <1>1 DEF Embeds
<1> DEFINE PA == Across(S, h, p)
           QA == Across(S, h, q)
<1>5. PA[1] = a /\ PA[2] = p[2] /\ QA[1] = b /\ QA[2] = q[2]
  BY DEF Across
<1> HIDE DEF D, i, j, PA, QA
<1>6. i = j <=> a = b
  BY ZenonT(40), <1>1, <1>2, <1>3, <1>4
<1>7. (a \in D <=> i \in D) /\ (b \in D <=> j \in D)
  BY ZenonT(40), <1>4
<1>8. ASSUME i \in D, j \in D
      PROVE  \/ T[i].metric < T[j].metric
             \/ T[i].metric = T[j].metric /\ i < j
             <=>
             \/ S[a].metric < S[b].metric
             \/ S[a].metric = S[b].metric /\ a < b
  <2>1. a = h[i] /\ b = h[j] /\ a \in D /\ b \in D
    BY ZenonT(40), <1>4, <1>8
  <2>2. Before(T, j, i) <=> Before(S, b, a)
    BY SMTT(30), <1>1, <1>8, <2>1 DEF Embeds
  <2> HIDE DEF a, b
  <2>3. ~Before(T, j, i) <=> \/ T[i].metric < T[j].metric
                             \/ T[i].metric = T[j].metric /\ i < j
    BY ZenonT(40), <1>1, <1>8, BeforeOrder
  <2>4. ~Before(S, b, a) <=> \/ S[a].metric < S[b].metric
                             \/ S[a].metric = S[b].metric /\ a < b
    BY ZenonT(40), <2>1, <1>1, BeforeOrder DEF D
  <2> QED BY ZenonT(40), <2>2, <2>3, <2>4
<1> HIDE DEF a, b
<1>9. Earlier(T, p, q) <=>
          \/ i = j /\ p[2] < q[2]
          \/ /\ i \in D /\ j \in D
             /\ \/ T[i].metric < T[j].metric
                \/ T[i].metric = T[j].metric /\ i < j
          \/ i \in D /\ j \notin D
  BY ZenonT(40), <1>1 DEF Earlier, i, j
<1>10. Earlier(S, PA, QA) <=>
          \/ a = b /\ p[2] < q[2]
          \/ /\ a \in D /\ b \in D
             /\ \/ S[a].metric < S[b].metric
                \/ S[a].metric = S[b].metric /\ a < b
          \/ a \in D /\ b \notin D
  BY ZenonT(40), <1>5 DEF Earlier, D
<1>11. Earlier(T, p, q) <=> Earlier(S, PA, QA)
  BY ZenonT(40), <1>6, <1>7, <1>8, <1>9, <1>10
<1> QED BY ZenonT(40), <1>11 DEF PA, QA

(* The places used correspond. *)
LEMMA MirrorFirsts ==
    ASSUME NEW S, NEW T, NEW h, Mirrors(S, T, h), Mirrors(T, S, h), NEW f \in Fallback,
           NEW name \in Name, NEW p \in Firsts(T, f, name)
    PROVE  Across(S, h, p) \in Firsts(S, f, name)
<1> DEFINE x(r) == Across(S, h, r)
           y(r) == Across(T, h, r)
           PS == {r \in Places(S, f) : Len(Full(S, f, name, r)) <= MaxLabels}
           PT == {r \in Places(T, f) : Len(Full(T, f, name, r)) <= MaxLabels}
<1>0. DOMAIN S = DOMAIN T
  BY DEF Mirrors
<1>1. p \in PT /\ \A r \in PT : Earlier(T, r, p) => Full(T, f, name, r) # Full(T, f, name, p)
  BY ZenonT(40) DEF Firsts
<1>2. p \in Places(T, f) /\ x(p) \in Places(S, f) /\ x(p) \in PS
      /\ Full(S, f, name, x(p)) = Full(T, f, name, p)
  <2>1. p \in Places(T, f) /\ Len(Full(T, f, name, p)) <= MaxLabels
    BY ZenonT(40), <1>1
  <2>2. x(p) \in Places(S, f) /\ Full(S, f, name, x(p)) = Full(T, f, name, p)
    BY <2>1, MirrorPlace
  <2> HIDE DEF x
  <2> QED BY ZenonT(40), <2>1, <2>2
<1>3. ASSUME NEW r \in PS, Earlier(S, r, x(p))
      PROVE  Full(S, f, name, r) # Full(S, f, name, x(p))
  <2>1. r \in Places(S, f)
    BY ZenonT(40)
  <2>2. y(r) \in Places(T, f) /\ Full(T, f, name, y(r)) = Full(S, f, name, r) /\ y(y(r)) = r
    BY <2>1, MirrorPlace
  <2>3. y(r) \in PT
    BY ZenonT(40), <2>2
  <2>4. x(y(r)) = r
    BY ZenonT(40), <1>0, <2>2 DEF Across
  <2>5. Earlier(T, y(r), p) <=> Earlier(S, x(y(r)), x(p))
    BY ZenonT(40), <1>2, <2>2, MirrorEarlier
  <2> HIDE DEF x, y, PS, PT
  <2> QED BY ZenonT(40), <1>1, <1>2, <1>3, <2>2, <2>3, <2>4, <2>5
<1> QED BY ZenonT(40), <1>2, <1>3 DEF Firsts

(* Search expansion is the same in the mirror. *)
LEMMA MirrorCandidates ==
    ASSUME NEW S, NEW T, NEW h, Mirrors(S, T, h), NEW f \in Fallback, NEW name \in Name
    PROVE  candidates(S, f, name) = candidates(T, f, name)
<1>1. CASE Len(name) # 1
  BY ZenonT(40), <1>1 DEF candidates
<1>2. CASE Len(name) = 1
  <2> DEFINE X == Firsts(T, f, name)
             Y == Firsts(S, f, name)
             R == EarlierIn(T, X)
             Q == EarlierIn(S, Y)
             g == [p \in X |-> Across(S, h, p)]
             n == Cardinality(X)
  <2>1. S \in Seq(Scope) /\ T \in Seq(Scope) /\ DOMAIN S = DOMAIN T
    BY DEF Mirrors
  <2>2. Mirrors(T, S, h)
    BY ZenonT(40), <2>1 DEF Mirrors
  <2>3. X \subseteq Places(T, f) /\ IsFiniteSet(X) /\ StrictOrder(X, R)
    BY ZenonT(40), <2>1, FirstsOrder
  <2>4. Y \subseteq Places(S, f) /\ IsFiniteSet(Y) /\ StrictOrder(Y, Q)
    BY ZenonT(40), <2>1, FirstsOrder
  <2>5. \A p \in X : Across(S, h, p) \in Y
    BY ZenonT(40), <2>2, MirrorFirsts
  <2>6. \A p \in Y : Across(T, h, p) \in X
    BY ZenonT(40), <2>2, MirrorFirsts
  <2>7. \A p : Across(T, h, p) = Across(S, h, p)
    BY ZenonT(40), <2>1 DEF Across
  <2> HIDE DEF X, Y
  <2>8. \A p \in X : Across(S, h, Across(S, h, p)) = p
    BY <2>3, MirrorPlace
  <2>9. \A p \in Y : Across(T, h, Across(T, h, p)) = p
    BY SMTT(30), <2>2, <2>4, MirrorPlace
  <2>10. \A p, q \in X : Earlier(T, p, q) <=> Earlier(S, Across(S, h, p), Across(S, h, q))
    BY <2>3, MirrorEarlier
  <2>11. g \in Bijection(X, Y)
    <3>1. g \in [X -> Y] /\ \A p \in X : g[p] = Across(S, h, p)
      BY ZenonT(40), <2>5
    <3> HIDE DEF g
    <3>2. \A p, q \in X : g[p] = g[q] => p = q
      BY ZenonT(40), <2>8, <3>1
    <3>3. ASSUME NEW q \in Y PROVE \E p \in X : g[p] = q
      <4>1. Across(T, h, q) \in X /\ Across(S, h, Across(T, h, q)) = q
        BY ZenonT(40), <2>6, <2>7, <2>9
      <4> QED BY ZenonT(40), <3>1, <4>1
    <3> QED BY ZenonT(40), <3>1, <3>2, <3>3 DEF Bijection, Injection, Surjection, IsInjective
  <2>12. \A p, q \in X : <<p, q>> \in R <=> <<g[p], g[q]>> \in Q
    <3>1. \A p, q \in X : <<p, q>> \in R <=> Earlier(T, p, q)
      BY DEF EarlierIn
    <3>2. \A p, q \in Y : <<p, q>> \in Q <=> Earlier(S, p, q)
      BY DEF EarlierIn
    <3>3. \A p \in X : g[p] = Across(S, h, p)
      BY ZenonT(40)
    <3> HIDE DEF g, R, Q
    <3> QED BY ZenonT(40), <2>5, <2>10, <3>1, <3>2, <3>3
  <2>13. \A p \in X : Full(S, f, name, g[p]) = Full(T, f, name, p)
    BY SMTT(30), <2>3, MirrorPlace
  <2> HIDE DEF g, R, Q
  <2>14. /\ n = Cardinality(Y)
         /\ \A k \in 1..n : Ordered(X, R)[k] \in X /\ Ordered(Y, Q)[k] = g[Ordered(X, R)[k]]
    BY SMTT(30), <2>3, <2>4, <2>11, <2>12, SameOrder DEF Corresponds
  <2>15. candidates(T, f, name) = [k \in 1..n |-> Full(T, f, name, Ordered(X, R)[k])]
    BY SMTT(30), <1>2, CandidatesAre DEF X, R
  <2>16. candidates(S, f, name) = [k \in 1..Cardinality(Y) |-> Full(S, f, name, Ordered(Y, Q)[k])]
    BY <1>2, CandidatesAre DEF Y, Q
  <2>17. \A k \in 1..n : Full(S, f, name, Ordered(Y, Q)[k]) = Full(T, f, name, Ordered(X, R)[k])
    BY ZenonT(40), <2>13, <2>14
  <2> HIDE DEF n
  <2> QED BY ZenonT(40), <2>14, <2>15, <2>16, <2>17
<1> QED BY ZenonT(40), <1>1, <1>2


-----------------------------------------------------------------------------
(* The promises *)

(* What a table of scopes always is. *)
TableOK == scopes \in Seq(Scope)

(* Every table is a list of scopes. *)
LEMMA TableInvariance == Spec => []TableOK
<1>1. Init => TableOK
  BY DEF Init, TableOK
<1>2. TableOK /\ [Next]_scopes => TableOK'
  <2> SUFFICES ASSUME TableOK, [Next]_scopes PROVE TableOK'
    OBVIOUS
  <2>1. CASE UNCHANGED scopes
    BY <2>1 DEF TableOK
  <2>2. ASSUME NEW s \in Interfaces, Announce(s) PROVE TableOK'
    <3> DEFINE id == InterfaceIds[Len(scopes) + 1]
               t == [s EXCEPT !.id = id]
    <3>1. id \in ScopeId
      <4>1. Len(scopes) \in Nat /\ Len(scopes) < Len(InterfaceIds)
        BY <2>2 DEF Announce, TableOK
      <4>2. InterfaceIds \in Seq(ScopeId)
        BY ZenonT(40), ScopeTableConstants
      <4> QED BY SMTT(30), <4>1, <4>2
    <3>2. s \in Scope
      BY ZenonT(40), ScopeTableConstants
    <3>3. t \in Scope
      <4> HIDE DEF id
      <4> QED BY ZenonT(40), <3>1, <3>2 DEF Scope
    <3>4. scopes' = Append(scopes, t)
      BY ZenonT(40), <2>2 DEF Announce
    <3> HIDE DEF t
    <3> QED BY SMTT(30), <3>3, <3>4 DEF TableOK
  <2> QED BY <2>1, <2>2 DEF Next
<1> QED BY <1>1, <1>2, PTL DEF Spec

(* One exclusive interface with an address takes all. *)
LEMMA ExclusiveCase ==
    ASSUME TableOK PROVE ExclusiveTakesAll
<1> SUFFICES ASSUME exclusive(scopes) # {}
             PROVE  \E i \in exclusive(scopes) : \A f \in FallbackChoices :
                        /\ \A n \in Names : route(scopes, f, n) = scopes[i].id
                        /\ \A n \in SingleLabels : \A c \in Range(candidates(scopes, f, n)) :
                               \E d \in Range(scopes[i].domains) : c = n \o d
  BY ZenonT(40) DEF ExclusiveTakesAll
<1> DEFINE i == min_by_metric(scopes, exclusive(scopes))
<1>1. scopes \in Seq(Scope) /\ exclusive(scopes) \subseteq DOMAIN scopes
  BY ZenonT(40) DEF TableOK, exclusive, up_scopes
<1>2. i \in exclusive(scopes) /\ i \in DOMAIN scopes
  BY ZenonT(40), <1>1, MinByMetric
<1>3. ASSUME NEW f \in FallbackChoices, NEW n \in Names
      PROVE  route(scopes, f, n) = scopes[i].id
  <2>1. \A q \in 1..5 : ~(q < 1)
    OBVIOUS
  <2>2. 1 \in 1..5
    OBVIOUS
  <2>3. Decides(scopes, n, 1)
    BY ZenonT(40), <2>1, RulesAre DEF Decides
  <2>4. route(scopes, f, n) = scopes[min_by_metric(scopes, RouteRules(scopes, n)[1])].id
    BY ZenonT(40), <1>1, <2>2, <2>3, RouteDecided
  <2> QED BY ZenonT(40), <2>4, RulesAre
<1>4. ASSUME NEW f \in FallbackChoices, NEW n \in SingleLabels,
             NEW c \in Range(candidates(scopes, f, n))
      PROVE  \E d \in Range(scopes[i].domains) : c = n \o d
  <2> DEFINE F == Firsts(scopes, f, n)
             order == Ordered(F, EarlierIn(scopes, F))
  <2>1. f \in Fallback /\ n \in Name /\ Len(n) = 1
    BY ZenonT(40), ScopeTableConstants DEF SingleLabels
  <2>2. PICK k \in 1..Cardinality(F) : c = Full(scopes, f, n, order[k])
    <3>1. candidates(scopes, f, n) = [k \in 1..Cardinality(F) |-> Full(scopes, f, n, order[k])]
      BY <2>1, CandidatesAre
    <3> HIDE DEF F, order
    <3> QED BY <3>1 DEF Range
  <2>3. F \subseteq Places(scopes, f) /\ IsFiniteSet(F) /\ StrictOrder(F, EarlierIn(scopes, F))
    BY ZenonT(40), <1>1, <2>1, FirstsOrder
  <2> HIDE DEF F
  <2>4. order[k] \in F
    BY ZenonT(40), <2>3, OrderedType
  <2> DEFINE p == order[k]
  <2>5. p \in {i} \X DOMAIN DomainsAt(scopes, f, i)
    BY ZenonT(40), <2>3, <2>4 DEF Places
  <2> HIDE DEF p, order
  <2>6. p[1] = i /\ p[2] \in DOMAIN scopes[i].domains
    BY SMTT(30), <1>2, <2>5 DEF DomainsAt
  <2>7. c = n \o scopes[i].domains[p[2]]
    BY ZenonT(40), <1>2, <2>2, <2>6 DEF Full, DomainsAt, p
  <2> QED BY ZenonT(40), <2>6, <2>7 DEF Range
<1> QED BY ZenonT(40), <1>2, <1>3, <1>4

(* The fallback servers come last. *)
LEMMA FallbackCase ==
    ASSUME TableOK PROVE FallbackLast
<1> SUFFICES ASSUME NEW n \in Names, NEW f \in FallbackChoices,
                    route(scopes, f, n) \in {FALLBACK_SCOPE, NoScope}
             PROVE  /\ \A i \in up_scopes(scopes) :
                           scopes[i].servers = <<>> /\ ~scopes[i].default_route
                    /\ route(scopes, f, n) = NoScope <=> f.servers = <<>>
  BY ZenonT(40) DEF FallbackLast
<1>1. ASSUME NEW p \in 1..5, Decides(scopes, n, p) PROVE FALSE
  <2> DEFINE i == min_by_metric(scopes, RouteRules(scopes, n)[p])
  <2>1. route(scopes, f, n) = scopes[i].id /\ i \in DOMAIN scopes
    BY ZenonT(40), <1>1, RouteDecided DEF TableOK
  <2> HIDE DEF i
  <2> QED BY ZenonT(40), <2>1, ScopeIds DEF TableOK
<1>2. \A p \in 1..5 : RouteRules(scopes, n)[p] = {}
  BY ZenonT(40), <1>1, RouteCases
<1>3. DefaultRoute(scopes) = {} /\ WithServers(scopes) = {}
  <2>1. 4 \in 1..5 /\ 5 \in 1..5
    OBVIOUS
  <2> QED BY ZenonT(40), <1>2, <2>1, RulesAre
<1>4. \A i \in up_scopes(scopes) : scopes[i].servers = <<>> /\ ~scopes[i].default_route
  BY ZenonT(40), <1>3 DEF DefaultRoute, WithServers
<1>5. route(scopes, f, n) = IF f.servers # <<>> THEN FALLBACK_SCOPE ELSE NoScope
  BY ZenonT(40), <1>2, RouteUndecided
<1>6. FALLBACK_SCOPE # NoScope
  BY DEF FALLBACK_SCOPE, NoScope
<1> QED BY ZenonT(40), <1>4, <1>5, <1>6

(* A label under an interface's search domain stays with those that list   *)
(* it.                                                                     *)
LEMMA SearchCase ==
    ASSUME TableOK PROVE SearchStaysHome
<1> SUFFICES ASSUME exclusive(scopes) = {}, NEW i \in up_scopes(scopes),
                    NEW d \in Range(scopes[i].domains), NEW n \in SingleLabels,
                    NEW f \in FallbackChoices
             PROVE  \E j \in up_scopes(scopes) :
                        /\ scopes[j].id = route(scopes, f, n \o d)
                        /\ \E m \in MatchLengths(scopes, n \o d, j) : m >= Len(d)
  BY ZenonT(40) DEF SearchStaysHome
<1> DEFINE name == n \o d
<1>1. scopes \in Seq(Scope) /\ n \in Name
  BY ZenonT(40), ScopeTableConstants DEF TableOK, SingleLabels
<1>2. scopes[i].domains \in Seq(Name)
  <2>1. scopes[i] \in Scope
    BY <1>1 DEF up_scopes
  <2> QED BY ZenonT(40), <2>1 DEF Scope
<1>3. PICK k \in DOMAIN scopes[i].domains : d = scopes[i].domains[k]
  BY ZenonT(40) DEF Range
<1>4. d \in Name
  BY SMTT(30), <1>2, <1>3
<1>5. name \in Name /\ ends_with(name, d)
  BY SMTT(30), <1>1, <1>4 DEF ends_with, Name
<1> HIDE DEF name
<1>6. Len(d) \in MatchLengths(scopes, name, i)
  BY ZenonT(40), <1>3, <1>5 DEF MatchLengths
<1>7. LongestMatch(scopes, name) # {}
  BY ZenonT(40), <1>1, <1>5, <1>6, LongestExists
<1>8. Decides(scopes, name, 2)
  <2>1. \A q \in 1..5 : q < 2 => q = 1
    OBVIOUS
  <2> QED BY ZenonT(40), <1>7, <2>1, RulesAre DEF Decides
<1> DEFINE j == min_by_metric(scopes, RouteRules(scopes, name)[2])
<1>9. j \in LongestMatch(scopes, name) /\ j \in up_scopes(scopes)
      /\ route(scopes, f, name) = scopes[j].id
  <2>1. 2 \in 1..5
    BY SMTT(30)
  <2>2. j \in RouteRules(scopes, name)[2] /\ j \in up_scopes(scopes)
        /\ route(scopes, f, name) = scopes[j].id
    BY SMTT(30), <1>1, <1>8, <2>1, RouteDecided
  <2> HIDE DEF j
  <2> QED BY ZenonT(40), <2>2, RulesAre
<1> HIDE DEF j
<1>10. PICK m \in MatchLengths(scopes, name, j) : Len(d) <= m
  BY ZenonT(40), <1>6, <1>9 DEF LongestMatch
<1>11. m \in Nat /\ Len(d) \in Nat
  <2>1. scopes[j] \in Scope
    BY SMTT(30), <1>1, <1>9 DEF up_scopes
  <2>2. scopes[j].domains \in Seq(Name)
    BY ZenonT(40), <2>1 DEF Scope
  <2>3. PICK l \in DOMAIN scopes[j].domains : m = Len(scopes[j].domains[l])
    BY ZenonT(40) DEF MatchLengths
  <2>4. scopes[j].domains[l] \in Name
    BY SMTT(30), <2>2, <2>3
  <2> QED BY SMTT(30), <1>4, <2>3, <2>4 DEF Name
<1>12. m >= Len(d)
  BY SMTT(30), <1>10, <1>11
<1> QED BY ZenonT(40), <1>9, <1>12 DEF name

(* Routes and search expansion depend on nothing they should not. *)
LEMMA IrrelevantCase ==
    ASSUME TableOK PROVE IrrelevantScopes
<1> SUFFICES ASSUME NEW n \in Names, NEW f \in FallbackChoices
             PROVE  /\ \A i \in DOMAIN scopes :
                           route(scopes, f, n) # scopes[i].id =>
                               route(LeavingOut(scopes, i), f, n) = route(scopes, f, n)
                    /\ \A i \in 1..(Len(scopes) - 1) :
                           scopes[i].metric # scopes[i + 1].metric =>
                               /\ route(scopes, f, n) = route(Swapped(i), f, n)
                               /\ candidates(scopes, f, n) = candidates(Swapped(i), f, n)
  BY ZenonT(40) DEF IrrelevantScopes
<1>1. scopes \in Seq(Scope) /\ n \in Name /\ f \in Fallback
  BY ZenonT(40), ScopeTableConstants DEF TableOK
<1>2. ASSUME NEW i \in DOMAIN scopes, route(scopes, f, n) # scopes[i].id
      PROVE  route(LeavingOut(scopes, i), f, n) = route(scopes, f, n)
  <2> DEFINE T == LeavingOut(scopes, i)
             h == [j \in 1..(Len(scopes) - 1) |-> IF j < i THEN j ELSE j + 1]
  <2>1. /\ T \in Seq(Scope) /\ Embeds(scopes, T, h)
        /\ \A l \in DOMAIN scopes \ {i} : \E k \in DOMAIN T : h[k] = l
    BY ZenonT(40), <1>1, RemovalEmbeds
  <2> HIDE DEF T, h
  <2>2. \A l \in DOMAIN scopes :
            route(scopes, f, n) = scopes[l].id => \E k \in DOMAIN T : h[k] = l
    BY ZenonT(40), <1>2, <2>1
  <2>3. route(T, f, n) = route(scopes, f, n)
    BY <1>1, <2>1, <2>2, EmbedRoute
  <2> QED BY ZenonT(40), <2>3 DEF T
<1>3. ASSUME NEW i \in 1..(Len(scopes) - 1), scopes[i].metric # scopes[i + 1].metric
      PROVE  /\ route(scopes, f, n) = route(Swapped(i), f, n)
             /\ candidates(scopes, f, n) = candidates(Swapped(i), f, n)
  <2> DEFINE T == Swapped(i)
             h == [j \in DOMAIN scopes |->
                      IF j = i THEN i + 1 ELSE IF j = i + 1 THEN i ELSE j]
  <2>1. Mirrors(scopes, T, h)
    BY ZenonT(40), <1>1, <1>3, SwapMirrors DEF Swapped
  <2> HIDE DEF T, h
  <2>2. route(T, f, n) = route(scopes, f, n)
    BY ZenonT(90), <1>1, <2>1, MirrorRoute
  <2>3. candidates(scopes, f, n) = candidates(T, f, n)
    BY ZenonT(40), <1>1, <2>1, MirrorCandidates
  <2> QED BY ZenonT(40), <2>2, <2>3 DEF T
<1> QED BY ZenonT(40), <1>2, <1>3

(* One interface that is exclusive and has an address takes every question *)
(* and every search expansion.                                             *)
THEOREM ExclusiveIsObeyed == Spec => []ExclusiveTakesAll
BY TableInvariance, ExclusiveCase, PTL

(* The fallback servers are a last resort. *)
THEOREM FallbackIsLast == Spec => []FallbackLast
BY TableInvariance, FallbackCase, PTL

(* Names made with an interface's search domain are asked where that       *)
(* domain or a more specific one is listed.                                *)
THEOREM SearchIsHome == Spec => []SearchStaysHome
BY TableInvariance, SearchCase, PTL

(* A route does not depend on interfaces that are not chosen, and neither  *)
(* it nor the list of names to try on the order of a snapshot beyond equal *)
(* metrics (route, candidates).                                            *)
THEOREM RoutesAreStable == Spec => []IrrelevantScopes
BY TableInvariance, IrrelevantCase, PTL

-----------------------------------------------------------------------------
(* Search expansion *)

(* The places whose names are not too long. *)
Fitting(S, f, name) == {p \in Places(S, f) : Len(Full(S, f, name, p)) <= MaxLabels}

(* Places have an earliest one. *)
LEMMA EarliestPlace ==
    ASSUME NEW S \in Seq(Scope), NEW f \in Fallback, NEW X, X \subseteq Places(S, f), X # {}
    PROVE  \E p \in X : \A q \in X : ~Earlier(S, q, p)
<1> DEFINE R == EarlierIn(S, X)
           p == Ordered(X, R)[1]
           B == {y \in X : <<y, p>> \in R}
<1>1. IsFiniteSet(X) /\ StrictOrder(X, R)
  BY ZenonT(40), PlacesOrder
<1>2. \A y, z \in X : Earlier(S, y, z) => <<y, z>> \in R
  BY ZenonT(40) DEF EarlierIn
<1> HIDE DEF R
<1>3. /\ Cardinality(X) \in Nat /\ Ordered(X, R) \in [1..Cardinality(X) -> X]
      /\ \A k \in 1..Cardinality(X) : Rank(X, R, Ordered(X, R)[k]) = k - 1
  BY ZenonT(40), <1>1, OrderedType
<1>4. Cardinality(X) # 0
  BY ZenonT(40), <1>1, FS_EmptySet
<1>5. 1 \in 1..Cardinality(X) /\ 1 - 1 = 0
  BY <1>3, <1>4
<1>6. p \in X /\ Rank(X, R, p) = 0
  BY ZenonT(40), <1>3, <1>5
<1>7. IsFiniteSet(B) /\ Cardinality(B) = 0
  <2>1. B \in SUBSET X /\ Cardinality(B) = 0
    BY ZenonT(40), <1>6 DEF Rank
  <2> HIDE DEF B
  <2> QED BY ZenonT(40), <1>1, <2>1, FS_Subset
<1> HIDE DEF p
<1>8. B = {}
  <2> HIDE DEF B
  <2> QED BY ZenonT(40), <1>7, FS_EmptySet
<1>9. \A q \in X : ~Earlier(S, q, p)
  BY ZenonT(40), <1>2, <1>6, <1>8
<1> QED BY ZenonT(40), <1>6, <1>9

(* Two places are the same or one is earlier, and earlier is transitive. *)
LEMMA PlacesCompare ==
    ASSUME NEW S \in Seq(Scope), NEW f \in Fallback,
           NEW p \in Places(S, f), NEW q \in Places(S, f), NEW r \in Places(S, f)
    PROVE  /\ p = q \/ Earlier(S, p, q) \/ Earlier(S, q, p)
           /\ Earlier(S, p, q) /\ Earlier(S, q, r) => Earlier(S, p, r)
<1> DEFINE X == Places(S, f)
           R == EarlierIn(S, X)
<1>1. StrictOrder(X, R)
  BY ZenonT(40), PlacesOrder
<1>2. \A y, z \in X : Earlier(S, y, z) <=> <<y, z>> \in R
  <2> HIDE DEF X
  <2> QED BY ZenonT(40) DEF EarlierIn
<1> HIDE DEF R
<1> QED BY ZenonT(40), <1>1, <1>2 DEF StrictOrder

(* What Engine::candidates expands a single label to, for every scope      *)
(* list: exactly the names its search domains make that are not too long,  *)
(* each once, and each before the next by the place where it first occurs  *)
(* (scopes by metric, then in snapshot order, the fallback last).          *)
THEOREM ExpansionInOrder ==
    ASSUME NEW S \in Seq(Scope), NEW f \in Fallback, NEW name \in Name, Len(name) = 1
    PROVE  LET c == candidates(S, f, name)
               full(p) == Full(S, f, name, p)
               P == Fitting(S, f, name)
           IN  /\ Range(c) = {full(p) : p \in P}
               /\ \A j, k \in DOMAIN c : j # k => c[j] # c[k]
               /\ \A j, k \in DOMAIN c : j < k =>
                      \E p \in P : /\ full(p) = c[j]
                                   /\ \A q \in P : full(q) = c[k] => Earlier(S, p, q)
<1> DEFINE c == candidates(S, f, name)
           full(p) == Full(S, f, name, p)
           P == Fitting(S, f, name)
           F == Firsts(S, f, name)
           R == EarlierIn(S, F)
           o == Ordered(F, R)
           n == Cardinality(F)
<1>1. P \subseteq Places(S, f) /\ F \subseteq P
      /\ \A p \in P : p \in F <=> \A q \in P : Earlier(S, q, p) => full(q) # full(p)
  BY ZenonT(40) DEF Fitting, Firsts
<1>2. IsFiniteSet(F) /\ StrictOrder(F, R)
  BY ZenonT(40), FirstsOrder
<1>3. c = [k \in 1..n |-> full(o[k])]
  BY CandidatesAre
<1>4. \A p, q \in F : <<p, q>> \in R <=> Earlier(S, p, q)
  <2> HIDE DEF F
  <2> QED BY ZenonT(40) DEF EarlierIn
<1> HIDE DEF F, R, P, full
<1>5. /\ n \in Nat /\ o \in [1..n -> F]
      /\ \A x \in F : \E k \in 1..n : o[k] = x
      /\ \A j, k \in 1..n : <<o[j], o[k]>> \in R => j < k
      /\ \A k \in 1..n : Rank(F, R, o[k]) = k - 1
  <2>1. /\ n \in Nat /\ o \in [1..n -> F]
        /\ \A k \in 1..n : Rank(F, R, o[k]) = k - 1
    BY ZenonT(40), <1>2, OrderedType
  <2>2. /\ \A x \in F : \E k \in 1..n : o[k] = x
        /\ \A j, k \in 1..n : <<o[j], o[k]>> \in R => j < k
    BY ZenonT(40), <1>2, OrderedAll
  <2> HIDE DEF o, n
  <2> QED BY ZenonT(40), <2>1, <2>2
<1> HIDE DEF o, n
<1>6. ASSUME NEW j \in 1..n, NEW k \in 1..n, j < k PROVE Earlier(S, o[j], o[k])
  <2>1. o[j] \in F /\ o[k] \in F
    BY ZenonT(40), <1>5
  <2>2. o[j] # o[k]
    <3>1. j - 1 # k - 1
      BY <1>5, <1>6
    <3> QED BY ZenonT(40), <1>5, <3>1
  <2>3. ~(k < j)
    BY <1>5, <1>6
  <2>4. <<o[k], o[j]>> \notin R
    BY ZenonT(40), <1>5, <2>3
  <2>5. <<o[j], o[k]>> \in R
    BY ZenonT(40), <1>2, <2>1, <2>2, <2>4 DEF StrictOrder
  <2> QED BY ZenonT(40), <1>4, <2>1, <2>5
<1>7. ASSUME NEW p \in P
      PROVE  \E q \in F : full(q) = full(p) /\ \A r \in P : full(r) = full(p) => ~Earlier(S, r, q)
  <2> DEFINE X == {q \in P : full(q) = full(p)}
  <2>1. X \subseteq Places(S, f) /\ X # {}
    BY ZenonT(40), <1>1
  <2> HIDE DEF X
  <2>2. PICK q \in X : \A r \in X : ~Earlier(S, r, q)
    BY ZenonT(40), <2>1, EarliestPlace
  <2>3. q \in P /\ full(q) = full(p) /\ \A r \in P : full(r) = full(p) => ~Earlier(S, r, q)
    BY ZenonT(40), <2>2 DEF X
  <2>4. q \in F
    BY ZenonT(40), <1>1, <2>3
  <2> QED BY ZenonT(40), <2>3, <2>4
<1>8. Range(c) = {full(p) : p \in P}
  <2>1. ASSUME NEW x \in Range(c) PROVE x \in {full(p) : p \in P}
    <3>1. PICK k \in 1..n : x = full(o[k])
      BY ZenonT(40), <1>3, <2>1 DEF Range
    <3> QED BY ZenonT(40), <1>1, <1>5, <3>1
  <2>2. ASSUME NEW p \in P PROVE full(p) \in Range(c)
    <3>1. PICK q \in F : full(q) = full(p)
      BY ZenonT(40), <1>7
    <3>2. PICK k \in 1..n : o[k] = q
      BY ZenonT(40), <1>5
    <3>3. k \in DOMAIN c /\ c[k] = full(p)
      BY ZenonT(40), <1>3, <3>1, <3>2
    <3> QED BY ZenonT(40), <3>3 DEF Range
  <2> HIDE DEF c
  <2> QED BY ZenonT(40), <2>1, <2>2
<1>9. ASSUME NEW j \in 1..n, NEW k \in 1..n, j < k
      PROVE  /\ c[j] # c[k]
             /\ \A q \in P : full(q) = c[k] => Earlier(S, o[j], q)
  <2>1. /\ o[j] \in F /\ o[k] \in F /\ o[j] \in P /\ o[k] \in P
        /\ c[j] = full(o[j]) /\ c[k] = full(o[k])
    BY ZenonT(40), <1>1, <1>3, <1>5
  <2>2. Earlier(S, o[j], o[k])
    BY ZenonT(40), <1>6, <1>9
  <2>3. full(o[j]) # full(o[k])
    BY ZenonT(40), <1>1, <2>1, <2>2
  <2>4. ASSUME NEW q \in P, full(q) = c[k] PROVE Earlier(S, o[j], q)
    <3>1. ~Earlier(S, q, o[k])
      BY ZenonT(40), <1>1, <2>1, <2>4
    <3>2. q \in Places(S, f) /\ o[j] \in Places(S, f) /\ o[k] \in Places(S, f)
      BY ZenonT(40), <1>1, <2>1
    <3>3. q = o[k] \/ Earlier(S, o[k], q)
      BY ZenonT(40), <3>1, <3>2, PlacesCompare
    <3> QED BY ZenonT(40), <2>2, <3>2, <3>3, PlacesCompare
  <2> QED BY ZenonT(40), <2>1, <2>3, <2>4
<1>10. \A j, k \in 1..n : j # k => j < k \/ k < j
  BY <1>5
<1>11. DOMAIN c = 1..n /\ \A j \in 1..n : o[j] \in P /\ full(o[j]) = c[j]
  BY ZenonT(40), <1>1, <1>3, <1>5
<1>12. \A j, k \in DOMAIN c : j # k => c[j] # c[k]
  <2> HIDE DEF c
  <2> QED BY ZenonT(40), <1>9, <1>10, <1>11
<1>13. \A j, k \in DOMAIN c : j < k =>
           \E p \in P : full(p) = c[j] /\ \A q \in P : full(q) = c[k] => Earlier(S, p, q)
  <2> HIDE DEF c
  <2> QED BY ZenonT(40), <1>9, <1>11
<1> QED BY ZenonT(40), <1>8, <1>12, <1>13 DEF P, full
=============================================================================
