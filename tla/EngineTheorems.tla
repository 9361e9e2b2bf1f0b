--------------------------- MODULE EngineTheorems ---------------------------
(***************************************************************************)
(* Every step preserves the engine's invariant, and the theorems that      *)
(* follow.                                                                 *)
(***************************************************************************)
EXTENDS EngineSteps, RoutingProofs

-----------------------------------------------------------------------------
(* Every step preserves the invariant. *)

(* The facts the lemmas assume. *)
LEMMA FactsHold == Facts
<1>1. Counting
  <2>1. ASSUME NEW S, IsFiniteSet(S), NEW T \in SUBSET S
        PROVE  IsFiniteSet(T) /\ Cardinality(T) \in Nat /\ Cardinality(T) <= Cardinality(S)
    BY ZenonT(40), <2>1, FS_Subset, FS_CardinalityType
  <2>2. ASSUME NEW S, NEW x, IsFiniteSet(S)
        PROVE  /\ IsFiniteSet(S \cup {x})
               /\ x \notin S => Cardinality(S \cup {x}) = Cardinality(S) + 1
    BY ZenonT(40), <2>2, FS_AddElement
  <2> QED BY ZenonT(40), <2>1, <2>2 DEF Counting
<1>2. LeastMembers
  BY ZenonT(40), NatMin DEF LeastMembers
<1>3. Routes
  <2>1. ASSUME NEW S \in Seq(Scope), NEW F \in Fallback, NEW n \in Name
        PROVE  candidates(S, F, n) \in Seq(Name)
    BY ZenonT(40), CandidatesType
  <2>2. ASSUME NEW S \in Seq(Scope), NEW F, NEW n
        PROVE  \/ \E i \in up_scopes(S) : route(S, F, n) = S[i].id
               \/ route(S, F, n) \in {FALLBACK_SCOPE, NoScope}
    BY ZenonT(40), RouteType
  <2>3. ASSUME NEW S \in Seq(Scope), NEW F \in Fallback, NEW sick, NEW s
        PROVE  LET servers == Configured(S, F, s)
                   order   == servers_of(S, F, sick, s)
               IN  /\ order \in Seq(Server)
                   /\ Range(order) \subseteq Range(servers)
                   /\ \A v \in Range(servers) : \E k \in DOMAIN order : order[k] = v
                   /\ \A j, k \in DOMAIN order :
                          /\ server_key(order[j], s) \notin sick
                          /\ server_key(order[k], s) \in sick
                          => j < k
    BY SMTT(30), ServersOfType
  <2> QED BY ZenonT(40), <2>1, <2>2, <2>3 DEF Routes
<1> QED BY ZenonT(40), <1>1, <1>2, <1>3 DEF Facts

(* The invariant holds when the engine starts. *)
LEMMA InitInv ==
    ASSUME Init
    PROVE  IInv /\ Promise!Init
<1>1. /\ DOMAIN tasks = {} /\ DOMAIN txs = {} /\ DOMAIN lookups = {} /\ DOMAIN cache = {}
      /\ next_id = 1 /\ demoted = {} /\ asked = {} /\ gone = {} /\ Waiting = {}
      /\ done = [q \in Qid |-> <<>>]
  BY DEF Init, Waiting
<1>2. done \in [Qid -> Seq(Outcome)] /\ \A q \in Qid : done[q] = <<>>
  BY SMTT(30), <1>1
<1>3. scopes \in Seq(Scope) /\ fallback \in Fallback /\ hosts \in HostTables /\ hostname \in Name
  BY ZenonT(40), EngineConstants DEF Init, Fallback, Name, Restrict
<1>4. TypeOK
  BY ZenonT(40), <1>1, <1>2, <1>3 DEF TypeOK
<1>5. /\ IdsOK(tasks, txs, next_id) /\ ExchangesOK(tasks, txs, {}) /\ FreshOK(tasks, txs)
      /\ OwnersOK(tasks, lookups, done, Waiting) /\ CacheOK(cache)
  BY ZenonT(40), <1>1 DEF IdsOK, ExchangesOK, FreshOK, OwnersOK, CacheOK
<1>6. FlightOK(txs)
  BY SMTT(30), <1>1, FS_EmptySet, EngineConstants DEF FlightOK
<1>7. Good(E, {}, Waiting)
  BY ZenonT(40), <1>4, <1>5, <1>6, EFields DEF Good, FieldsOK, TypeOK
<1>8. IInv
  BY ZenonT(40), <1>1, <1>2, <1>4, <1>7 DEF IInv
<1> QED BY ZenonT(40), <1>8 DEF Init, Promise!Init

(* Every step preserves the invariant and is a step of the promise. *)
LEMMA NextKeeps ==
    ASSUME IInv, [Next]_vars
    PROVE  Keeps
<1>1. CASE Configure
  BY ZenonT(40), <1>1, FactsHold, SetScopesKeeps, SetFallbackKeeps, RestKeeps, FlushKeeps DEF Configure
<1>2. ASSUME NEW q \in Qid, Question(q) PROVE Keeps
  BY ZenonT(40), <1>2, FactsHold, UnparsedKeeps, ResolveKeeps, LookupKeeps, AbandonKeeps DEF Question
<1>3. ASSUME NEW x \in DOMAIN txs, Network(x) PROVE Keeps
  BY ZenonT(40), <1>3, FactsHold, TruncatedKeeps, AnswerKeeps, FailureKeeps, LocalFailureKeeps DEF Network
<1>4. CASE tick
  BY ZenonT(40), <1>4, FactsHold, FailureKeeps DEF tick
<1>5. CASE \E k \in demoted : DemotionLapses(k)
  BY ZenonT(40), <1>5, RestKeeps
<1>6. CASE \E k \in DOMAIN cache : CacheLoses(k)
  BY ZenonT(40), <1>6, RestKeeps
<1>7. CASE UNCHANGED vars
  BY ZenonT(40), <1>7, RestKeeps
<1> QED BY ZenonT(40), <1>1, <1>2, <1>3, <1>4, <1>5, <1>6, <1>7 DEF Next

(* What the invariant says of the engine between two calls. *)
LEMMA InvImplies ==
    ASSUME IInv
    PROVE  /\ TypeOK /\ OneExchangePerTask /\ NoStrandedQuestion /\ CacheFromConfiguredServers
           /\ NoStaleFill /\ BudgetExact /\ InFlightBounded
<1>1. /\ ExchangesOK(tasks, txs, {}) /\ FlightOK(txs) /\ OwnersOK(tasks, lookups, done, Waiting)
      /\ CacheOK(cache) /\ TypeOK
  BY ZenonT(40), Parts
<1>2. OneExchangePerTask /\ BudgetExact
  BY ZenonT(40), <1>1 DEF ExchangesOK, OneExchangePerTask, BudgetExact
<1>3. NoStrandedQuestion
  BY ZenonT(90), <1>1 DEF OwnersOK, NoStrandedQuestion, TasksOf
<1>4. CacheFromConfiguredServers /\ NoStaleFill
  BY ZenonT(40), <1>1 DEF CacheOK, CacheFromConfiguredServers, NoStaleFill, Range
<1>5. InFlightBounded
  BY ZenonT(40), <1>1 DEF FlightOK, InFlightBounded
<1> QED BY ZenonT(40), <1>1, <1>2, <1>3, <1>4, <1>5

-----------------------------------------------------------------------------
(* What the invariant gives. *)

(* The strengthening of the engine's invariants is one: whatever calls,    *)
(* replies, failures, timeouts and reconfigurations happen, no public      *)
(* method of the engine leaves a task loose.                               *)
THEOREM Invariance == Spec => []IInv
<1>1. Init => IInv
  BY ZenonT(40), InitInv
<1>2. IInv /\ [Next]_vars => IInv'
  BY ZenonT(40), NextKeeps DEF Keeps
<1> QED BY <1>1, <1>2, PTL DEF Spec

(* The engine's maps and records keep their types. *)
THEOREM TypeCorrect == Spec => []TypeOK
<1>1. IInv => TypeOK
  BY ZenonT(40), InvImplies
<1> QED BY <1>1, Invariance, PTL

(* received, failed, tick, abandon and settle leave every task with one    *)
(* outstanding exchange and every exchange with its task.                  *)
THEOREM TasksAndExchanges == Spec => []OneExchangePerTask
<1>1. IInv => OneExchangePerTask
  BY ZenonT(40), InvImplies
<1> QED BY <1>1, Invariance, PTL

(* The questions waiting are those with tasks, and a lookup's pending set  *)
(* is exactly its unfinished tasks.                                        *)
THEOREM NobodyStranded == Spec => []NoStrandedQuestion
<1>1. IInv => NoStrandedQuestion
  BY ZenonT(40), InvImplies
<1> QED BY <1>1, Invariance, PTL

(* The cache holds nothing from a server its scope does not list now,      *)
(* whatever set_scopes and set_fallback did while replies were under way.  *)
THEOREM CacheIsConfigured == Spec => []CacheFromConfiguredServers
<1>1. IInv => CacheFromConfiguredServers
  BY ZenonT(40), InvImplies
<1> QED BY <1>1, Invariance, PTL

(* The cache holds nothing learnt by an exchange that a reconfiguration or *)
(* a flush overtook.                                                       *)
THEOREM CacheIsFresh == Spec => []NoStaleFill
<1>1. IInv => NoStaleFill
  BY ZenonT(40), InvImplies
<1> QED BY <1>1, Invariance, PTL

(* A question is charged for each failed exchange and the one under way,   *)
(* and never for more than MAX_ATTEMPTS.                                   *)
THEOREM BudgetIsExact == Spec => []BudgetExact
<1>1. IInv => BudgetExact
  BY ZenonT(40), InvImplies
<1> QED BY <1>1, Invariance, PTL

(* At most MAX_IN_FLIGHT exchanges are outstanding. *)
THEOREM FlightIsBounded == Spec => []InFlightBounded
<1>1. IInv => InFlightBounded
  BY ZenonT(40), InvImplies
<1> QED BY <1>1, Invariance, PTL

(* Engine implements Resolver: one outcome per question, and none for a    *)
(* question not put or abandoned.                                          *)
THEOREM ImplementsResolver == Spec => AnsweredOnce
<1>1. Init => Promise!Init
  BY ZenonT(40), InitInv
<1>2. IInv /\ [Next]_vars => [Promise!Next]_(Promise!vars)
  BY ZenonT(40), NextKeeps DEF Keeps
<1> QED BY <1>1, <1>2, Invariance, PTL DEF Spec, AnsweredOnce, Promise!Spec

(* A query over UDP passes over no healthy server for a demoted one and no *)
(* server not tried yet for one that was (next_attempt, its choice of a    *)
(* server, and every path from a call to it).                              *)
THEOREM ServersInOrder == Spec => ServerOrder
<1>1. ASSUME IInv, [Next]_vars, NEW x \in DOMAIN txs' \ DOMAIN txs
      PROVE  txs'[x].tcp \/ InTurn(tasks'[txs'[x].task], txs'[x].server, demoted')
  <2>1. Moves
    BY ZenonT(40), <1>1, NextKeeps DEF Keeps
  <2>2. CASE Quiet
    BY ZenonT(40), <2>2 DEF Quiet, AlikeTxs
  <2>3. ASSUME NEW q, NEW m, NEW k, NEW c, Begins(q, m, k, c)
        PROVE  txs'[x].tcp \/ InTurn(tasks'[txs'[x].task], txs'[x].server, demoted')
    BY ZenonT(40), <2>3 DEF Begins
  <2>4. ASSUME NEW y, Replaces(y)
        PROVE  txs'[x].tcp \/ InTurn(tasks'[txs'[x].task], txs'[x].server, demoted')
    BY ZenonT(40), <2>4 DEF Replaces, Drops
  <2>5. ASSUME NEW q, Forgets(q) PROVE FALSE
    BY ZenonT(40), <2>5 DEF Forgets
  <2> QED BY ZenonT(40), <2>1, <2>2, <2>3, <2>4, <2>5 DEF Moves
<1>2. IInv /\ [Next]_vars =>
        [\A x \in DOMAIN txs' \ DOMAIN txs : ~txs'[x].tcp =>
          LET task    == tasks'[txs'[x].task]
              server  == txs'[x].server
              before  == Range(SubSeq(task.tried, 1, Len(task.tried) - 1))
              servers == Range(Configured(scopes, fallback, task.scope))
              sick(s) == server_key(s, task.scope) \in demoted'
          IN  \A s \in servers \ before : server \notin before /\ (sick(server) => sick(s))]_vars
  BY ZenonT(40), <1>1 DEF InTurn
<1> QED BY <1>2, Invariance, PTL DEF Spec, ServerOrder

-----------------------------------------------------------------------------
(* The daemon's view of the engine. *)

(* Every step of the engine is a step of the daemon's view of it. *)
LEMMA NextView ==
    ASSUME IInv, Fueled, [Next]_vars
    PROVE  Fueled' /\ [View!ExchangesNext]_(View!exchangeVars)
<1> DEFINE Step == View!ExchangesNext \/ UNCHANGED <<Outstanding, Waiting, next_id>>
           Bound == \A x \in DOMAIN txs' : Outstanding'[x].fuel \in View!Fuel
<1>1. Moves /\ OutstandingOK /\ OutstandingOK'
  BY ZenonT(40), NextKeeps, OutstandingFacts, OutstandingNext DEF Keeps
<1>2. /\ next_id \in Nat /\ \A x \in DOMAIN txs : x \in Nat /\ x < next_id
      /\ next_id \notin DOMAIN txs
  <2>1. next_id \in Nat /\ DOMAIN txs \subseteq Nat /\ IdsOK(tasks, txs, next_id)
    BY ZenonT(40), Parts DEF TypeOK
  <2>2. \A x \in DOMAIN txs : x \in Nat /\ x < next_id
    BY ZenonT(40), <2>1 DEF IdsOK
  <2> QED BY ZenonT(40), <2>1, <2>2, NotBelow
<1>3. /\ scopes \in Snapshots /\ fallback \in Fallbacks
      /\ \A x \in DOMAIN txs : Outstanding[x].fuel \in View!Fuel
      /\ DOMAIN Outstanding = DOMAIN txs
  BY ZenonT(40), <1>1 DEF Fueled, OutstandingOK
<1> HIDE DEF Step, Bound
<1>4. ASSUME Quiet PROVE Step /\ Bound
  BY ZenonT(40), <1>1, <1>3, <1>4, QuietView DEF Step, Bound
<1>5. ASSUME NEW q \in Qid, NEW u \in Resolves \cup Lookups, NEW m \in 1..2, NEW k \in 0..m,
             Begins(q, m, k, Len(candidates(scopes, fallback, u.name)) - 1)
      PROVE  Step /\ Bound
  <2> DEFINE c == Len(candidates(scopes, fallback, u.name)) - 1
  <2>1. c \in Int /\ c < MaxCandidates
    <3>1. candidates(scopes, fallback, u.name) \in Seq(Name)
      <4>1. scopes \in Seq(Scope) /\ fallback \in Fallback /\ u.name \in Name
        BY ZenonT(40), <1>3, EngineConstants
      <4> QED BY ZenonT(40), <4>1, CandidatesType
    <3>2. Len(candidates(scopes, fallback, u.name)) \in Nat
      BY ZenonT(40), <3>1, LenNat
    <3>3. /\ MaxCandidates \in Nat
          /\ Len(candidates(scopes, fallback, u.name)) <= MaxCandidates
      BY ZenonT(40), <1>3, ExchangesConstants
    <3> QED BY ZenonT(40), <3>2, <3>3, CandidatesLeft
  <2> HIDE DEF c
  <2>2. Begins(q, m, k, c)
    BY ZenonT(40), <1>5 DEF c
  <2>3. /\ \E fuels \in View!Fuels : Len(fuels) <= m /\ View!ask(q, m, fuels)
        /\ \A x \in DOMAIN txs' \ DOMAIN txs : Outstanding'[x].fuel \in View!Fuel
        /\ \A x \in DOMAIN txs : x \in DOMAIN txs' /\ Outstanding'[x] = Outstanding[x]
    BY ZenonT(40), <1>1, <1>2, <2>1, <2>2, BeginView
  <2>4. m \in 0..2
    OBVIOUS
  <2>5. Step
    BY ZenonT(40), <2>3, <2>4 DEF Step, View!ExchangesNext
  <2>6. Bound
    BY ZenonT(40), <1>3, <2>3 DEF Bound
  <2> QED BY ZenonT(40), <2>5, <2>6
<1>6. ASSUME NEW x \in DOMAIN txs, Replaces(x)
      PROVE  Step /\ Bound
  <2>1. CASE /\ View!over(x) /\ DOMAIN txs' \subseteq DOMAIN txs
             /\ \A y \in DOMAIN txs' : Outstanding'[y] = Outstanding[y]
    <3>1. Step
      BY ZenonT(40), <1>3, <2>1 DEF Step, View!ExchangesNext
    <3>2. Bound
      BY ZenonT(40), <1>3, <2>1 DEF Bound
    <3> QED BY ZenonT(40), <3>1, <3>2
  <2>2. CASE /\ View!retry(x, Outstanding'[next_id].fuel)
             /\ DOMAIN txs' = (DOMAIN txs \ {x}) \cup {next_id}
             /\ \A y \in DOMAIN txs \ {x} : Outstanding'[y] = Outstanding[y]
    <3> DEFINE f == Outstanding'[next_id].fuel
               g == Outstanding[x].fuel
    <3>1. f < g /\ g \in View!Fuel
      BY ZenonT(40), <1>3, <2>2 DEF View!retry
    <3>2. f \in Nat
      <4> DEFINE t == tasks'[txs'[next_id].task]
                 a == t.attempt
                 d == Len(t.candidates)
      <4>1. f = MAX_ATTEMPTS - a + d /\ a \in 1..MAX_ATTEMPTS /\ d \in Nat
        BY ZenonT(40), <1>1, <2>2 DEF OutstandingOK
      <4>2. MAX_ATTEMPTS \in Nat
        BY ZenonT(40), EngineConstants
      <4> HIDE DEF f, a, d
      <4> QED BY ZenonT(40), <4>1, <4>2, FuelNat
    <3>3. f \in View!Fuel
      <4>1. MAX_ATTEMPTS \in Nat /\ MaxCandidates \in Nat
        BY ZenonT(40), EngineConstants, ExchangesConstants
      <4> HIDE DEF f, g
      <4> QED BY ZenonT(40), <3>1, <3>2, <4>1, FuelLess DEF View!Fuel
    <3>4. Step
      BY ZenonT(40), <1>3, <2>2, <3>3 DEF Step, View!ExchangesNext
    <3>5. Bound
      BY ZenonT(40), <1>3, <2>2, <3>3 DEF Bound
    <3> QED BY ZenonT(40), <3>4, <3>5
  <2> QED BY ZenonT(40), <1>1, <1>2, <1>6, <2>1, <2>2, ReplaceView
<1>7. ASSUME NEW q \in Qid, Forgets(q)
      PROVE  Step /\ Bound
  <2>1. /\ View!abandon(q) /\ DOMAIN txs' \subseteq DOMAIN txs
        /\ \A x \in DOMAIN txs' : Outstanding'[x] = Outstanding[x]
    BY ZenonT(40), <1>1, <1>7, ForgetView
  <2>2. Step
    BY ZenonT(40), <2>1 DEF Step, View!ExchangesNext
  <2>3. Bound
    BY ZenonT(40), <1>3, <2>1 DEF Bound
  <2> QED BY ZenonT(40), <2>2, <2>3
<1>8. Step /\ Bound
  BY ZenonT(40), <1>1, <1>4, <1>5, <1>6, <1>7 DEF Moves
<1>9. scopes' \in Snapshots /\ fallback' \in Fallbacks
  BY ZenonT(40), <1>3, ConfigSet
<1>10. Fueled'
  BY ZenonT(40), <1>8, <1>9 DEF Bound, Fueled, View!Fuel
<1> QED BY ZenonT(40), <1>8, <1>10 DEF Step, View!exchangeVars

(* The engine implements Exchanges: to the daemon every call puts a        *)
(* question, replaces or ends an exchange, or abandons a question, for any *)
(* number of questions, attempts and candidate names.                      *)
THEOREM ImplementsDaemonView == Spec => ImplementsExchanges
<1>1. Init => IInv
  BY ZenonT(40), InitInv
<1>2. Init => Fueled /\ View!ExchangesInit
  <2> SUFFICES ASSUME Init PROVE Fueled /\ View!ExchangesInit
    BY ZenonT(40)
  <2>1. /\ DOMAIN txs = {} /\ Waiting = {} /\ next_id = 1
        /\ scopes \in Snapshots /\ fallback \in Fallbacks
    <3>1. /\ txs = <<>> /\ asked = {} /\ next_id = 1
          /\ scopes \in Snapshots /\ fallback \in Fallbacks
      BY ZenonT(40), EngineConstants DEF Init
    <3> QED BY SMTT(30), <3>1 DEF Waiting
  <2>2. Outstanding = <<>>
    BY SMTT(30), <2>1 DEF Outstanding
  <2> QED BY ZenonT(40), <2>1, <2>2 DEF Fueled, View!ExchangesInit
<1>3. IInv /\ Fueled /\ [Next]_vars => Fueled' /\ [View!ExchangesNext]_(View!exchangeVars)
  BY ZenonT(40), NextView
<1> QED BY <1>1, <1>2, <1>3, Invariance, PTL DEF Spec, ImplementsExchanges, View!ExchangesSpec

=============================================================================
