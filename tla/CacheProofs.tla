----------------------------- MODULE CacheProofs -----------------------------
(* The answer cache for every size, lifetime and clock. *)
EXTENDS Cache, FiniteSetTheorems, TLAPS

(* An entry expires no later than any record in it, counted from its       *)
(* arrival, and no more than MAX_ENTRIES are kept.  What get handed out    *)
(* was alive and was cut to what was left of its entry.                    *)
Timely(e) == \A t \in e.ttls : e.expires <= e.learned + TICKS * t

CacheInv ==
    /\ now \in Nat
    /\ IsFiniteSet(DOMAIN entries)
    /\ entries \in [DOMAIN entries -> CacheEntry]
    /\ \A k \in DOMAIN entries : Timely(entries[k])
    /\ SizeBounded
    /\ NeverOutlivesTTL

-----------------------------------------------------------------------------
(* Every set of numbers that is not empty has a least one, which is what   *)
(* MinOf chooses.                                                          *)
LEMMA LeastExists ==
    ASSUME NEW S, S \subseteq Nat, S # {}
    PROVE  \E x \in S : \A y \in S : x <= y
<1> DEFINE R == OpToRel(<, Nat)
<1>1. IsWellFoundedOn(R, Nat)
  BY NatLessThanWellFounded
<1>2. \E x \in S : \A y \in S : ~(<<y, x>> \in R)
  <2> HIDE DEF R
  <2> QED BY ZenonT(40), <1>1, WFMin
<1>3. R = {p \in Nat \X Nat : p[1] < p[2]}
  BY Zenon DEF OpToRel
<1>4. \A x, y \in Nat : y < x => <<y, x>> \in R
  BY <1>3
<1> HIDE DEF R
<1>5. PICK x \in S : \A y \in S : ~(<<y, x>> \in R)
  BY <1>2
<1>6. \A y \in S : ~(y < x)
  BY ZenonT(40), <1>4, <1>5
<1> QED BY <1>5, <1>6

(* Min is that least element. *)
LEMMA MinOfLeast ==
    ASSUME NEW S, S \subseteq Nat, S # {}
    PROVE  MinOf(S) \in S /\ \A y \in S : MinOf(S) <= y
BY ZenonT(40), LeastExists DEF MinOf

(* Among entries that are there, one expires first. *)
LEMMA FirstToExpire ==
    ASSUME NEW K, K # {}, NEW f, \A k \in K : f[k].expires \in Nat
    PROVE  LET x == CHOOSE x \in K : \A y \in K : f[x].expires <= f[y].expires
           IN  x \in K /\ \A y \in K : f[x].expires <= f[y].expires
<1>1. PICK n \in {f[k].expires : k \in K} : \A m \in {f[k].expires : k \in K} : n <= m
  BY ZenonT(40), LeastExists
<1>2. \E x \in K : \A y \in K : f[x].expires <= f[y].expires
  BY <1>1
<1> QED BY <1>2

(* A record handed out ends with its entry, or before. *)
LEMMA AgedWithin ==
    ASSUME NEW t \in Nat, NEW r \in Nat
    PROVE  aged(t, r) \in Nat /\ TICKS * aged(t, r) <= r
<1>1. r \div TICKS \in Nat /\ TICKS * (r \div TICKS) <= r
  BY CacheConstants, Z3
<1>2. aged(t, r) \in Nat /\ aged(t, r) <= r \div TICKS
  BY <1>1, MinOfLeast DEF aged
<1>3. TICKS * aged(t, r) <= TICKS * (r \div TICKS)
  <2> DEFINE a == aged(t, r)
             b == r \div TICKS
  <2>1. a \in Nat /\ b \in Nat /\ a <= b /\ TICKS \in Nat
    BY <1>1, <1>2, CacheConstants
  <2> HIDE DEF a, b
  <2>2. TICKS * a <= TICKS * b
    BY <2>1, Z3
  <2> QED BY <2>2 DEF a, b
<1> QED
  <2> DEFINE u == TICKS * aged(t, r)
             v == TICKS * (r \div TICKS)
  <2>1. u \in Int /\ v \in Int
    BY <1>1, <1>2, CacheConstants
  <2> QED BY <1>1, <1>2, <1>3, <2>1

(* A lifetime is no longer than that of any record. *)
LEMMA LifetimeWithin ==
    ASSUME NEW a \in Answers
    PROVE  /\ lifetime(a.ttls, a.negative) \in Nat
           /\ \A t \in a.ttls : lifetime(a.ttls, a.negative) <= t
<1>1. a.ttls \subseteq Nat /\ a.negative \in Nat
  BY CacheConstants
<1>2. CASE a.ttls = {}
  BY <1>1, <1>2 DEF lifetime
<1>3. CASE a.ttls # {}
  <2>1. MinOf(a.ttls) \in Nat /\ \A t \in a.ttls : MinOf(a.ttls) <= t
    BY <1>1, <1>3, MinOfLeast
  <2>2. /\ MinOf({MinOf(a.ttls), MAX_POSITIVE_TTL}) \in Nat
        /\ MinOf({MinOf(a.ttls), MAX_POSITIVE_TTL}) <= MinOf(a.ttls)
    BY <2>1, MinOfLeast, CacheConstants
  <2> QED BY <1>1, <1>3, <2>1, <2>2 DEF lifetime
<1> QED BY <1>2, <1>3

(* Making room: what stays was there, leaves a place for k, and is missing *)
(* a live entry only when all are live, and then the first to expire.      *)
LEMMA KeptLeavesRoom ==
    ASSUME CacheInv, NEW k
    PROVE  /\ Kept(k) \subseteq DOMAIN entries
           /\ IsFiniteSet(Kept(k) \cup {k})
           /\ Cardinality(Kept(k) \cup {k}) <= MAX_ENTRIES
           /\ \A x \in DOMAIN entries \ Kept(k) :
                 /\ k \notin DOMAIN entries
                 /\ Live(x) => /\ Cardinality(DOMAIN entries) = MAX_ENTRIES
                               /\ \A y \in DOMAIN entries :
                                     Live(y) /\ entries[x].expires <= entries[y].expires
<1> DEFINE D == DOMAIN entries
           live == {x \in D : Live(x)}
           first == CHOOSE x \in live : \A y \in live : entries[x].expires <= entries[y].expires
<1>1. /\ IsFiniteSet(D) /\ Cardinality(D) \in Nat /\ Cardinality(D) <= MAX_ENTRIES
      /\ MAX_ENTRIES \in Nat \ {0}
  BY FS_CardinalityType, CacheConstants DEF CacheInv, SizeBounded
<1>2. /\ IsFiniteSet(live) /\ Cardinality(live) \in Nat /\ Cardinality(live) <= Cardinality(D)
      /\ Cardinality(D) = Cardinality(live) => D = live
  BY <1>1, FS_Subset, FS_CardinalityType
<1>3. CASE Cardinality(D) < MAX_ENTRIES \/ k \in D
  <2>1. Kept(k) = D
    BY <1>3 DEF Kept
  <2> QED BY <1>1, <1>3, <2>1, FS_AddElement
<1>4. CASE Cardinality(D) >= MAX_ENTRIES /\ k \notin D
  <2>1. Cardinality(D) = MAX_ENTRIES
    BY <1>1, <1>4
  <2>2. CASE Cardinality(live) < MAX_ENTRIES
    <3>1. Kept(k) = live
      BY <1>1, <1>4, <2>2 DEF Kept
    <3>2. k \notin live /\ Cardinality(live \cup {k}) = Cardinality(live) + 1
      BY <1>2, <1>4, FS_AddElement
    <3> QED BY SMTT(30), <1>1, <1>2, <1>4, <2>2, <3>1, <3>2, FS_AddElement
  <2>3. CASE ~(Cardinality(live) < MAX_ENTRIES)
    <3>1. D = live /\ live # {}
      BY <1>1, <1>2, <2>1, <2>3, FS_EmptySet
    <3>2. \A x \in live : entries[x].expires \in Nat
      BY DEF CacheInv, CacheEntry
    <3>3. first \in live /\ \A y \in live : entries[first].expires <= entries[y].expires
      BY ZenonT(40), <3>1, <3>2, FirstToExpire
    <3>4. Kept(k) = live \ {first}
      BY <1>1, <1>4, <2>3 DEF Kept
    <3> HIDE DEF first
    <3>5. IsFiniteSet(live \ {first}) /\ Cardinality(live \ {first}) = Cardinality(live) - 1
      BY ZenonT(40), <1>2, <3>3, FS_RemoveElement
    <3>6. /\ IsFiniteSet((live \ {first}) \cup {k})
          /\ Cardinality((live \ {first}) \cup {k}) = Cardinality(live)
      BY <1>2, <1>4, <3>5, FS_AddElement
    <3>7. \A x \in D \ Kept(k) : x = first
      BY <3>1, <3>4
    <3> QED BY <1>1, <1>2, <1>4, <2>1, <3>1, <3>3, <3>4, <3>6, <3>7
  <2> QED BY <2>2, <2>3
<1> QED BY <1>1, <1>3, <1>4

-----------------------------------------------------------------------------
(* Steps.  insert keeps the invariant, with an entry that is timely. *)
LEMMA InsertKeeps ==
    ASSUME CacheInv, NEW k \in CacheKey, NEW e \in CacheEntry, Timely(e), insert(k, e)
    PROVE  CacheInv'
<1>1. /\ Kept(k) \subseteq DOMAIN entries
      /\ IsFiniteSet(Kept(k) \cup {k})
      /\ Cardinality(Kept(k) \cup {k}) <= MAX_ENTRIES
  BY ZenonT(40), KeptLeavesRoom
<1>2. /\ DOMAIN entries' = Kept(k) \cup {k}
      /\ \A x \in DOMAIN entries' : entries'[x] = IF x = k THEN e ELSE entries[x]
      /\ entries' = [x \in DOMAIN entries' |-> entries'[x]]
      /\ now' = now /\ served' = served
  BY DEF insert
<1> HIDE DEF insert
<1>3. IsFiniteSet(DOMAIN entries') /\ SizeBounded'
  BY <1>1, <1>2 DEF SizeBounded
<1>4. \A x \in DOMAIN entries' : entries'[x] \in CacheEntry /\ Timely(entries'[x])
  BY <1>1, <1>2 DEF CacheInv
<1>5. NeverOutlivesTTL'
  BY <1>2 DEF CacheInv, NeverOutlivesTTL
<1> QED BY <1>2, <1>3, <1>4, <1>5 DEF CacheInv

(* Losing entries keeps the invariant. *)
LEMMA RestrictKeeps ==
    ASSUME CacheInv, NEW S \in SUBSET DOMAIN entries,
           entries' = Restrict(entries, S), now' = now, NeverOutlivesTTL'
    PROVE  CacheInv'
<1>1. IsFiniteSet(S) /\ Cardinality(S) <= Cardinality(DOMAIN entries)
  BY FS_Subset DEF CacheInv
<1>2. Cardinality(S) \in Nat /\ Cardinality(DOMAIN entries) \in Nat
  BY <1>1, FS_CardinalityType DEF CacheInv
<1>3. DOMAIN entries' = S /\ \A x \in S : entries'[x] = entries[x]
  BY DEF Restrict
<1>4. entries' \in [DOMAIN entries' -> CacheEntry]
  BY <1>3 DEF Restrict, CacheInv
<1>5. SizeBounded'
  BY <1>1, <1>2, <1>3, CacheConstants DEF SizeBounded, CacheInv
<1> QED BY <1>1, <1>3, <1>4, <1>5 DEF CacheInv

(* What an answer leaves in the cache is timely, and alive. *)
LEMMA LearnedTimely ==
    ASSUME now \in Nat, NEW a \in Answers, lifetime(a.ttls, a.negative) > 0
    PROVE  LET e == [ttls |-> a.ttls, learned |-> now,
                     expires |-> now + TICKS * lifetime(a.ttls, a.negative)]
           IN  e \in CacheEntry /\ Timely(e) /\ e.expires > now
<1> DEFINE l == lifetime(a.ttls, a.negative)
<1>1. l \in Nat /\ l > 0 /\ \A t \in a.ttls : l <= t
  BY LifetimeWithin
<1>2. a.ttls \in SUBSET Nat /\ TICKS \in Nat /\ TICKS > 0
  BY CacheConstants
<1> HIDE DEF l
<1>3. TICKS * l \in Nat /\ TICKS * l > 0
  BY <1>1, <1>2, Z3
<1>4. \A t \in Nat : l <= t => TICKS * l <= TICKS * t
  BY <1>1, <1>2, Z3
<1>5. now + TICKS * l \in Nat /\ now + TICKS * l > now
  BY <1>3
<1>6. \A t \in a.ttls : now + TICKS * l <= now + TICKS * t
  <2> SUFFICES ASSUME NEW t \in a.ttls PROVE now + TICKS * l <= now + TICKS * t
    OBVIOUS
  <2>1. t \in Nat /\ TICKS * l <= TICKS * t /\ TICKS * t \in Int
    BY <1>1, <1>2, <1>4
  <2> QED BY <1>3, <2>1
<1> QED BY <1>2, <1>5, <1>6 DEF Timely, CacheEntry, l

(* get hands out what may be handed out. *)
LEMMA GetKeeps ==
    ASSUME CacheInv, NEW k \in CacheKey, get(k)
    PROVE  CacheInv'
<1>1. CASE k \in DOMAIN entries /\ Live(k)
  <2> DEFINE e == entries[k]
             s == [entry |-> e, at |-> now,
                   ttls |-> {<<t, aged(t, e.expires - now)>> : t \in e.ttls}]
  <2>1. served' = {s} /\ entries' = entries /\ now' = now
    BY <1>1 DEF get
  <2>2. e \in CacheEntry /\ Timely(e) /\ e.expires > now
    BY <1>1 DEF CacheInv, Live
  <2>3. \A t \in e.ttls : now + TICKS * aged(t, e.expires - now) <= e.learned + TICKS * t
    <3> SUFFICES ASSUME NEW t \in e.ttls
                 PROVE  now + TICKS * aged(t, e.expires - now) <= e.learned + TICKS * t
      OBVIOUS
    <3>1. t \in Nat /\ e.expires \in Nat /\ e.learned \in Nat /\ now \in Nat /\ TICKS \in Nat
      BY <2>2, CacheConstants DEF CacheEntry, CacheInv
    <3>2. e.expires - now \in Nat
      BY <2>2, <3>1
    <3>3. /\ aged(t, e.expires - now) \in Nat
          /\ TICKS * aged(t, e.expires - now) <= e.expires - now
      BY ZenonT(40), <3>1, <3>2, AgedWithin
    <3>4. e.expires <= e.learned + TICKS * t
      BY <2>2 DEF Timely
    <3>5. TICKS * aged(t, e.expires - now) \in Int /\ TICKS * t \in Int
      BY <3>1, <3>3
    <3> DEFINE u == TICKS * aged(t, e.expires - now)
               v == TICKS * t
    <3>6. u \in Int /\ v \in Int /\ u <= e.expires - now /\ e.expires <= e.learned + v
      BY <3>3, <3>4, <3>5
    <3> HIDE DEF u, v
    <3>7. now + u <= e.learned + v
      BY <3>1, <3>6
    <3> QED BY <3>7 DEF u, v
  <2>4. \A p \in s.ttls : s.at + TICKS * p[2] <= s.entry.learned + TICKS * p[1]
    <3> SUFFICES ASSUME NEW t \in e.ttls, NEW p, p = <<t, aged(t, e.expires - now)>>
                 PROVE  now + TICKS * p[2] <= e.learned + TICKS * p[1]
      OBVIOUS
    <3>1. p[1] = t /\ p[2] = aged(t, e.expires - now)
      OBVIOUS
    <3> QED BY <2>3, <3>1
  <2> HIDE DEF s
  <2>5. NeverOutlivesTTL'
    BY <2>1, <2>4 DEF NeverOutlivesTTL
  <2> QED BY <2>1, <2>5 DEF CacheInv, SizeBounded
<1>2. CASE ~(k \in DOMAIN entries /\ Live(k))
  <2>1. /\ served' = {} /\ now' = now
        /\ entries' = Restrict(entries, DOMAIN entries \ {k})
    BY <1>2 DEF get
  <2>2. NeverOutlivesTTL'
    BY <2>1 DEF NeverOutlivesTTL
  <2> QED BY <2>1, <2>2, RestrictKeeps
<1> QED BY <1>1, <1>2

(* The cache starts empty. *)
LEMMA InitInv == CacheInit => CacheInv
<1> SUFFICES ASSUME CacheInit PROVE CacheInv
  OBVIOUS
<1>1. DOMAIN entries = {} /\ now = 0 /\ served = {} /\ entries = <<>>
  BY DEF CacheInit
<1>2. entries \in [DOMAIN entries -> CacheEntry]
  BY <1>1
<1> QED BY <1>1, <1>2, FS_EmptySet, CacheConstants DEF CacheInv, SizeBounded, NeverOutlivesTTL

(* Every step of the cache keeps the invariant. *)
LEMMA StepInv == CacheInv /\ [CacheNext]_cacheVars => CacheInv'
<1> SUFFICES ASSUME CacheInv, [CacheNext]_cacheVars PROVE CacheInv'
  OBVIOUS
<1>1. ASSUME NEW k \in CacheKey, get(k) PROVE CacheInv'
  BY <1>1, GetKeeps
<1>2. ASSUME NEW k \in CacheKey, NEW a \in Answers, learn(k, a.ttls, a.negative) PROVE CacheInv'
  <2> DEFINE e == [ttls |-> a.ttls, learned |-> now,
                   expires |-> now + TICKS * lifetime(a.ttls, a.negative)]
  <2>1. lifetime(a.ttls, a.negative) > 0 /\ insert(k, e)
    BY <1>2 DEF learn
  <2>2. e \in CacheEntry /\ Timely(e)
    BY <2>1, LearnedTimely DEF CacheInv
  <2> HIDE DEF e
  <2> QED BY <2>1, <2>2, InsertKeeps
<1>3. ASSUME NEW k \in CacheKey, flush_scope(k[2]) PROVE CacheInv'
  <2>1. NeverOutlivesTTL'
    BY <1>3 DEF flush_scope, CacheInv, NeverOutlivesTTL
  <2> QED BY <1>3, <2>1, RestrictKeeps DEF flush_scope
<1>4. CASE clear
  <2>1. entries' = Restrict(entries, {})
    BY <1>4 DEF clear, Restrict
  <2>2. NeverOutlivesTTL'
    BY <1>4 DEF clear, CacheInv, NeverOutlivesTTL
  <2> QED BY <1>4, <2>1, <2>2, RestrictKeeps DEF clear
<1>5. CASE TimePasses
  BY <1>5 DEF TimePasses, CacheInv, SizeBounded, NeverOutlivesTTL
<1>6. CASE UNCHANGED cacheVars
  BY <1>6 DEF cacheVars, CacheInv, SizeBounded, NeverOutlivesTTL
<1> QED BY <1>1, <1>2, <1>3, <1>4, <1>5, <1>6 DEF CacheNext

(* The invariant of the cache, from which the theorems below follow. *)
THEOREM CacheInvariance == CacheSpec => []CacheInv
BY InitInv, StepInv, PTL DEF CacheSpec

(* However inserts, replacements, expiry and eviction follow one another,  *)
(* the cache holds at most MAX_ENTRIES answers (Cache::insert).            *)
THEOREM CacheIsBounded == CacheSpec => []SizeBounded
<1>1. CacheInv => SizeBounded
  BY DEF CacheInv
<1> QED BY <1>1, CacheInvariance, PTL

(* No record is handed out with a TTL that outlives its server's, counted  *)
(* from its arrival (Cache::get, Engine::received).                        *)
THEOREM TTLsAreHonoured == CacheSpec => []NeverOutlivesTTL
<1>1. CacheInv => NeverOutlivesTTL
  BY DEF CacheInv
<1> QED BY <1>1, CacheInvariance, PTL

(* A live answer makes room only when all are live, and then the one that  *)
(* would have expired first does (Cache::insert).                          *)
THEOREM EvictionIsFair == CacheSpec => EvictsTheFirstToExpire
<1> DEFINE Fair == \A k \in DOMAIN entries \ DOMAIN entries' :
               (Live(k) /\ DOMAIN entries' \ DOMAIN entries # {}) =>
                  /\ Cardinality(DOMAIN entries) = MAX_ENTRIES
                  /\ \A x \in DOMAIN entries :
                        Live(x) /\ entries[k].expires <= entries[x].expires
<1>1. ASSUME CacheInv, CacheNext PROVE Fair
  <2>1. ASSUME NEW k, NEW e, insert(k, e) PROVE Fair
    <3>1. DOMAIN entries' = Kept(k) \cup {k}
      BY <2>1 DEF insert
    <3>2. \A x \in DOMAIN entries \ Kept(k) :
             Live(x) => /\ Cardinality(DOMAIN entries) = MAX_ENTRIES
                        /\ \A y \in DOMAIN entries :
                              Live(y) /\ entries[x].expires <= entries[y].expires
      BY ZenonT(40), <1>1, KeptLeavesRoom
    <3> QED BY <3>1, <3>2
  <2>2. ASSUME DOMAIN entries' \subseteq DOMAIN entries PROVE Fair
    BY <2>2
  <2>3. ASSUME NEW k, get(k) PROVE DOMAIN entries' \subseteq DOMAIN entries
    BY <2>3 DEF get, Restrict
  <2>4. ASSUME NEW s, flush_scope(s) PROVE DOMAIN entries' \subseteq DOMAIN entries
    BY <2>4 DEF flush_scope, Restrict
  <2>5. ASSUME clear \/ TimePasses PROVE DOMAIN entries' \subseteq DOMAIN entries
    BY <2>5 DEF clear, TimePasses
  <2>6. ASSUME NEW k, NEW a, learn(k, a.ttls, a.negative) PROVE Fair
    BY <2>1, <2>6 DEF learn
  <2> HIDE DEF Fair
  <2> QED BY <1>1, <2>2, <2>3, <2>4, <2>5, <2>6 DEF CacheNext
<1>2. CacheInv /\ [CacheNext]_cacheVars => [Fair]_cacheVars
  BY <1>1
<1> QED BY <1>2, CacheInvariance, PTL DEF CacheSpec, EvictsTheFirstToExpire

-----------------------------------------------------------------------------
(* The refinement: the memory is the live part of the cache. *)
Found == Restrict(entries, {k \in DOMAIN entries : Live(k)})

(* What get finds, spelt out. *)
LEMMA FoundIs ==
    /\ DOMAIN Found = {k \in DOMAIN entries : Live(k)}
    /\ \A k \in DOMAIN Found : Found[k] = entries[k]
    /\ Found = [k \in DOMAIN Found |-> Found[k]]
BY DEF Found, Restrict

(* A lookup serves what the memory would serve, or nothing. *)
LEMMA GetImplements ==
    ASSUME NEW k \in CacheKey, get(k)
    PROVE  Memory!LookUp(k)
<1>1. now' = now /\ Found' = Found
  <2>1. DOMAIN entries' = DOMAIN entries \/ DOMAIN entries' = DOMAIN entries \ {k}
    BY DEF get, Restrict
  <2>2. \A x \in DOMAIN entries' : entries'[x] = entries[x]
    BY DEF get, Restrict
  <2>3. k \in DOMAIN entries /\ k \notin DOMAIN entries' => ~Live(k)
    BY DEF get, Restrict
  <2>4. now' = now
    BY DEF get
  <2>5. \A x \in DOMAIN entries' : Live(x)' <=> Live(x)
    BY <2>2, <2>4 DEF Live
  <2>6. {x \in DOMAIN entries' : Live(x)'} = {x \in DOMAIN entries : Live(x)}
    BY <2>1, <2>3, <2>5
  <2> QED BY <2>1, <2>2, <2>4, <2>6 DEF Found, Restrict
<1>2. {s.entry : s \in served'} = {Found[x] : x \in DOMAIN Found \cap {k}}
  <2>1. CASE k \in DOMAIN entries /\ Live(k)
    <3> DEFINE s == [entry |-> entries[k], at |-> now,
                     ttls |-> {<<t, aged(t, entries[k].expires - now)>> : t \in entries[k].ttls}]
    <3>1. served' = {s} /\ s.entry = entries[k]
      BY <2>1 DEF get
    <3> HIDE DEF s
    <3>2. DOMAIN Found \cap {k} = {k} /\ Found[k] = entries[k]
      BY <2>1, FoundIs
    <3> QED BY <3>1, <3>2
  <2>2. CASE ~(k \in DOMAIN entries /\ Live(k))
    BY <2>2, FoundIs DEF get
  <2> QED BY <2>1, <2>2
<1> QED BY <1>1, <1>2 DEF Memory!LookUp, Found

(* An insertion forgets and learns, as the memory may. *)
LEMMA LearnImplements ==
    ASSUME CacheInv, NEW k \in CacheKey, NEW a \in Answers, learn(k, a.ttls, a.negative)
    PROVE  Memory!Learn(k)
<1> DEFINE e == [ttls |-> a.ttls, learned |-> now,
                 expires |-> now + TICKS * lifetime(a.ttls, a.negative)]
<1>1. e \in CacheEntry /\ e.expires > now /\ insert(k, e)
  BY LearnedTimely DEF learn, CacheInv
<1> HIDE DEF e
<1>2. Kept(k) \subseteq DOMAIN entries
  BY ZenonT(40), KeptLeavesRoom
<1>3. /\ DOMAIN entries' = Kept(k) \cup {k} /\ now' = now /\ served' = served
      /\ \A x \in DOMAIN entries' : entries'[x] = IF x = k THEN e ELSE entries[x]
  BY <1>1 DEF insert
<1>4. /\ DOMAIN Found' = {x \in DOMAIN entries' : Live(x)'}
      /\ \A x \in DOMAIN Found' : Found'[x] = entries'[x]
      /\ Found' = [x \in DOMAIN Found' |-> Found'[x]]
  BY DEF Found, Restrict
<1>5. k \in DOMAIN Found' /\ Found'[k] \in CacheEntry
  BY <1>1, <1>3, <1>4 DEF Live
<1>6. \A x \in DOMAIN Found' : x # k => x \in DOMAIN Found /\ Found'[x] = Found[x]
  BY <1>2, <1>3, <1>4, FoundIs DEF Live
<1>7. DOMAIN Found' \subseteq DOMAIN Found \cup {k}
  BY <1>6
<1>8. Found' = [x \in DOMAIN Found' |-> IF x = k THEN Found'[k] ELSE Found[x]]
  BY <1>4, <1>6
<1> QED BY SMTT(30), <1>3, <1>5, <1>7, <1>8 DEF Memory!Learn, Found

(* A scope that is flushed is forgotten. *)
LEMMA FlushImplements ==
    ASSUME NEW s, flush_scope(s)
    PROVE  Memory!Forget(s)
<1>1. now' = now /\ served' = served /\ entries' = Restrict(entries, {k \in DOMAIN entries : k[2] # s})
  BY DEF flush_scope
<1>2. DOMAIN entries' = {k \in DOMAIN entries : k[2] # s} /\ \A x \in DOMAIN entries' : entries'[x] = entries[x]
  BY <1>1 DEF Restrict
<1>3. {x \in DOMAIN entries' : Live(x)'} = {x \in DOMAIN Found : x[2] # s}
  BY ZenonT(40), <1>1, <1>2, FoundIs DEF Live
<1>4. Found' = Restrict(Found, {x \in DOMAIN Found : x[2] # s})
  BY <1>2, <1>3, FoundIs DEF Found, Restrict
<1> QED BY <1>1, <1>4 DEF Memory!Forget, Memory!Restrict, Restrict, Found

(* A cache that is cleared forgets everything. *)
LEMMA ClearImplements ==
    ASSUME clear
    PROVE  Memory!ForgetAll
<1>1. entries' = <<>> /\ served' = served
  BY DEF clear
<1>2. {x \in DOMAIN entries' : Live(x)'} = {}
  BY <1>1
<1>3. Found' = <<>>
  BY <1>2 DEF Found, Restrict
<1> QED BY <1>1, <1>3 DEF Memory!ForgetAll, Found

(* Time passes for both. *)
LEMMA TimeImplements ==
    ASSUME CacheInv, TimePasses
    PROVE  Memory!Fade
<1>1. entries' = entries /\ served' = served /\ now' = now + 1 /\ now \in Nat
  BY DEF TimePasses, CacheInv
<1>2. \A k \in DOMAIN entries : entries[k].expires \in Nat
  BY DEF CacheInv, CacheEntry
<1>3. \A k \in DOMAIN entries : Live(k)' => Live(k)
  BY <1>1, <1>2 DEF Live
<1>4. /\ DOMAIN Found' = {x \in DOMAIN entries : Live(x)'}
      /\ \A x \in DOMAIN Found' : Found'[x] = entries[x]
      /\ Found' = [x \in DOMAIN Found' |-> Found'[x]]
  BY <1>1 DEF Found, Restrict
<1>5. DOMAIN Found' \subseteq DOMAIN Found
  BY <1>3, <1>4, FoundIs
<1>6. Found' = Restrict(Found, DOMAIN Found')
  BY <1>4, <1>5, FoundIs DEF Restrict
<1> QED BY <1>1, <1>5, <1>6 DEF Memory!Fade, Memory!Restrict, Restrict, Found

(* The cache implements AnswerMemory: what get finds is what was last      *)
(* learned under the key, unless it expired, was evicted or was flushed,   *)
(* and what a flush removes does not come back.                            *)
THEOREM CacheImplementsMemory == CacheSpec => ImplementsMemory
<1>1. CacheInit => Memory!MemoryInit
  <2> SUFFICES ASSUME CacheInit PROVE Memory!MemoryInit
    OBVIOUS
  <2>1. entries = <<>> /\ served = {}
    BY DEF CacheInit
  <2>2. {x \in DOMAIN entries : Live(x)} = {}
    BY <2>1
  <2>3. Found = <<>>
    BY <2>2 DEF Found, Restrict
  <2> QED BY <2>1, <2>3 DEF Memory!MemoryInit, Found
<1>2. ASSUME CacheInv, CacheNext PROVE Memory!MemoryNext
  <2>1. ASSUME NEW k \in CacheKey, get(k) PROVE Memory!MemoryNext
    BY <2>1, GetImplements DEF Memory!MemoryNext
  <2>2. ASSUME NEW k \in CacheKey, NEW a \in Answers, learn(k, a.ttls, a.negative)
        PROVE  Memory!MemoryNext
    BY <1>2, <2>2, LearnImplements DEF Memory!MemoryNext
  <2>3. ASSUME NEW k \in CacheKey, flush_scope(k[2]) PROVE Memory!MemoryNext
    BY <2>3, FlushImplements DEF Memory!MemoryNext
  <2>4. CASE clear
    BY <2>4, ClearImplements DEF Memory!MemoryNext
  <2>5. CASE TimePasses
    BY <1>2, <2>5, TimeImplements DEF Memory!MemoryNext
  <2> QED BY <1>2, <2>1, <2>2, <2>3, <2>4, <2>5 DEF CacheNext
<1>3. UNCHANGED cacheVars => UNCHANGED Memory!memoryVars
  BY DEF cacheVars, Memory!memoryVars, Live
<1>4. CacheInv /\ [CacheNext]_cacheVars => [Memory!MemoryNext]_(Memory!memoryVars)
  BY <1>2, <1>3
<1> QED BY <1>1, <1>4, CacheInvariance, PTL DEF CacheSpec, ImplementsMemory, Memory!MemorySpec

=============================================================================
