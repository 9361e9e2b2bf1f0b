------------------------------- MODULE Cache -------------------------------
(***************************************************************************)
(* The answer cache (resolvd/src/cache.rs), with the end of                *)
(* Engine::received that decides how long an answer lives.  Time is        *)
(* counted in ticks, TICKS to the second, because lifetimes are whole      *)
(* seconds and the clock is not.  A record is represented by its TTL.      *)
(***************************************************************************)
EXTENDS Naturals, FiniteSets, Functions

CONSTANTS
    CacheKey,          \* the keys: a name and type, and a scope
    Answers,           \* the answers that come: [ttls, negative]
    MAX_ENTRIES,
    MAX_POSITIVE_TTL,
    TICKS,             \* ticks of the clock to the second
    Horizon            \* bound on the clock

ASSUME CacheConstants ==
    /\ MAX_ENTRIES \in Nat \ {0}
    /\ TICKS \in Nat \ {0}
    /\ \A k \in CacheKey : k = <<k[1], k[2]>>
    /\ Answers \subseteq [ttls : SUBSET Nat, negative : Nat]
    /\ \A a \in Answers : IsFiniteSet(a.ttls)
    /\ MAX_POSITIVE_TTL \in Nat

VARIABLES
    entries,    \* key -> entry
    now,        \* the clock
    served      \* what the last get returned, {} for nothing

cacheVars == <<entries, now, served>>

(* The records of an answer, by their TTLs; a negative answer has none.    *)
(* learned is history: when the answer came.                               *)
CacheEntry == [ttls : SUBSET Nat, expires : Nat, learned : Nat]

MinOf(S) == CHOOSE x \in S : \A y \in S : x <= y

Live(k) == entries[k].expires > now

CacheInit == entries = <<>> /\ now = 0 /\ served = {}

(* Fault: records are handed out with the TTL they came with. *)
aged_never(ttl, remaining) == ttl

(* A record's TTL is cut to what is left of the entry, in whole seconds. *)
aged(ttl, remaining) == MinOf({ttl, remaining \div TICKS})

(* Fault: an entry is still good at the moment it expires. *)
get_atExpiry(k) ==
    /\ IF k \in DOMAIN entries /\ entries[k].expires >= now
       THEN served' = {[entry |-> entries[k], at |-> now,
                        ttls |-> {<<t, aged(t, entries[k].expires - now)>> :
                                      t \in entries[k].ttls}]}
       ELSE served' = {}
    /\ UNCHANGED <<entries, now>>

(* A live entry, its records paired with the TTLs they are handed out      *)
(* with; an expired one is removed.                                        *)
get(k) ==
    /\ IF k \in DOMAIN entries /\ Live(k)
       THEN /\ served' = {[entry |-> entries[k], at |-> now,
                           ttls |-> {<<t, aged(t, entries[k].expires - now)>> :
                                         t \in entries[k].ttls}]}
            /\ UNCHANGED entries
       ELSE /\ served' = {}
            /\ entries' = Restrict(entries, DOMAIN entries \ {k})
    /\ UNCHANGED now

(* Fault: the last to expire makes room. *)
Kept_withoutLast(k) ==
    LET live == {x \in DOMAIN entries : Live(x)}
    IN  IF Cardinality(DOMAIN entries) < MAX_ENTRIES \/ k \in DOMAIN entries
        THEN DOMAIN entries
        ELSE IF Cardinality(live) < MAX_ENTRIES THEN live
        ELSE live \ {CHOOSE x \in live : \A y \in live : entries[x].expires >= entries[y].expires}

(* Fault: sweeping is taken to make room. *)
Kept_sweptOnly(k) ==
    IF Cardinality(DOMAIN entries) < MAX_ENTRIES \/ k \in DOMAIN entries
    THEN DOMAIN entries
    ELSE {x \in DOMAIN entries : Live(x)}

(* What stays when k comes: if k is new and the cache is full the expired  *)
(* entries go, and if it is still full the first to expire goes too.       *)
Kept(k) ==
    LET live == {x \in DOMAIN entries : Live(x)}
    IN  IF Cardinality(DOMAIN entries) < MAX_ENTRIES \/ k \in DOMAIN entries
        THEN DOMAIN entries
        ELSE IF Cardinality(live) < MAX_ENTRIES THEN live
        ELSE live \ {CHOOSE x \in live : \A y \in live : entries[x].expires <= entries[y].expires}

insert(k, e) ==
    /\ entries' = [x \in Kept(k) \cup {k} |-> IF x = k THEN e ELSE entries[x]]
    /\ UNCHANGED <<now, served>>

(* The lifetime in seconds of an answer: its shortest record's, capped;    *)
(* without records, the negative TTL.                                      *)
lifetime(ttls, negative) ==
    IF ttls = {} THEN negative ELSE MinOf({MinOf(ttls), MAX_POSITIVE_TTL})

(* An answer is inserted unless its lifetime is zero. *)
learn(k, ttls, negative) ==
    /\ lifetime(ttls, negative) > 0
    /\ insert(k, [ttls |-> ttls, learned |-> now,
                  expires |-> now + TICKS * lifetime(ttls, negative)])

flush_scope(s) ==
    /\ entries' = Restrict(entries, {k \in DOMAIN entries : k[2] # s})
    /\ UNCHANGED <<now, served>>

clear == entries' = <<>> /\ UNCHANGED <<now, served>>

TimePasses == now < Horizon /\ now' = now + 1 /\ UNCHANGED <<entries, served>>

CacheNext ==
    \/ \E k \in CacheKey :
          \/ get(k)
          \/ \E a \in Answers : learn(k, a.ttls, a.negative)
          \/ flush_scope(k[2])
    \/ clear
    \/ TimePasses

CacheSpec == CacheInit /\ [][CacheNext]_cacheVars

-----------------------------------------------------------------------------
(* The cache never holds more than MAX_ENTRIES answers, however inserts,   *)
(* replacements, expiry and eviction follow one another (insert).          *)
SizeBounded == Cardinality(DOMAIN entries) <= MAX_ENTRIES

(* get hands out a record only while its server's TTL, counted from its    *)
(* arrival, still runs, and never with a TTL that outlives it, whichever   *)
(* of its companions decided the entry's lifetime.                         *)
NeverOutlivesTTL ==
    \A s \in served : \A p \in s.ttls :
        s.at + TICKS * p[2] <= s.entry.learned + TICKS * p[1]

(* insert gives up a live answer only when every place is taken by a live  *)
(* answer, and then the one that would have expired first.                 *)
EvictsTheFirstToExpire ==
    [][\A k \in DOMAIN entries \ DOMAIN entries' :
          (Live(k) /\ DOMAIN entries' \ DOMAIN entries # {}) =>
              /\ Cardinality(DOMAIN entries) = MAX_ENTRIES
              /\ \A x \in DOMAIN entries : Live(x) /\ entries[k].expires <= entries[x].expires]_cacheVars

(* The cache implements AnswerMemory: what get finds is what was last      *)
(* learned and has neither expired nor been evicted or flushed.            *)
Memory == INSTANCE AnswerMemory WITH
    MemoryKey <- CacheKey,
    Lesson <- CacheEntry,
    memory <- Restrict(entries, {k \in DOMAIN entries : Live(k)}),
    answer <- {s.entry : s \in served}

ImplementsMemory == Memory!MemorySpec
=============================================================================
