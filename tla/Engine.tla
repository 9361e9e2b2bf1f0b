------------------------------- MODULE Engine -------------------------------
(***************************************************************************)
(* The resolver engine (resolvd/src/engine.rs): a state machine without    *)
(* I/O that turns questions into upstream transactions and their replies,  *)
(* failures and timeouts into exactly one answer each.                     *)
(*                                                                         *)
(* Engine functions that call one another are operators on an engine       *)
(* record e (the fields of struct Engine that they change); each public    *)
(* method is one action, which installs the record its calls produce.      *)
(* Time is abstract: a transaction may time out, a demotion lapse and a    *)
(* cache entry go (expiry, eviction) at any moment, so cache and demoted   *)
(* hold what is live.  Replies that match no live transaction change       *)
(* nothing.  Record contents, counters and interface names are left out.   *)
(***************************************************************************)
EXTENDS Routing, Functions

CONSTANTS
    Qid,             \* question ids, each used by the daemon at most once
    MAX_ATTEMPTS,    \* attempts per question
    MAX_IN_FLIGHT,   \* ceiling on outstanding transactions
    Snapshots,       \* the scope lists netd may announce
    Fallbacks,       \* the fallback servers and domains of the registry
    HostTables,      \* the static names of the registry
    Hostnames,       \* the hostnames netd may announce, <<>> for none
    Resolves,        \* the record questions: [name, rtype, no_cache]
    Lookups          \* the address questions: [name, types]

RType == {"A", "AAAA", "PTR", "ANY"}

ASSUME EngineConstants ==
    /\ MAX_ATTEMPTS \in Nat \ {0}
    /\ MAX_IN_FLIGHT \in Nat \ {0}
    /\ Snapshots \subseteq Seq(Scope)
    /\ <<>> \in Snapshots
    /\ Fallbacks \subseteq Fallback
    /\ [servers |-> <<>>, domains |-> <<>>] \in Fallbacks
    /\ \A h \in HostTables : \A n \in DOMAIN h : n \in Name /\ h[n] \subseteq Address
    /\ <<>> \in HostTables
    /\ Hostnames \subseteq Name
    /\ <<>> \in Hostnames
    /\ Resolves \subseteq [name : Name, rtype : RType, no_cache : BOOLEAN]
    /\ Lookups \subseteq [name : Name, types : {<<"A">>, <<"AAAA">>, <<"A", "AAAA">>}]

VARIABLES
    scopes,     \* the interfaces, in snapshot order
    fallback,   \* fallback servers and search domains
    hosts,      \* static names
    hostname,   \* the machine's name
    cache,      \* live entries: <<name, rtype, scope>> -> entry
    demoted,    \* server keys within their demotion period
    tasks,      \* task id -> one name/type being resolved for a question
    txs,        \* transaction id -> outstanding upstream exchange
    lookups,    \* question id -> the address lookup collecting its tasks
    next_id,    \* the next task or transaction id
    asked,      \* the questions put so far
    gone,       \* the questions abandoned by their asker
    done        \* question id -> the outcomes delivered for it, in order

config == <<scopes, fallback, hosts, hostname>>
engine == <<cache, demoted, tasks, txs, lookups, next_id, done>>
vars == <<config, engine, asked, gone>>

Outcome == {"found", "notfound", "unavailable"}
AnyScope == ScopeId \cup {FALLBACK_SCOPE, NoScope}
NoTx == 0

Owner == [kind : {"resolve", "lookup"}, qid : Qid]

(* failures counts the task's exchanges that led nowhere; it is history. *)
Task == [owner : Owner, original : Name, rtype : RType, no_cache : BOOLEAN,
         cache_invalidated : BOOLEAN, candidates : Seq(Name), current : Name,
         scope : AnyScope, attempt : Nat, tried : Seq(Server), tx : Nat, failures : Nat]

(* stale is history: since the exchange began its scope's servers have    *)
(* changed, or the cache was flushed.                                      *)
Tx == [task : Nat, server : Server, tcp : BOOLEAN, stale : BOOLEAN]

Key == Name \X RType \X AnyScope
Entry == [outcome : {"found", "notfound"}, server : Server, stale : BOOLEAN]
Lookup == [pending : SUBSET Nat, results : SUBSET Outcome]

E == [cache |-> cache, demoted |-> demoted, tasks |-> tasks, txs |-> txs,
      lookups |-> lookups, next_id |-> next_id, done |-> done]

Become(e) ==
    /\ cache' = e.cache
    /\ demoted' = e.demoted
    /\ tasks' = e.tasks
    /\ txs' = e.txs
    /\ lookups' = e.lookups
    /\ next_id' = e.next_id
    /\ done' = e.done

Put(f, k, v) == [x \in DOMAIN f \cup {k} |-> IF x = k THEN v ELSE f[x]]
Without(f, k) == Restrict(f, DOMAIN f \ {k})

-----------------------------------------------------------------------------
(* Internals *)

Deliver(e, q, outcome) == [e EXCEPT !.done[q] = Append(@, outcome)]

(* Found if any type was found; a failure is never reported as NotFound. *)
combine(results) ==
    IF "found" \in results THEN "found"
    ELSE IF "unavailable" \in results THEN "unavailable" ELSE "notfound"

(* The task is over: hand its outcome to its owner. *)
settle(e, id, outcome) ==
    LET task == e.tasks[id]
        q    == task.owner.qid
        e1   == [e EXCEPT !.tasks = Without(@, id), !.txs = Without(@, task.tx)]
        l    == [pending |-> e.lookups[q].pending \ {id},
                 results |-> e.lookups[q].results \cup {outcome}]
    IN  IF id \notin DOMAIN e.tasks THEN e
        ELSE IF task.owner.kind = "resolve" THEN Deliver(e1, q, outcome)
        ELSE IF q \notin DOMAIN e.lookups THEN e1
        ELSE IF l.pending # {} THEN [e1 EXCEPT !.lookups[q] = l]
        ELSE Deliver([e1 EXCEPT !.lookups = Without(@, q)], q, combine(l.results))

(* Fault: the ceiling is off by one. *)
Refused_late(e, id, entropy) ==
    \/ e.tasks[id].attempt >= MAX_ATTEMPTS
    \/ Cardinality(DOMAIN e.txs) > MAX_IN_FLIGHT
    \/ ~entropy

(* Attempts spent, the ceiling reached, or no random bytes for an id. *)
Refused(e, id, entropy) ==
    \/ e.tasks[id].attempt >= MAX_ATTEMPTS
    \/ Cardinality(DOMAIN e.txs) >= MAX_IN_FLIGHT
    \/ ~entropy

(* Every transaction is allocated here, first attempts and TCP retries. *)
send(e, id, server, tcp, entropy) ==
    LET task == e.tasks[id]
        x    == e.next_id
    IN  IF id \notin DOMAIN e.tasks THEN e
        ELSE IF Refused(e, id, entropy) THEN settle(e, id, "unavailable")
        ELSE [e EXCEPT
                 !.next_id = x + 1,
                 !.txs = Put(@, x, [task |-> id, server |-> server, tcp |-> tcp,
                                    stale |-> FALSE]),
                 !.tasks[id] = [task EXCEPT !.attempt = @ + 1, !.tx = x]]

(* Send the current candidate to the next server, or give up. *)
next_attempt(e, id, entropy) ==
    LET task    == e.tasks[id]
        servers == servers_of(scopes, fallback, e.demoted, task.scope)
        untried == {k \in DOMAIN servers : servers[k] \notin Range(task.tried)}
        server  == servers[IF untried # {} THEN Min(untried)
                           ELSE (Len(task.tried) % Len(servers)) + 1]
    IN  IF id \notin DOMAIN e.tasks THEN e
        ELSE IF task.attempt >= MAX_ATTEMPTS \/ servers = <<>>
             THEN settle(e, id, "unavailable")
        ELSE send([e EXCEPT !.tasks[id].tried = Append(@, server)], id, server, FALSE, entropy)

(* Take the next candidate the cache does not deny: its scope is chosen    *)
(* now, and it is answered from the cache or asked.  The code recurses     *)
(* over denied candidates that have a successor.                           *)
next_candidate(e, id, entropy) ==
    LET task   == e.tasks[id]
        c      == task.candidates
        via(k) == route(scopes, fallback, c[k])
        key(k) == <<c[k], task.rtype, via(k)>>
        hit(k) == ~task.no_cache /\ via(k) # NoScope /\ key(k) \in DOMAIN e.cache
        k      == Min({i \in DOMAIN c :
                        i < Len(c) => ~(hit(i) /\ e.cache[key(i)].outcome = "notfound")})
        e1     == [e EXCEPT !.tasks[id] =
                      [task EXCEPT !.candidates = SubSeq(c, k + 1, Len(c)),
                                   !.current = c[k], !.tried = <<>>, !.scope = via(k)]]
    IN  IF id \notin DOMAIN e.tasks THEN e
        ELSE IF c = <<>> THEN settle(e, id, "notfound")
        ELSE IF via(k) = NoScope THEN settle(e1, id, "unavailable")
        ELSE IF hit(k) THEN settle(e1, id, e.cache[key(k)].outcome)
        ELSE next_attempt(e1, id, entropy)

start_task(e, kind, q, name, rtype, no_cache) ==
    [e EXCEPT
        !.next_id = @ + 1,
        !.tasks = Put(@, e.next_id,
            [owner |-> [kind |-> kind, qid |-> q], original |-> name, rtype |-> rtype,
             no_cache |-> no_cache, cache_invalidated |-> FALSE, candidates |-> <<>>,
             current |-> name, scope |-> NoScope, attempt |-> 0, tried |-> <<>>,
             tx |-> NoTx, failures |-> 0])]

(* Fault: the local answer is taken even when there is none. *)
advance_unchecked(e, id, entropy) ==
    settle(e, id, synthetic(scopes, hosts, hostname, e.tasks[id].original,
                            e.tasks[id].rtype).outcome)

(* What a fresh task does: answer locally, or build its candidate list. *)
advance(e, id, entropy) ==
    LET task  == e.tasks[id]
        local == synthetic(scopes, hosts, hostname, task.original, task.rtype)
        cands == candidates(scopes, fallback, task.original)
    IN  IF id \notin DOMAIN e.tasks THEN e
        ELSE IF local.outcome # "none" THEN settle(e, id, local.outcome)
        ELSE next_candidate([e EXCEPT !.tasks[id].candidates = cands], id, entropy)

-----------------------------------------------------------------------------
(* Configuration *)

Init ==
    /\ scopes = <<>>
    /\ fallback = [servers |-> <<>>, domains |-> <<>>]
    /\ hosts = <<>>
    /\ hostname = <<>>
    /\ cache = <<>>
    /\ demoted = {}
    /\ tasks = <<>>
    /\ txs = <<>>
    /\ lookups = <<>>
    /\ next_id = 1
    /\ asked = {}
    /\ gone = {}
    /\ done = [q \in Qid |-> <<>>]

(* Forget what the scopes S taught; no task under way there may teach it again. *)
invalidate_scope_cache(S) ==
    /\ cache' = Restrict(cache, {k \in DOMAIN cache : k[3] \notin S})
    /\ tasks' = [id \in DOMAIN tasks |->
                    [tasks[id] EXCEPT !.cache_invalidated = @ \/ tasks[id].scope \in S]]

(* Record, for each exchange, whether its scope's servers just changed. *)
AgeExchanges(newScopes, newFallback) ==
    txs' = [x \in DOMAIN txs |->
               LET s == tasks[txs[x].task].scope
               IN  [txs[x] EXCEPT !.stale = @ \/ Configured(newScopes, newFallback, s)
                                                   # Configured(scopes, fallback, s)]]

(* Fault: a scope whose servers changed keeps its cache. *)
Invalidated_goneOnly(new) ==
    {scopes[i].id : i \in {j \in DOMAIN scopes :
        \A k \in DOMAIN new : new[k].id # scopes[j].id}}

(* The scopes that are new, changed their servers, or have gone. *)
Invalidated(new) ==
    {new[i].id : i \in {j \in DOMAIN new :
        \/ \A k \in DOMAIN scopes : scopes[k].id # new[j].id
        \/ Configured(scopes, fallback, new[j].id) # new[j].servers}}
    \cup {scopes[i].id : i \in {j \in DOMAIN scopes :
            \A k \in DOMAIN new : new[k].id # scopes[j].id}}

set_scopes(new) ==
    /\ scopes' = new
    /\ invalidate_scope_cache(Invalidated(new))
    /\ AgeExchanges(new, fallback)
    /\ UNCHANGED <<fallback, hosts, hostname, demoted, lookups, next_id, asked, gone, done>>

set_fallback(new) ==
    /\ fallback' = new
    /\ invalidate_scope_cache(IF new.servers # fallback.servers THEN {FALLBACK_SCOPE} ELSE {})
    /\ AgeExchanges(scopes, new)
    /\ UNCHANGED <<scopes, hosts, hostname, demoted, lookups, next_id, asked, gone, done>>

set_hostname(new) ==
    /\ hostname' = new
    /\ UNCHANGED <<scopes, fallback, hosts, engine, asked, gone>>

set_hosts(new) ==
    /\ hosts' = new
    /\ UNCHANGED <<scopes, fallback, hostname, engine, asked, gone>>

(* Fault: exchanges under way may still fill the flushed cache. *)
flush_cacheOnly ==
    /\ cache' = <<>>
    /\ txs' = [x \in DOMAIN txs |-> [txs[x] EXCEPT !.stale = TRUE]]
    /\ UNCHANGED <<config, demoted, tasks, lookups, next_id, asked, gone, done>>

flush ==
    /\ cache' = <<>>
    /\ tasks' = [id \in DOMAIN tasks |-> [tasks[id] EXCEPT !.cache_invalidated = TRUE]]
    /\ txs' = [x \in DOMAIN txs |-> [txs[x] EXCEPT !.stale = TRUE]]
    /\ UNCHANGED <<config, demoted, lookups, next_id, asked, gone, done>>

-----------------------------------------------------------------------------
(* Questions *)

Ask(q) ==
    /\ q \notin asked
    /\ asked' = asked \cup {q}
    /\ UNCHANGED <<config, gone>>

(* A name that does not parse is NotFound at once. *)
ask_unparsed(q) ==
    /\ Ask(q)
    /\ Become(Deliver(E, q, "notfound"))

(* resolve, resolve_question and reverse, which differ in their inputs. *)
resolve(q, u, entropy) ==
    /\ Ask(q)
    /\ Become(advance(start_task(E, "resolve", q, u.name, u.rtype, u.no_cache),
                      next_id, entropy))

lookup(q, u, entropy, entropy2) ==
    LET one     == start_task(E, "lookup", q, u.name, u.types[1], FALSE)
        two     == start_task(one, "lookup", q, u.name, u.types[2], FALSE)
        both    == Len(u.types) = 2
        started == IF both THEN two ELSE one
        e       == [started EXCEPT !.lookups = Put(@, q,
                       [pending |-> next_id..(started.next_id - 1), results |-> {}])]
        e1      == advance(e, next_id, entropy)
    IN  /\ Ask(q)
        /\ Become(IF both THEN advance(e1, next_id + 1, entropy2) ELSE e1)

Waiting == {q \in asked \ gone : done[q] = <<>>}

TasksOf(q) == {id \in DOMAIN tasks : tasks[id].owner.qid = q}

(* Fault: the lookup of an abandoned question stays behind. *)
abandon_keepsLookup(q) ==
    /\ q \in Waiting
    /\ gone' = gone \cup {q}
    /\ tasks' = Restrict(tasks, DOMAIN tasks \ TasksOf(q))
    /\ txs' = Restrict(txs, DOMAIN txs \ {tasks[id].tx : id \in TasksOf(q)})
    /\ UNCHANGED <<config, cache, demoted, lookups, next_id, asked, done>>

(* Fault: the tasks of an abandoned question run on. *)
abandon_keepsTasks(q) ==
    /\ q \in Waiting
    /\ gone' = gone \cup {q}
    /\ UNCHANGED <<config, engine, asked>>

(* Forget a question whose asker went away. *)
abandon(q) ==
    /\ q \in Waiting
    /\ gone' = gone \cup {q}
    /\ tasks' = Restrict(tasks, DOMAIN tasks \ TasksOf(q))
    /\ txs' = Restrict(txs, DOMAIN txs \ {tasks[id].tx : id \in TasksOf(q)})
    /\ lookups' = Without(lookups, q)
    /\ UNCHANGED <<config, cache, demoted, next_id, asked, done>>

-----------------------------------------------------------------------------
(* Inputs from the network *)

(* Fault: the finished exchange stays in the table. *)
End_keepsTx(x, fails) ==
    [E EXCEPT !.tasks[txs[x].task] =
        [@ EXCEPT !.tx = NoTx, !.failures = @ + fails]]

(* The exchange is over: its task has no transaction. *)
End(x, fails) ==
    LET id == txs[x].task
        task == [tasks[id] EXCEPT !.tx = NoTx, !.failures = @ + fails]
    IN  [E EXCEPT !.txs = Without(txs, x),
                  !.tasks = IF id \in DOMAIN tasks THEN [tasks EXCEPT ![id] = task] ELSE tasks]

(* Fault: a truncated reply is dropped without a retry. *)
received_truncated_dropped(x, entropy) ==
    /\ ~txs[x].tcp
    /\ Become(End(x, 1))
    /\ UNCHANGED <<config, asked, gone>>

(* A truncated datagram: ask the same server again over TCP. *)
received_truncated(x, entropy) ==
    /\ ~txs[x].tcp
    /\ Become(send(End(x, 1), txs[x].task, txs[x].server, TRUE, entropy))
    /\ UNCHANGED <<config, asked, gone>>

(* Fault: NXDOMAIN for one candidate is charged to the question. *)
refund_never(e, id) == e

(* A valid NXDOMAIN is an answer: it is not charged to the budget. *)
refund(e, id) == [e EXCEPT !.tasks[id].attempt = IF @ = 0 THEN 0 ELSE @ - 1]

(* The end of an exchange that brought an answer: the server is healthy,   *)
(* and the answer is cached if the task may still teach the cache and the  *)
(* lifetime computed from the records is not zero (cacheable).             *)
Answered(x, outcome, cacheable) ==
    LET task  == tasks[txs[x].task]
        key   == <<task.current, task.rtype, task.scope>>
        entry == [outcome |-> outcome, server |-> txs[x].server, stale |-> txs[x].stale]
    IN  [End(x, 0) EXCEPT
            !.demoted = @ \ {server_key(txs[x].server, task.scope)},
            !.cache = IF cacheable /\ ~task.cache_invalidated THEN Put(@, key, entry) ELSE @]

(* NOERROR (found, with or without records) or NXDOMAIN (notfound). *)
received_answer(x, outcome, cacheable, entropy) ==
    LET id == txs[x].task
        e  == Answered(x, outcome, cacheable)
    IN  /\ Become(IF outcome = "notfound" /\ tasks[id].candidates # <<>>
                  THEN next_candidate(refund(e, id), id, entropy)
                  ELSE settle(e, id, outcome))
        /\ UNCHANGED <<config, asked, gone>>

(* The end of an exchange with a server that failed: it is demoted. *)
Failure(x) ==
    [End(x, 1) EXCEPT !.demoted = @ \cup {server_key(txs[x].server, tasks[txs[x].task].scope)}]

(* SERVFAIL, REFUSED and every other code: try the next server. *)
received_error(x, entropy) ==
    /\ Become(next_attempt(Failure(x), txs[x].task, entropy))
    /\ UNCHANGED <<config, asked, gone>>

(* The transport failed, or the deadline passed (tick cancels it first). *)
failed(x, entropy) ==
    /\ Become(next_attempt(Failure(x), txs[x].task, entropy))
    /\ UNCHANGED <<config, asked, gone>>

(* A local error is not the server's fault. *)
local_failed(x, entropy) ==
    /\ Become(next_attempt(End(x, 1), txs[x].task, entropy))
    /\ UNCHANGED <<config, asked, gone>>

-----------------------------------------------------------------------------
(* Time *)

DemotionLapses(k) ==
    /\ demoted' = demoted \ {k}
    /\ UNCHANGED <<config, cache, tasks, txs, lookups, next_id, asked, gone, done>>

CacheLoses(k) ==
    /\ cache' = Without(cache, k)
    /\ UNCHANGED <<config, demoted, tasks, txs, lookups, next_id, asked, gone, done>>

-----------------------------------------------------------------------------
(* The specification *)

Promise == INSTANCE Resolver WITH Qid <- Qid, asked <- asked, gone <- gone, done <- done

Configure ==
    \/ \E s \in Snapshots : set_scopes(s)
    \/ \E f \in Fallbacks : set_fallback(f)
    \/ \E h \in HostTables : set_hosts(h)
    \/ \E h \in Hostnames : set_hostname(h)
    \/ flush

Question(q) ==
    \/ ask_unparsed(q)
    \/ \E u \in Resolves, r \in BOOLEAN : resolve(q, u, r)
    \/ \E u \in Lookups, r, r2 \in BOOLEAN : lookup(q, u, r, r2)
    \/ abandon(q)

Network(x) ==
    \E r \in BOOLEAN :
        \/ received_truncated(x, r)
        \/ \E o \in {"found", "notfound"}, c \in BOOLEAN : received_answer(x, o, c, r)
        \/ received_error(x, r)
        \/ local_failed(x, r)

tick == \E x \in DOMAIN txs, r \in BOOLEAN : failed(x, r)

Next ==
    \/ Configure
    \/ \E q \in Qid : Question(q)
    \/ \E x \in DOMAIN txs : Network(x)
    \/ tick
    \/ \E k \in demoted : DemotionLapses(k)
    \/ \E k \in DOMAIN cache : CacheLoses(k)

(* Every transaction has a deadline, and the event loop wakes for the      *)
(* earliest one and calls tick, so exchanges that nothing else ends are    *)
(* timed out.  tick can act exactly while an exchange is outstanding, so   *)
(* this is WF_vars(tick) with its ENABLED spelled out.                     *)
Fairness == []<>(DOMAIN txs = {}) \/ []<><<tick>>_vars

Spec == Init /\ [][Next]_vars

FairSpec == Spec /\ Fairness

-----------------------------------------------------------------------------
(* Properties *)

(* Every component of the engine's state has its type. *)
TypeOK ==
    /\ scopes \in Seq(Scope)
    /\ fallback \in Fallback
    /\ hosts \in HostTables
    /\ hostname \in Name
    /\ DOMAIN cache \subseteq Key /\ \A k \in DOMAIN cache : cache[k] \in Entry
    /\ demoted \subseteq Server \X AnyScope
    /\ DOMAIN tasks \subseteq Nat /\ \A id \in DOMAIN tasks : tasks[id] \in Task
    /\ DOMAIN txs \subseteq Nat /\ \A x \in DOMAIN txs : txs[x] \in Tx
    /\ DOMAIN lookups \subseteq Qid /\ \A q \in DOMAIN lookups : lookups[q] \in Lookup
    /\ next_id \in Nat
    /\ asked \subseteq Qid
    /\ gone \subseteq Qid
    /\ done \in [Qid -> Seq(Outcome)]

(* Between two calls every task has exactly one outstanding exchange and   *)
(* every exchange serves the task that points back at it: received, failed *)
(* and settle leave neither a task that nothing will wake nor a            *)
(* transaction nobody owns.                                                *)
OneExchangePerTask ==
    /\ \A id \in DOMAIN tasks : tasks[id].tx \in DOMAIN txs /\ txs[tasks[id].tx].task = id
    /\ \A x \in DOMAIN txs : txs[x].task \in DOMAIN tasks /\ tasks[txs[x].task].tx = x

(* A question still waiting has a task, hence an exchange with a deadline; *)
(* one that was answered or abandoned has none, and an address lookup      *)
(* waits for exactly its unfinished tasks.                                 *)
NoStrandedQuestion ==
    /\ \A q \in Qid : q \in Waiting <=> TasksOf(q) # {}
    /\ \A q \in DOMAIN lookups : lookups[q].pending = TasksOf(q)
    /\ \A id \in DOMAIN tasks :
           tasks[id].owner.kind = "lookup" <=> tasks[id].owner.qid \in DOMAIN lookups

(* What the cache holds for a scope came from a server that is in the      *)
(* scope's list now, whatever set_scopes and set_fallback did while the    *)
(* exchange that taught it was under way.                                  *)
CacheFromConfiguredServers ==
    \A k \in DOMAIN cache : \E i \in DOMAIN Configured(scopes, fallback, k[3]) :
        cache[k].server = Configured(scopes, fallback, k[3])[i]

(* No entry was taught by an exchange begun before the scope's servers     *)
(* last changed or the cache was last flushed, even if the same servers    *)
(* have come back since.                                                   *)
NoStaleFill == \A k \in DOMAIN cache : ~cache[k].stale

(* attempt counts exactly the exchanges that led nowhere and the one under *)
(* way, over all candidates and both transports: NXDOMAIN's refund never   *)
(* gives back more than it took, and no question waits for more than       *)
(* MAX_ATTEMPTS timeouts.                                                  *)
BudgetExact ==
    \A id \in DOMAIN tasks :
        /\ tasks[id].attempt = tasks[id].failures + 1
        /\ tasks[id].attempt <= MAX_ATTEMPTS

(* The ceiling on outstanding exchanges holds on every path to send. *)
InFlightBounded == Cardinality(DOMAIN txs) <= MAX_IN_FLIGHT

(* A query over UDP goes to a demoted server only when the candidate has   *)
(* been put to every healthy server of its scope, and to a server for the  *)
(* second time only when it has been put to all of them.                   *)
ServerOrder ==
    [][\A x \in DOMAIN txs' \ DOMAIN txs : ~txs'[x].tcp =>
          LET task    == tasks'[txs'[x].task]
              server  == txs'[x].server
              before  == Range(SubSeq(task.tried, 1, Len(task.tried) - 1))
              servers == Range(Configured(scopes, fallback, task.scope))
              sick(s) == server_key(s, task.scope) \in demoted'
          IN  \A s \in servers \ before : server \notin before /\ (sick(server) => sick(s))]_vars

(* engine-routing.candidate-asks-only-its-scope, the routing article of the  *)
(* reference manual: every attempt, the TCP retry after a truncated reply  *)
(* included, goes to a server of the scope the candidate was routed to.    *)
(* received sends the TCP retry to the server that truncated, which by     *)
(* then set_scopes may have taken off the scope's list.                    *)
AttemptsStayInScope ==
    [][\A x \in DOMAIN txs' \ DOMAIN txs :
          txs'[x].server \in Range(Configured(scopes, fallback, tasks'[txs'[x].task].scope))]_vars

(* resolvd-netd-snapshot.test.lua: a reply to an exchange begun before the *)
(* servers of its scope changed is cached under the scope's key.  received *)
(* answers with it and does not cache it (NoStaleFill, which is what the   *)
(* reference manual and resolvd-cache.test.lua say).                       *)
LateReplyCached ==
    [][\A x \in DOMAIN txs :
          txs[x].stale /\ (\E r \in BOOLEAN : received_answer(x, "found", TRUE, r)) =>
              LET task == tasks[txs[x].task]
              IN  <<task.current, task.rtype, task.scope>> \in DOMAIN cache']_vars

(* resolvd-flow-scopes.test.lua: each candidate of a single label has an   *)
(* attempt budget of its own, so its first exchange is its first attempt.  *)
(* next_candidate goes on with what the question has left (BudgetExact,    *)
(* which is what the reference manual says).                               *)
OwnBudget ==
    [][\A id \in DOMAIN tasks \cap DOMAIN tasks' :
          tasks'[id].current # tasks[id].current => tasks'[id].attempt = 1]_vars

(* The engine does what Resolver promises: one answer per question, never  *)
(* one for a question that was not put or whose asker has gone, however    *)
(* replies, failures, timeouts and reconfigurations interleave.            *)
AnsweredOnce == Promise!Spec

(* Every question is answered in the end, unless its asker goes away:      *)
(* each failure, timeout, truncation and denial either ends the task or    *)
(* starts an exchange that has a deadline of its own.                      *)
EveryQuestionAnswered == \A q \in Qid : q \in asked ~> (done[q] # <<>> \/ q \in gone)
=============================================================================
