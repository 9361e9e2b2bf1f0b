----------------------------- MODULE EngineInv -----------------------------
(***************************************************************************)
(* The inductive invariant of Engine.  It is stated for an engine record e *)
(* and a set L of loose tasks, those between two exchanges: a public       *)
(* method makes tasks loose and each internal function it calls ties one   *)
(* up again, by a new exchange or by settling it.                          *)
(***************************************************************************)
EXTENDS Engine

(* e is a record with the fields of E. *)
IsRecord(e) ==
    e \in [cache : {e.cache}, demoted : {e.demoted}, tasks : {e.tasks}, txs : {e.txs},
           lookups : {e.lookups}, next_id : {e.next_id}, done : {e.done}]

(* The fields of the engine record have their types. *)
FieldsOK(e) ==
    /\ IsRecord(e)
    /\ DOMAIN e.cache \subseteq Key /\ \A k \in DOMAIN e.cache : e.cache[k] \in Entry
    /\ e.demoted \subseteq Server \X AnyScope
    /\ DOMAIN e.tasks \subseteq Nat /\ \A id \in DOMAIN e.tasks : e.tasks[id] \in Task
    /\ DOMAIN e.txs \subseteq Nat /\ \A x \in DOMAIN e.txs : e.txs[x] \in Tx
    /\ DOMAIN e.lookups \subseteq Qid /\ \A q \in DOMAIN e.lookups : e.lookups[q] \in Lookup
    /\ e.next_id \in Nat
    /\ e.done \in [Qid -> Seq(Outcome)]

(* Ids are allocated in order and never reused. *)
IdsOK(T, X, next) ==
    /\ \A id \in DOMAIN T : id < next
    /\ \A x \in DOMAIN X : 0 < x /\ x < next

(* Exchanges and the tasks that are not loose are in bijection; a task     *)
(* with an exchange has been charged for it and for its failures.          *)
ExchangesOK(T, X, L) ==
    /\ L \subseteq DOMAIN T
    /\ \A id \in DOMAIN T \ L :
           /\ T[id].tx \in DOMAIN X
           /\ X[T[id].tx].task = id
           /\ T[id].attempt = T[id].failures + 1
    /\ \A id \in L : T[id].tx = NoTx
    /\ \A id \in DOMAIN T : T[id].attempt <= MAX_ATTEMPTS
    /\ \A x \in DOMAIN X : X[x].task \in DOMAIN T \ L /\ T[X[x].task].tx = x

(* The questions waiting (W) are those with tasks; a record question has   *)
(* one task, a lookup (of the table K) waits for all of its own.           *)
OwnersOK(T, K, D, W) ==
    /\ \A id \in DOMAIN T :
           /\ T[id].owner.qid \in W
           /\ T[id].owner.kind = "lookup" <=> T[id].owner.qid \in DOMAIN K
    /\ \A q \in W : q \in Qid /\ D[q] = <<>>
    /\ \A q \in W : \E id \in DOMAIN T : T[id].owner.qid = q
    /\ \A q \in DOMAIN K :
           q \in W /\ K[q].pending = {id \in DOMAIN T : T[id].owner.qid = q}
    /\ \A i, j \in DOMAIN T :
           T[i].owner.qid = T[j].owner.qid /\ T[i].owner.kind = "resolve" => i = j

(* An exchange whose task may still teach the cache is with a server of    *)
(* the task's scope and began after the scope's servers last changed.      *)
FreshOK(T, X) ==
    \A x \in DOMAIN X :
        \/ T[X[x].task].cache_invalidated
        \/ /\ ~X[x].stale
           /\ X[x].server \in Range(Configured(scopes, fallback, T[X[x].task].scope))

(* So what the cache holds came from such an exchange. *)
CacheOK(C) ==
    \A k \in DOMAIN C :
        ~C[k].stale /\ C[k].server \in Range(Configured(scopes, fallback, k[3]))

(* The ceiling is respected. *)
FlightOK(X) ==
    /\ IsFiniteSet(DOMAIN X)
    /\ Cardinality(DOMAIN X) <= MAX_IN_FLIGHT

Good(e, L, W) ==
    /\ FieldsOK(e)
    /\ IdsOK(e.tasks, e.txs, e.next_id)
    /\ ExchangesOK(e.tasks, e.txs, L)
    /\ OwnersOK(e.tasks, e.lookups, e.done, W)
    /\ FreshOK(e.tasks, e.txs)
    /\ CacheOK(e.cache)
    /\ FlightOK(e.txs)

(* The inductive invariant: no task is loose between two calls. *)
IInv ==
    /\ TypeOK
    /\ Good(E, {}, Waiting)
    /\ gone \subseteq asked
    /\ \A q \in Qid : q \notin asked => done[q] = <<>>

-----------------------------------------------------------------------------
(* What a call does to tasks and exchanges. *)

(* S is T without id. *)
Drops(T, S, id) == DOMAIN S = DOMAIN T \ {id} /\ \A i \in DOMAIN S : S[i] = T[i]

(* S is T but for the task id, whose owner stays. *)
Changes(T, S, id) ==
    /\ DOMAIN S = DOMAIN T
    /\ \A i \in DOMAIN T \ {id} : S[i] = T[i]
    /\ S[id].owner = T[id].owner

(* S is T with tasks that agree on everything but what they may teach. *)
AlikeTasks(T, S) ==
    /\ DOMAIN S = DOMAIN T
    /\ \A i \in DOMAIN T : /\ S[i].owner = T[i].owner /\ S[i].tx = T[i].tx
                           /\ S[i].attempt = T[i].attempt /\ S[i].failures = T[i].failures
                           /\ S[i].candidates = T[i].candidates

(* Y is X with exchanges that agree on their task. *)
AlikeTxs(X, Y) == DOMAIN Y = DOMAIN X /\ \A x \in DOMAIN X : Y[x].task = X[x].task

(* server is the one to ask next for a task whose tried ends with it: no   *)
(* server of the scope that was not tried is passed over for one that was, *)
(* and no healthy one for one of the keys D.                               *)
InTurn(task, server, D) ==
    LET before == Range(SubSeq(task.tried, 1, Len(task.tried) - 1))
    IN  \A s \in Range(Configured(scopes, fallback, task.scope)) \ before :
            /\ server \notin before
            /\ server_key(server, task.scope) \in D => server_key(s, task.scope) \in D

(* u is the task t with an attempt or a candidate name less to spend. *)
Spends(t, u) ==
    \/ u.attempt = t.attempt + 1 /\ Len(u.candidates) <= Len(t.candidates)
    \/ u.attempt = t.attempt /\ Len(u.candidates) < Len(t.candidates)

(* No exchange starts or ends. *)
Quiet ==
    /\ AlikeTasks(tasks, tasks')
    /\ AlikeTxs(txs, txs')
    /\ next_id' = next_id

(* A question of m tasks is put, k of which have an exchange when the call *)
(* returns and at most c candidate names left.                             *)
Begins(q, m, k, c) ==
    LET first == next_id + m
        new   == first..(first + k - 1)
    IN  /\ q \notin Waiting
        /\ \A i \in DOMAIN tasks : i \in DOMAIN tasks' /\ tasks'[i] = tasks[i]
        /\ DOMAIN txs' = DOMAIN txs \cup new
        /\ \A x \in DOMAIN txs : txs'[x] = txs[x]
        /\ \A x \in new :
              LET u == tasks'[txs'[x].task]
              IN  /\ u.owner.qid = q
                  /\ Len(u.candidates) \in 0..c
                  /\ txs'[x].tcp \/ InTurn(u, txs'[x].server, demoted')
        /\ next_id' = first + k

(* An exchange ends, and its task with it or another exchange follows. *)
Replaces(x) ==
    LET id == txs[x].task
        n  == next_id
    IN  \/ Drops(tasks, tasks', id) /\ Drops(txs, txs', x) /\ next_id' = n
        \/ /\ Changes(tasks, tasks', id)
           /\ DOMAIN txs' = (DOMAIN txs \ {x}) \cup {n}
           /\ \A y \in DOMAIN txs \ {x} : txs'[y] = txs[y]
           /\ txs'[n].task = id
           /\ Spends(tasks[id], tasks'[id])
           /\ txs'[n].tcp \/ InTurn(tasks'[id], txs'[n].server, demoted')
           /\ next_id' = n + 1

(* A question goes, with its tasks and their exchanges. *)
Forgets(q) ==
    /\ DOMAIN txs' = {x \in DOMAIN txs : tasks[txs[x].task].owner.qid # q}
    /\ \A x \in DOMAIN txs' : txs'[x] = txs[x]
    /\ \A i \in DOMAIN tasks' : i \in DOMAIN tasks /\ tasks'[i] = tasks[i]
    /\ \A i \in DOMAIN tasks : i \in DOMAIN tasks' <=> tasks[i].owner.qid # q
    /\ next_id' = next_id

(* The calls on the engine, by what they do. *)
Moves ==
    \/ Quiet
    \/ \E q \in Qid, u \in Resolves \cup Lookups, m \in 1..2 : \E k \in 0..m :
          Begins(q, m, k, Len(candidates(scopes, fallback, u.name)) - 1)
    \/ \E x \in DOMAIN txs : Replaces(x)
    \/ \E q \in Qid : Forgets(q)

(* What an action must do. *)
Keeps == IInv' /\ [Promise!Next]_(Promise!vars) /\ Moves
=============================================================================
