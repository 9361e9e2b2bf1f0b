---------------------------- MODULE EngineSteps -----------------------------
(***************************************************************************)
(* Questions, configuration changes and time preserve the engine's         *)
(* invariant too; and what each kind of step does to the view that the     *)
(* daemon has of the engine.                                               *)
(***************************************************************************)
EXTENDS EngineProofs, EngineExchanges

-----------------------------------------------------------------------------
(* Putting a question, whether it is left waiting or answered within the call. *)

(* Tying up the task of a question just put is a step of the promise. *)
LEMMA TiedAsk ==
    ASSUME IInv, NEW q \in Qid, NEW e, NEW id, NEW f, e.done = done, Ask(q),
           e.tasks[id].owner.qid = q, Good(e, {id}, Waiting \cup {q}),
           Tied(e, f, {id}, Waiting \cup {q}, id), Become(f), Moves
    PROVE  Keeps
<1>1. done \in [Qid -> Seq(Outcome)] /\ q \notin asked /\ asked' = asked \cup {q}
      /\ gone' = gone /\ UNCHANGED config
  BY ZenonT(40) DEF IInv, TypeOK, Ask
<1>2. {id} \ {id} = {}
  BY ZenonT(40)
<1>3. TypeOK /\ asked' \subseteq Qid /\ gone' \subseteq asked' /\ done' = f.done
  BY ZenonT(40), <1>1 DEF IInv, TypeOK, Become
<1>4. q \notin Waiting /\ q \notin gone /\ done[q] = <<>>
  BY ZenonT(40), <1>1 DEF IInv, Waiting
<1>5. CASE Good(f, {}, Waiting \cup {q}) /\ f.done = e.done
  <2>1. done' = done
    BY ZenonT(40), <1>3, <1>5
  <2>2. Waiting' = Waiting \cup {q}
    BY ZenonT(40), <1>1, <1>4, <2>1 DEF Waiting
  <2>3. \A r \in Qid : r \notin asked' => done'[r] = <<>>
    BY ZenonT(40), <1>1, <2>1 DEF IInv
  <2>4. IInv'
    BY ZenonT(40), <1>1, <1>3, <1>5, <2>2, <2>3, Install
  <2>5. Promise!Ask(q)
    BY ZenonT(40), <1>1, <2>1 DEF Promise!Ask
  <2> QED BY ZenonT(40), <2>4, <2>5 DEF Keeps, Promise!Next
<1>6. ASSUME Good(f, {}, (Waiting \cup {q}) \ {q}), NEW o \in Outcome,
             f.done = [e.done EXCEPT ![q] = <<o>>]
      PROVE  Keeps
  <2>1. done' = [done EXCEPT ![q] = <<o>>]
    BY ZenonT(40), <1>3, <1>6
  <2>2. Waiting' = Waiting /\ (Waiting \cup {q}) \ {q} = Waiting
    <3>1. ASSUME NEW r \in Waiting PROVE r \in Waiting'
      BY ZenonT(40), <1>1, <1>4, <2>1 DEF Waiting, IInv, TypeOK
    <3>2. ASSUME NEW r \in Waiting' PROVE r \in Waiting
      <4>1. r \in asked' \ gone /\ done'[r] = <<>> /\ r \in Qid
        BY ZenonT(40), <1>1, <1>3 DEF Waiting
      <4>2. done'[q] = <<o>>
        BY ZenonT(40), <1>1, <2>1
      <4>3. r # q => done'[r] = done[r]
        BY ZenonT(40), <1>1, <2>1, <4>1
      <4>4. r # q
        <5>1. <<o>> # <<>>
          BY ZenonT(40)
        <5> QED BY ZenonT(40), <4>1, <4>2, <5>1
      <4> QED BY ZenonT(40), <1>1, <4>1, <4>3, <4>4 DEF Waiting
    <3> QED BY ZenonT(40), <1>4, <3>1, <3>2
  <2>3. \A r \in Qid : r \notin asked' => done'[r] = <<>>
    BY ZenonT(40), <1>1, <2>1 DEF IInv
  <2>4. IInv'
    <3>1. Good(f, {}, Waiting')
      BY ZenonT(40), <1>6, <2>2
    <3> QED BY ZenonT(40), <1>1, <1>3, <2>3, <3>1, Install
  <2>5. Promise!AskAndAnswer(q, o)
    BY ZenonT(40), <1>1, <2>1 DEF Promise!AskAndAnswer
  <2>6. Promise!Next
    BY ZenonT(40), <1>6, <2>5 DEF Promise!Next, Promise!Outcome, Outcome
  <2> QED BY ZenonT(40), <2>4, <2>6 DEF Keeps
<1> QED BY ZenonT(40), <1>2, <1>5, <1>6 DEF Tied

(* A task as start_task makes it, for question q. *)
Fresh(t, kind, q) ==
    /\ t \in Task /\ t.owner.kind = kind /\ t.owner.qid = q
    /\ t.tx = NoTx /\ t.attempt = 0 /\ t.failures = 0

(* f is e with one fresh task. *)
Started(e, f, kind, q, name) ==
    /\ IsRecord(f) /\ f.cache = e.cache /\ f.demoted = e.demoted /\ f.txs = e.txs
    /\ f.lookups = e.lookups /\ f.done = e.done /\ f.next_id = e.next_id + 1
    /\ DOMAIN f.tasks = DOMAIN e.tasks \cup {e.next_id}
    /\ \A i \in DOMAIN e.tasks : f.tasks[i] = e.tasks[i]
    /\ Fresh(f.tasks[e.next_id], kind, q) /\ f.tasks[e.next_id].original = name

(* start_task adds one fresh task. *)
LEMMA StartFields ==
    ASSUME NEW e, IsRecord(e), e.next_id \in Nat, e.next_id \notin DOMAIN e.tasks,
           NEW kind \in {"resolve", "lookup"}, NEW q \in Qid, NEW name \in Name,
           NEW rtype \in RType, NEW no_cache \in BOOLEAN
    PROVE  Started(e, start_task(e, kind, q, name, rtype, no_cache), kind, q, name)
<1> DEFINE f == start_task(e, kind, q, name, rtype, no_cache)
           t == [owner |-> [kind |-> kind, qid |-> q], original |-> name, rtype |-> rtype,
                 no_cache |-> no_cache, cache_invalidated |-> FALSE, candidates |-> <<>>,
                 current |-> name, scope |-> NoScope, attempt |-> 0, tried |-> <<>>,
                 tx |-> NoTx, failures |-> 0]
<1>1. f = [e EXCEPT !.next_id = @ + 1, !.tasks = Put(@, e.next_id, t)]
  BY ZenonT(40) DEF start_task
<1> HIDE DEF f
<1>2. Fresh(t, kind, q) /\ t.original = name
  <2> DEFINE o == [kind |-> kind, qid |-> q]
  <2>1. o \in Owner /\ o.kind = kind /\ o.qid = q
    BY ZenonT(40) DEF Owner
  <2>2. NoTx \in Nat /\ NoScope \in AnyScope /\ <<>> \in Seq(Name) /\ <<>> \in Seq(Server)
    BY DEF NoTx, AnyScope
  <2> HIDE DEF o
  <2>3. t = [owner |-> o, original |-> name, rtype |-> rtype,
             no_cache |-> no_cache, cache_invalidated |-> FALSE, candidates |-> <<>>,
             current |-> name, scope |-> NoScope, attempt |-> 0, tried |-> <<>>,
             tx |-> NoTx, failures |-> 0]
    BY ZenonT(40) DEF o
  <2> HIDE DEF t
  <2>4. t \in Task
    BY ZenonT(40), <2>1, <2>2, <2>3 DEF Task
  <2>5. t.owner = o /\ t.tx = NoTx /\ t.attempt = 0 /\ t.failures = 0
        /\ t.original = name
    BY ZenonT(40), <2>3
  <2> QED BY ZenonT(40), <2>1, <2>4, <2>5 DEF Fresh
<1> HIDE DEF t
<1>3. /\ IsRecord(f) /\ f.cache = e.cache /\ f.demoted = e.demoted /\ f.txs = e.txs
      /\ f.lookups = e.lookups /\ f.done = e.done /\ f.next_id = e.next_id + 1
      /\ f.tasks = Put(e.tasks, e.next_id, t)
  BY ZenonT(40), <1>1 DEF IsRecord
<1>4. /\ DOMAIN f.tasks = DOMAIN e.tasks \cup {e.next_id}
      /\ \A i \in DOMAIN e.tasks : f.tasks[i] = e.tasks[i]
      /\ f.tasks[e.next_id] = t
  BY ZenonT(40), <1>3 DEF Put
<1>5. Started(e, f, kind, q, name)
  BY ZenonT(40), <1>2, <1>3, <1>4 DEF Started
<1> QED BY ZenonT(40), <1>5 DEF f

(* The tasks N of question q join the table T, and a lookup the table K;   *)
(* ids go up to m.                                                         *)
Joins(T, S, K, M, N, m, q) ==
    /\ DOMAIN S = DOMAIN T \cup N
    /\ \A i \in DOMAIN T : S[i] = T[i]
    /\ N # {} /\ N \subseteq Nat /\ \A i \in N : i < m
    /\ \/ /\ \A i \in N : Fresh(S[i], "resolve", q)
          /\ \A i, j \in N : i = j
          /\ M = K
       \/ /\ \A i \in N : Fresh(S[i], "lookup", q)
          /\ DOMAIN M = DOMAIN K \cup {q}
          /\ \A r \in DOMAIN K : M[r] = K[r]
          /\ M[q].pending = N

(* The tasks of a new question may join, loose. *)
LEMMA Start ==
    ASSUME IInv, NEW m \in Nat, NEW q \in Qid, q \notin asked, NEW N, NEW S, NEW M,
           next_id <= m, N \cap DOMAIN tasks = {}, Joins(tasks, S, lookups, M, N, m, q)
    PROVE  /\ IdsOK(S, txs, m) /\ ExchangesOK(S, txs, N) /\ FreshOK(S, txs)
           /\ OwnersOK(S, M, done, Waiting \cup {q})
<1>0. /\ IdsOK(tasks, txs, next_id) /\ ExchangesOK(tasks, txs, {}) /\ FreshOK(tasks, txs)
      /\ OwnersOK(tasks, lookups, done, Waiting)
      /\ next_id \in Nat /\ DOMAIN tasks \subseteq Nat /\ DOMAIN txs \subseteq Nat
      /\ q \notin Waiting /\ done[q] = <<>>
  BY ZenonT(40), EFields DEF IInv, Good, TypeOK, Waiting
<1> USE <1>0
<1>1. IdsOK(S, txs, m)
  <2>1. ASSUME NEW i \in DOMAIN S PROVE i < m
    <3>1. CASE i \in N
      BY ZenonT(40), <3>1 DEF Joins
    <3>2. CASE i \in DOMAIN tasks
      <4>1. i \in Nat /\ i < next_id
        BY ZenonT(40), <3>2 DEF IdsOK
      <4> QED BY <4>1
    <3> QED BY ZenonT(40), <3>1, <3>2 DEF Joins
  <2>2. ASSUME NEW x \in DOMAIN txs PROVE 0 < x /\ x < m
    <3>1. x \in Nat /\ 0 < x /\ x < next_id
      BY ZenonT(40) DEF IdsOK
    <3> QED BY <3>1
  <2> QED BY ZenonT(40), <2>1, <2>2 DEF IdsOK
<1>2. \A x \in DOMAIN txs : txs[x].task \in DOMAIN tasks /\ S[txs[x].task] = tasks[txs[x].task]
  BY ZenonT(40) DEF ExchangesOK, Joins
<1>3. \A i \in N : S[i].tx = NoTx /\ S[i].attempt <= MAX_ATTEMPTS /\ S[i].owner.qid = q
  BY EngineConstants DEF Joins, Fresh
<1>4. \A i \in DOMAIN S \ N : i \in DOMAIN tasks /\ S[i] = tasks[i]
  BY ZenonT(40) DEF Joins
<1>5. ExchangesOK(S, txs, N)
  <2>1. N \subseteq DOMAIN S
    BY ZenonT(40) DEF Joins
  <2>2. \A x \in DOMAIN txs : txs[x].task \in DOMAIN S \ N
    BY ZenonT(40), <1>2 DEF Joins
  <2>3. \A x \in DOMAIN txs : S[txs[x].task].tx = x
    BY ZenonT(40), <1>2 DEF ExchangesOK
  <2>4. ASSUME NEW i \in DOMAIN S \ N
        PROVE  /\ S[i].tx \in DOMAIN txs /\ txs[S[i].tx].task = i
               /\ S[i].attempt = S[i].failures + 1
               /\ S[i].attempt <= MAX_ATTEMPTS
    <3>1. i \in DOMAIN tasks /\ S[i] = tasks[i]
      BY ZenonT(40), <1>4
    <3>2. /\ tasks[i].tx \in DOMAIN txs /\ txs[tasks[i].tx].task = i
          /\ tasks[i].attempt = tasks[i].failures + 1 /\ tasks[i].attempt <= MAX_ATTEMPTS
      BY ZenonT(40), <3>1 DEF ExchangesOK
    <3> QED BY ZenonT(40), <3>1, <3>2
  <2>5. \A i \in DOMAIN S : S[i].attempt <= MAX_ATTEMPTS
    BY ZenonT(40), <1>3, <2>4
  <2> QED BY ZenonT(40), <1>3, <2>1, <2>2, <2>3, <2>4, <2>5 DEF ExchangesOK
<1>6. FreshOK(S, txs)
  BY ZenonT(40), <1>2 DEF FreshOK
<1>7. q \notin DOMAIN lookups /\ \A i \in DOMAIN tasks : tasks[i].owner.qid # q
  BY DEF OwnersOK
<1>8. OwnersOK(S, M, done, Waiting \cup {q})
  <2>1. ASSUME NEW r \in Waiting PROVE r \in Qid /\ done[r] = <<>> /\ \E i \in DOMAIN S : S[i].owner.qid = r
    <3>1. PICK i \in DOMAIN tasks : tasks[i].owner.qid = r
      BY ZenonT(40) DEF OwnersOK
    <3>2. i \in DOMAIN S /\ S[i] = tasks[i]
      BY ZenonT(40) DEF Joins
    <3> QED BY ZenonT(40), <3>1, <3>2 DEF OwnersOK
  <2>2. \E i \in DOMAIN S : S[i].owner.qid = q
    BY ZenonT(40), <1>3 DEF Joins
  <2>3. \A i \in DOMAIN S : /\ S[i].owner.qid \in Waiting \cup {q}
                            /\ S[i].owner.kind = "lookup" <=> S[i].owner.qid \in DOMAIN M
    <3>1. ASSUME NEW i \in N
          PROVE  S[i].owner.qid = q /\ (S[i].owner.kind = "lookup" <=> q \in DOMAIN M)
      BY ZenonT(40), <1>7 DEF Joins, Fresh
    <3>2. ASSUME NEW i \in DOMAIN S \ N
          PROVE  /\ S[i].owner.qid \in Waiting
                 /\ S[i].owner.kind = "lookup" <=> S[i].owner.qid \in DOMAIN M
      <4>1. i \in DOMAIN tasks /\ S[i] = tasks[i] /\ tasks[i].owner.qid \in Waiting /\ tasks[i].owner.qid # q
            /\ (tasks[i].owner.kind = "lookup" <=> tasks[i].owner.qid \in DOMAIN lookups)
        BY ZenonT(40), <1>4, <1>7 DEF OwnersOK
      <4>2. DOMAIN M = DOMAIN lookups \/ DOMAIN M = DOMAIN lookups \cup {q}
        BY ZenonT(40) DEF Joins
      <4> QED BY ZenonT(40), <4>1, <4>2
    <3> QED BY ZenonT(40), <3>1, <3>2
  <2>4. ASSUME NEW r \in DOMAIN M
        PROVE  r \in Waiting \cup {q} /\ M[r].pending = {i \in DOMAIN S : S[i].owner.qid = r}
    <3>1. CASE r = q
      <4>1. M[q].pending = N
        BY ZenonT(40), <1>7, <3>1 DEF Joins
      <4>2. N = {i \in DOMAIN S : S[i].owner.qid = q}
        BY ZenonT(40), <1>3, <1>4, <1>7 DEF Joins
      <4> QED BY ZenonT(40), <3>1, <4>1, <4>2
    <3>2. CASE r # q
      <4>1. r \in DOMAIN lookups /\ M[r] = lookups[r]
        BY ZenonT(40), <3>2 DEF Joins
      <4>2. r \in Waiting /\ lookups[r].pending = {i \in DOMAIN tasks : tasks[i].owner.qid = r}
        BY ZenonT(40), <4>1 DEF OwnersOK
      <4>3. {i \in DOMAIN tasks : tasks[i].owner.qid = r} = {i \in DOMAIN S : S[i].owner.qid = r}
        BY ZenonT(40), <1>3, <1>4, <3>2 DEF Joins
      <4> QED BY ZenonT(40), <4>1, <4>2, <4>3
    <3> QED BY ZenonT(40), <3>1, <3>2
  <2>5. ASSUME NEW i \in DOMAIN S, NEW j \in DOMAIN S,
               S[i].owner.qid = S[j].owner.qid, S[i].owner.kind = "resolve"
        PROVE  i = j
    <3>1. CASE i \in N
      <4>1. S[i].owner.qid = q
        BY ZenonT(40), <1>3, <3>1
      <4>2. j \in N
        BY ZenonT(30), <1>4, <1>7, <2>5, <4>1
      <4> QED BY ZenonT(40), <2>5, <3>1, <4>2 DEF Joins, Fresh
    <3>2. CASE i \notin N
      <4>1. i \in DOMAIN tasks /\ S[i] = tasks[i] /\ tasks[i].owner.qid # q
        BY ZenonT(40), <1>4, <1>7, <3>2
      <4>2. j \in DOMAIN tasks /\ S[j] = tasks[j]
        BY ZenonT(40), <1>3, <1>4, <2>5, <4>1
      <4> QED BY ZenonT(90), <2>5, <4>1, <4>2 DEF OwnersOK
    <3> QED BY ZenonT(40), <3>1, <3>2
  <2> QED BY ZenonT(40), <2>1, <2>2, <2>3, <2>4, <2>5 DEF OwnersOK
<1> QED BY ZenonT(40), <1>1, <1>5, <1>6, <1>8

(* The engine with the tasks of a new question. *)
LEMMA JoinGood ==
    ASSUME IInv, NEW q \in Qid, q \notin asked, NEW N, NEW f, IsRecord(f),
           f.cache = cache, f.demoted = demoted, f.txs = txs, f.done = done,
           f.next_id \in Nat, next_id <= f.next_id, N \cap DOMAIN tasks = {},
           \A r \in DOMAIN f.lookups : f.lookups[r] \in Lookup,
           Joins(tasks, f.tasks, lookups, f.lookups, N, f.next_id, q)
    PROVE  Good(f, N, Waiting \cup {q})
<1>1. /\ IdsOK(tasks, txs, next_id) /\ ExchangesOK(tasks, txs, {}) /\ FreshOK(tasks, txs)
      /\ FlightOK(txs) /\ OwnersOK(tasks, lookups, done, Waiting) /\ CacheOK(cache)
      /\ FieldsOK(E)
  BY ZenonT(40), EFields DEF IInv, Good
<1>2. /\ next_id \in Nat /\ DOMAIN tasks \subseteq Nat /\ DOMAIN txs \subseteq Nat
      /\ q \notin Waiting /\ done[q] = <<>> /\ DOMAIN lookups \subseteq Qid
      /\ \A i \in DOMAIN tasks : tasks[i] \in Task
  BY ZenonT(40) DEF IInv, TypeOK, Waiting
<1>3. /\ IdsOK(f.tasks, txs, f.next_id) /\ ExchangesOK(f.tasks, txs, N)
      /\ FreshOK(f.tasks, txs) /\ OwnersOK(f.tasks, f.lookups, done, Waiting \cup {q})
  BY ZenonT(40), <1>2, Start
<1>4. DOMAIN f.lookups \subseteq Qid
  BY ZenonT(40), <1>2 DEF Joins
<1>5. DOMAIN f.tasks \subseteq Nat /\ \A i \in DOMAIN f.tasks : f.tasks[i] \in Task
  BY ZenonT(40), <1>2 DEF Joins, Fresh
<1>6. FieldsOK(f)
  BY ZenonT(40), <1>1, <1>4, <1>5, EFields DEF FieldsOK
<1> QED BY ZenonT(40), <1>1, <1>3, <1>6 DEF Good

(* A name that does not parse is answered at once. *)
LEMMA UnparsedKeeps ==
    ASSUME IInv, NEW q \in Qid, ask_unparsed(q)
    PROVE  Keeps
<1> DEFINE f == Deliver(E, q, "notfound")
<1>1. /\ q \notin asked /\ asked' = asked \cup {q} /\ gone' = gone /\ UNCHANGED config
      /\ Become(f)
  BY ZenonT(40) DEF ask_unparsed, Ask
<1>2. /\ done \in [Qid -> Seq(Outcome)] /\ TypeOK /\ asked \subseteq Qid /\ gone \subseteq asked
      /\ done[q] = <<>> /\ q \notin Waiting /\ "notfound" \in Outcome
  BY ZenonT(40), <1>1 DEF IInv, TypeOK, Waiting, Outcome
<1>3. /\ IsRecord(f) /\ f.cache = cache /\ f.demoted = demoted /\ f.tasks = tasks
      /\ f.txs = txs /\ f.lookups = lookups /\ f.next_id = next_id
      /\ f.done = [done EXCEPT ![q] = Append(@, "notfound")]
  <2>1. f = [E EXCEPT !.done = [done EXCEPT ![q] = Append(@, "notfound")]]
    BY ZenonT(40), EFields DEF Deliver
  <2> HIDE DEF f
  <2> QED BY ZenonT(40), <2>1, EFields DEF IsRecord
<1> HIDE DEF f
<1>4. f.done = [done EXCEPT ![q] = <<"notfound">>] /\ f.done \in [Qid -> Seq(Outcome)]
  BY <1>2, <1>3
<1>5. OwnersOK(f.tasks, f.lookups, f.done, Waiting)
  <2>1. OwnersOK(tasks, lookups, done, Waiting)
    BY ZenonT(40), EFields DEF IInv, Good
  <2>2. \A r \in Waiting : f.done[r] = done[r]
    BY ZenonT(40), <1>2, <1>4, <2>1 DEF OwnersOK
  <2>3. OwnersOK(tasks, lookups, f.done, Waiting)
    BY ZenonT(40), <2>1, <2>2 DEF OwnersOK
  <2> QED BY ZenonT(40), <1>3, <2>3
<1>6. Good(f, {}, Waiting)
  <2>1. FieldsOK(f)
    BY ZenonT(40), <1>3, <1>4, EFields DEF IInv, Good, FieldsOK
  <2> QED BY ZenonT(40), <1>3, <1>5, <2>1, EFields DEF IInv, Good
<1>7. done' = [done EXCEPT ![q] = <<"notfound">>]
  BY ZenonT(40), <1>1, <1>4 DEF Become
<1>8. Waiting' = Waiting
  <2>1. ASSUME NEW r \in Waiting PROVE r \in Waiting'
    BY ZenonT(40), <1>1, <1>2, <1>7 DEF Waiting
  <2>2. ASSUME NEW r \in Waiting' PROVE r \in Waiting
    <3>1. r \in asked' \ gone /\ done'[r] = <<>> /\ r \in Qid
      BY ZenonT(40), <1>1, <1>2 DEF Waiting
    <3>2. done'[q] = <<"notfound">> /\ <<"notfound">> # <<>>
      BY ZenonT(40), <1>2, <1>7
    <3>3. r # q
      BY ZenonT(40), <3>1, <3>2
    <3>4. done'[r] = done[r]
      BY ZenonT(40), <1>2, <1>7, <3>1, <3>3
    <3>5. r \in asked \ gone /\ done[r] = <<>>
      BY ZenonT(40), <1>1, <3>1, <3>3, <3>4
    <3> QED BY ZenonT(40), <3>5 DEF Waiting
  <2> QED BY ZenonT(40), <2>1, <2>2
<1>9. \A r \in Qid : r \notin asked' => done'[r] = <<>>
  BY ZenonT(40), <1>1, <1>2, <1>7 DEF IInv
<1>10. IInv'
  <2>1. asked' \subseteq Qid /\ gone' \subseteq asked'
    BY ZenonT(40), <1>1, <1>2
  <2> QED BY ZenonT(40), <1>1, <1>2, <1>6, <1>8, <1>9, <2>1, Install
<1>11. Promise!AskAndAnswer(q, "notfound")
  BY ZenonT(40), <1>1, <1>7 DEF Promise!AskAndAnswer
<1>12. Promise!Next
  BY ZenonT(40), <1>11 DEF Promise!Next, Promise!Outcome
<1>13. tasks' = tasks /\ txs' = txs /\ next_id' = next_id
  BY ZenonT(40), <1>1, <1>3 DEF Become
<1>14. Moves
  BY ZenonT(40), <1>13 DEF Moves, Quiet, AlikeTasks, AlikeTxs
<1> QED BY ZenonT(40), <1>10, <1>12, <1>14 DEF Keeps

(* e is the engine after a question of m tasks was put and those of D were *)
(* dealt with, which left k exchanges.                                     *)
Begun(e, m, k, q, c, D) ==
    LET first == next_id + m
        new   == first..(first + k - 1)
    IN  /\ \A i \in DOMAIN tasks : i \in DOMAIN e.tasks /\ e.tasks[i] = tasks[i]
        /\ DOMAIN e.txs = DOMAIN txs \cup new
        /\ \A x \in DOMAIN txs : e.txs[x] = txs[x]
        /\ \A x \in new :
              LET i == e.txs[x].task
                  u == e.tasks[i]
              IN  /\ i \in D /\ i \in DOMAIN e.tasks
                  /\ u.owner.qid = q
                  /\ Len(u.candidates) \in 0..c
                  /\ e.txs[x].tcp \/ InTurn(u, e.txs[x].server, demoted)
        /\ e.next_id = first + k /\ e.demoted = demoted

(* Dealing with one more of the tasks. *)
LEMMA BegunStep ==
    ASSUME next_id \in Nat,
           NEW m \in Nat, NEW k \in Nat, NEW q, NEW c, NEW D, NEW e, NEW f, NEW id, NEW a,
           Begun(e, m, k, q, c, D), id \notin D, id \notin DOMAIN tasks,
           id \in DOMAIN e.tasks, e.tasks[id].owner.qid = q, Follows(e, f, id, a, c)
    PROVE  Begun(f, m, k, q, c, D \cup {id}) \/ Begun(f, m, k + 1, q, c, D \cup {id})
<1> DEFINE first == next_id + m
           new(j) == first..(first + j - 1)
           n == e.next_id
           Row(g, x) == LET i == g.txs[x].task
                            u == g.tasks[i]
                        IN  /\ i \in DOMAIN g.tasks
                            /\ u.owner.qid = q
                            /\ Len(u.candidates) \in 0..c
                            /\ g.txs[x].tcp \/ InTurn(u, g.txs[x].server, demoted)
<1>1. /\ \A i \in DOMAIN tasks : i \in DOMAIN e.tasks /\ e.tasks[i] = tasks[i]
      /\ DOMAIN e.txs = DOMAIN txs \cup new(k)
      /\ \A x \in DOMAIN txs : e.txs[x] = txs[x]
      /\ \A x \in new(k) : e.txs[x].task \in D /\ Row(e, x)
      /\ n = first + k /\ e.demoted = demoted
  BY ZenonT(40) DEF Begun
<1>2. CASE Settled(e, f, id)
  <2>1. /\ DOMAIN f.tasks = DOMAIN e.tasks \ {id} /\ \A i \in DOMAIN f.tasks : f.tasks[i] = e.tasks[i]
        /\ DOMAIN f.txs = DOMAIN e.txs /\ \A x \in DOMAIN f.txs : f.txs[x] = e.txs[x]
        /\ f.next_id = n /\ f.demoted = demoted
    BY ZenonT(40), <1>1, <1>2 DEF Settled, Drops, Same
  <2> HIDE DEF new, n, first
  <2>2. \A i \in DOMAIN tasks : i \in DOMAIN f.tasks /\ f.tasks[i] = tasks[i]
    BY ZenonT(40), <1>1, <2>1
  <2>3. \A x \in DOMAIN txs : f.txs[x] = txs[x]
    BY ZenonT(40), <1>1, <2>1
  <2>4. ASSUME NEW x \in new(k) PROVE f.txs[x].task \in D /\ Row(f, x)
    <3>1. f.txs[x] = e.txs[x] /\ e.txs[x].task \in D /\ Row(e, x)
      BY ZenonT(40), <1>1, <2>1
    <3>2. e.txs[x].task \in DOMAIN f.tasks /\ f.tasks[e.txs[x].task] = e.tasks[e.txs[x].task]
      BY ZenonT(40), <2>1, <3>1
    <3> QED BY ZenonT(40), <3>1, <3>2
  <2>5. Begun(f, m, k, q, c, D \cup {id})
    BY ZenonT(40), <1>1, <2>1, <2>2, <2>3, <2>4 DEF Begun, new, first, n
  <2> QED BY ZenonT(40), <2>5
<1>3. CASE Sent(e, f, id, a, c)
  <2>1. /\ DOMAIN f.tasks = DOMAIN e.tasks /\ \A i \in DOMAIN e.tasks \ {id} : f.tasks[i] = e.tasks[i]
        /\ f.tasks[id].owner = e.tasks[id].owner
        /\ DOMAIN f.txs = DOMAIN e.txs \cup {n} /\ \A x \in DOMAIN e.txs : f.txs[x] = e.txs[x]
        /\ f.next_id = n + 1 /\ f.demoted = demoted /\ f.txs[n].task = id
        /\ Len(f.tasks[id].candidates) \in 0..c
        /\ f.txs[n].tcp \/ InTurn(f.tasks[id], f.txs[n].server, demoted)
    BY ZenonT(40), <1>1, <1>3 DEF Sent, Changes
  <2>2. /\ new(k + 1) = new(k) \cup {n} /\ n = first + k /\ n + 1 = first + (k + 1)
    <3>1. n = first + k /\ first \in Nat
      BY SMTT(30), <1>1
    <3> HIDE DEF n, first
    <3>2. n + 1 = first + (k + 1)
      BY SMTT(30), <3>1
    <3>3. new(k + 1) = new(k) \cup {n}
      BY <3>1
    <3> QED BY ZenonT(40), <3>1, <3>2, <3>3
  <2> HIDE DEF new, n, first
  <2>3. \A i \in DOMAIN tasks : i \in DOMAIN f.tasks /\ f.tasks[i] = tasks[i]
    BY ZenonT(40), <1>1, <2>1
  <2>4. \A x \in DOMAIN txs : f.txs[x] = txs[x]
    BY ZenonT(40), <1>1, <2>1
  <2>5. ASSUME NEW x \in new(k) PROVE f.txs[x].task \in D /\ Row(f, x)
    <3>1. f.txs[x] = e.txs[x] /\ e.txs[x].task \in D /\ Row(e, x)
      BY ZenonT(40), <1>1, <2>1
    <3>2. e.txs[x].task \in DOMAIN f.tasks /\ f.tasks[e.txs[x].task] = e.tasks[e.txs[x].task]
      BY ZenonT(40), <2>1, <3>1
    <3> QED BY ZenonT(40), <3>1, <3>2
  <2>6. Row(f, n)
    BY ZenonT(40), <2>1
  <2>7. \A x \in new(k + 1) : f.txs[x].task \in D \cup {id} /\ Row(f, x)
    BY ZenonT(40), <2>1, <2>2, <2>5, <2>6
  <2>8. DOMAIN f.txs = DOMAIN txs \cup new(k + 1)
    BY ZenonT(40), <1>1, <2>1, <2>2
  <2>9. Begun(f, m, k + 1, q, c, D \cup {id})
    BY ZenonT(40), <1>1, <2>1, <2>2, <2>3, <2>4, <2>7, <2>8 DEF Begun, new, first
  <2> QED BY ZenonT(40), <2>9
<1> QED BY ZenonT(40), <1>2, <1>3 DEF Follows

(* A question put and dealt with has begun. *)
LEMMA BegunMoves ==
    ASSUME NEW q \in Qid, q \notin Waiting, NEW u \in Resolves \cup Lookups,
           NEW m \in 1..2, NEW k \in 0..m, NEW D, NEW f, Become(f),
           Begun(f, m, k, q, Len(candidates(scopes, fallback, u.name)) - 1, D)
    PROVE  Moves
<1> DEFINE c == Len(candidates(scopes, fallback, u.name)) - 1
<1>1. /\ tasks' = f.tasks /\ txs' = f.txs /\ next_id' = f.next_id /\ demoted' = f.demoted
  BY ZenonT(40) DEF Become
<1>2. Begins(q, m, k, c)
  <2> HIDE DEF c
  <2>1. Begun(f, m, k, q, c, D)
    BY ZenonT(40) DEF c
  <2> QED BY ZenonT(40), <1>1, <2>1 DEF Begun, Begins
<1> QED BY ZenonT(40), <1>2 DEF Moves

(* A record question starts one task. *)
LEMMA ResolveKeeps ==
    ASSUME Facts,
           IInv, NEW q \in Qid, NEW u \in Resolves, NEW r \in BOOLEAN, resolve(q, u, r)
    PROVE  Keeps
<1> DEFINE e == start_task(E, "resolve", q, u.name, u.rtype, u.no_cache)
           f == advance(e, next_id, r)
<1>1. Ask(q) /\ Become(f) /\ q \notin asked
  BY ZenonT(40) DEF resolve, Ask
<1>2. /\ next_id \in Nat /\ next_id \notin DOMAIN tasks /\ DOMAIN tasks \subseteq Nat
      /\ scopes \in Seq(Scope) /\ fallback \in Fallback
      /\ \A k \in DOMAIN lookups : lookups[k] \in Lookup
  BY EFields DEF IInv, TypeOK, Good, IdsOK
<1>3. u.name \in Name /\ u.rtype \in RType /\ u.no_cache \in BOOLEAN
  BY ZenonT(40), EngineConstants
<1>4. /\ IsRecord(e) /\ e.cache = cache /\ e.demoted = demoted /\ e.txs = txs
      /\ e.lookups = lookups /\ e.done = done /\ e.next_id = next_id + 1
      /\ DOMAIN e.tasks = DOMAIN tasks \cup {next_id}
      /\ \A i \in DOMAIN tasks : e.tasks[i] = tasks[i]
      /\ Fresh(e.tasks[next_id], "resolve", q) /\ e.tasks[next_id].original = u.name
  <2>1. IsRecord(E) /\ E.next_id \in Nat /\ E.next_id \notin DOMAIN E.tasks
    BY ZenonT(40), <1>2, EFields
  <2>2. Started(E, e, "resolve", q, u.name)
    BY ZenonT(40), <1>3, <2>1, StartFields
  <2> HIDE DEF e
  <2> QED BY ZenonT(40), <2>2, EFields DEF Started
<1> HIDE DEF e
<1>5. Joins(tasks, e.tasks, lookups, e.lookups, {next_id}, e.next_id, q)
  <2>1. next_id < next_id + 1
    BY ZenonT(40), <1>2, IdsAfter
  <2> QED BY ZenonT(40), <1>2, <1>4, <2>1 DEF Joins
<1>6. Good(e, {next_id}, Waiting \cup {q})
  <2>1. e.next_id \in Nat /\ next_id <= e.next_id /\ {next_id} \cap DOMAIN tasks = {}
    <3>1. next_id + 1 \in Nat /\ next_id <= next_id + 1
      BY ZenonT(40), <1>2, IdsAfter
    <3> QED BY ZenonT(40), <1>2, <1>4, <3>1
  <2>2. \A k \in DOMAIN e.lookups : e.lookups[k] \in Lookup
    BY ZenonT(40), <1>2, <1>4
  <2> QED BY ZenonT(40), <1>1, <1>4, <1>5, <2>1, <2>2, JoinGood
<1>7. e.tasks[next_id].attempt = e.tasks[next_id].failures /\ e.tasks[next_id].owner.qid = q
  BY ZenonT(40), <1>4 DEF Fresh
<1> DEFINE c == Len(candidates(scopes, fallback, u.name)) - 1
           a == e.tasks[next_id].attempt + 1
<1>8. Tied(e, f, {next_id}, Waiting \cup {q}, next_id) /\ Follows(e, f, next_id, a, c)
  BY ZenonT(40), <1>2, <1>4, <1>6, <1>7, AdvanceTies
<1> HIDE DEF f, c, a
<1>9. Moves
  <2>1. Begun(e, 1, 0, q, c, {})
    <3>1. (next_id + 1)..((next_id + 1) + 0 - 1) = {} /\ e.next_id = (next_id + 1) + 0
      <4>1. next_id + 1 \in Nat
        BY ZenonT(40), <1>2, IdsAfter
      <4> QED BY ZenonT(40), <1>4, <4>1, IdsAfter
    <3> QED BY ZenonT(40), <1>4, <3>1 DEF Begun
  <2>2. PICK j \in 0..1 : Begun(f, 1, j, q, c, {next_id})
    <3> DEFINE D == {}
               m == 1
               k == 0
    <3>1. m \in Nat /\ k \in Nat /\ next_id \notin D /\ next_id \in DOMAIN e.tasks
      BY SMTT(30), <1>4
    <3>2. Begun(e, m, k, q, c, D)
      BY <2>1
    <3>3. D \cup {next_id} = {next_id} /\ {k, k + 1} \subseteq 0..1
      BY SMTT(30)
    <3> HIDE DEF D, m, k
    <3>4. Begun(f, m, k, q, c, D \cup {next_id}) \/ Begun(f, m, k + 1, q, c, D \cup {next_id})
      BY ZenonT(40), <1>2, <1>7, <1>8, <3>1, <3>2, BegunStep
    <3> QED BY ZenonT(40), <3>3, <3>4 DEF m
  <2>3. 1 \in 1..2 /\ q \notin Waiting /\ u \in Resolves \cup Lookups
    BY <1>1 DEF Waiting
  <2> QED BY ZenonT(40), <1>1, <2>2, <2>3, BegunMoves DEF c
<1> QED BY ZenonT(40), <1>1, <1>4, <1>6, <1>7, <1>8, <1>9, TiedAsk

(* An address question starts a task per family. *)
LEMMA LookupKeeps ==
    ASSUME Facts,
           IInv, NEW q \in Qid, NEW u \in Lookups, NEW r \in BOOLEAN, NEW r2 \in BOOLEAN,
           lookup(q, u, r, r2)
    PROVE  Keeps
<1> DEFINE n == next_id
           one == start_task(E, "lookup", q, u.name, u.types[1], FALSE)
           two == start_task(one, "lookup", q, u.name, u.types[2], FALSE)
           both == Len(u.types) = 2
           started == IF both THEN two ELSE one
           N == n..(started.next_id - 1)
           l == [pending |-> N, results |-> {}]
           e == [started EXCEPT !.lookups = Put(@, q, l)]
           e1 == advance(e, n, r)
           f == IF both THEN advance(e1, n + 1, r2) ELSE e1
<1>1. Ask(q) /\ Become(f) /\ q \notin asked
  BY ZenonT(40) DEF lookup, Ask
<1>2. /\ n \in Nat /\ n \notin DOMAIN tasks /\ DOMAIN tasks \subseteq Nat
      /\ \A i \in DOMAIN tasks : i < n
      /\ scopes \in Seq(Scope) /\ fallback \in Fallback
      /\ \A k \in DOMAIN lookups : lookups[k] \in Lookup
  BY SMTT(30), EFields DEF IInv, TypeOK, Good, IdsOK
<1>3. /\ u.name \in Name /\ u.types[1] \in RType /\ (both => u.types[2] \in RType)
      /\ "lookup" \in {"resolve", "lookup"} /\ FALSE \in BOOLEAN
  <2>1. u.name \in Name /\ u.types \in {<<"A">>, <<"AAAA">>, <<"A", "AAAA">>}
    BY ZenonT(40), EngineConstants
  <2> QED BY <2>1 DEF RType
<1>4. /\ IsRecord(one) /\ one.cache = cache /\ one.demoted = demoted /\ one.txs = txs
      /\ one.lookups = lookups /\ one.done = done /\ one.next_id = n + 1
      /\ DOMAIN one.tasks = DOMAIN tasks \cup {n}
      /\ \A i \in DOMAIN tasks : one.tasks[i] = tasks[i]
      /\ Fresh(one.tasks[n], "lookup", q) /\ one.tasks[n].original = u.name
  <2>1. IsRecord(E) /\ E.next_id \in Nat /\ E.next_id \notin DOMAIN E.tasks
    BY ZenonT(40), <1>2, EFields
  <2>2. Started(E, one, "lookup", q, u.name)
    BY ZenonT(40), <1>3, <2>1, StartFields
  <2> HIDE DEF one
  <2> QED BY ZenonT(40), <2>2, EFields DEF Started
<1>5. both =>
      /\ IsRecord(two) /\ two.cache = cache /\ two.demoted = demoted /\ two.txs = txs
      /\ two.lookups = lookups /\ two.done = done /\ two.next_id = n + 2
      /\ DOMAIN two.tasks = DOMAIN tasks \cup {n, n + 1}
      /\ \A i \in DOMAIN tasks : two.tasks[i] = tasks[i]
      /\ Fresh(two.tasks[n], "lookup", q) /\ Fresh(two.tasks[n + 1], "lookup", q)
      /\ two.tasks[n].original = u.name /\ two.tasks[n + 1].original = u.name
  <2> SUFFICES ASSUME both
               PROVE  /\ IsRecord(two) /\ two.cache = cache /\ two.demoted = demoted
                      /\ two.txs = txs /\ two.lookups = lookups /\ two.done = done
                      /\ two.next_id = n + 2
                      /\ DOMAIN two.tasks = DOMAIN tasks \cup {n, n + 1}
                      /\ \A i \in DOMAIN tasks : two.tasks[i] = tasks[i]
                      /\ Fresh(two.tasks[n], "lookup", q) /\ Fresh(two.tasks[n + 1], "lookup", q)
                      /\ two.tasks[n].original = u.name /\ two.tasks[n + 1].original = u.name
    BY ZenonT(30)
  <2> HIDE DEF one, n
  <2>1. n + 1 \in Nat /\ n + 1 \notin DOMAIN tasks /\ n # n + 1 /\ (n + 1) + 1 = n + 2
    BY ZenonT(40), <1>2, IdsAfter
  <2>2. IsRecord(one) /\ one.next_id \in Nat /\ one.next_id \notin DOMAIN one.tasks
    BY ZenonT(40), <1>4, <2>1
  <2>3. Started(one, two, "lookup", q, u.name)
    BY ZenonT(40), <1>3, <2>2, StartFields
  <2> HIDE DEF two
  <2>4. DOMAIN two.tasks = (DOMAIN tasks \cup {n}) \cup {n + 1}
        /\ \A i \in DOMAIN tasks \cup {n} : two.tasks[i] = one.tasks[i]
    BY ZenonT(40), <1>4, <2>3 DEF Started
  <2>5. two.tasks[n] = one.tasks[n] /\ \A i \in DOMAIN tasks : two.tasks[i] = tasks[i]
    BY ZenonT(40), <1>4, <2>4
  <2>6. Fresh(two.tasks[n + 1], "lookup", q) /\ two.tasks[n + 1].original = u.name
        /\ two.next_id = n + 2 /\ IsRecord(two)
        /\ two.cache = one.cache /\ two.demoted = one.demoted /\ two.txs = one.txs
        /\ two.lookups = one.lookups /\ two.done = one.done
    BY ZenonT(40), <1>4, <2>1, <2>3 DEF Started
  <2> QED BY ZenonT(40), <1>4, <2>4, <2>5, <2>6
<1> HIDE DEF one, two
<1>6. /\ IsRecord(started) /\ started.cache = cache /\ started.demoted = demoted
      /\ started.txs = txs /\ started.lookups = lookups /\ started.done = done
      /\ started.next_id = IF both THEN n + 2 ELSE n + 1
      /\ DOMAIN started.tasks = DOMAIN tasks \cup N
      /\ \A i \in DOMAIN tasks : started.tasks[i] = tasks[i]
      /\ \A i \in N : Fresh(started.tasks[i], "lookup", q) /\ started.tasks[i].original = u.name
      /\ N = IF both THEN {n, n + 1} ELSE {n}
  <2> HIDE DEF n
  <2>1. CASE both
    <3>1. started = two
      BY ZenonT(40), <2>1
    <3>2. N = {n, n + 1}
      BY ZenonT(40), <1>2, <1>5, <2>1, <3>1, IdsAfter
    <3> QED BY ZenonT(40), <1>5, <2>1, <3>1, <3>2
  <2>2. CASE ~both
    <3>1. started = one
      BY ZenonT(40), <2>2
    <3>2. N = {n}
      BY ZenonT(40), <1>2, <1>4, <2>2, <3>1, IdsAfter
    <3> QED BY ZenonT(40), <1>4, <2>2, <3>1, <3>2
  <2> QED BY ZenonT(40), <2>1, <2>2
<1> HIDE DEF started, N, l
<1>7. /\ IsRecord(e) /\ e.cache = cache /\ e.demoted = demoted /\ e.txs = txs
      /\ e.done = done /\ e.next_id = started.next_id /\ e.tasks = started.tasks
      /\ e.lookups = Put(lookups, q, l)
  BY ZenonT(40), <1>6 DEF IsRecord
<1> HIDE DEF e
<1>8. /\ DOMAIN e.lookups = DOMAIN lookups \cup {q} /\ e.lookups[q] = l
      /\ \A k \in DOMAIN lookups : e.lookups[k] = lookups[k]
  <2>1. q \notin DOMAIN lookups
    BY ZenonT(40), <1>1, EFields DEF IInv, Good, OwnersOK, Waiting
  <2> QED BY ZenonT(40), <1>7, <2>1 DEF Put
<1>9. N \subseteq Nat /\ N # {} /\ n \in N /\ N \cap DOMAIN tasks = {}
      /\ e.next_id \in Nat /\ n <= e.next_id /\ \A i \in N : i < e.next_id
  <2> HIDE DEF n
  <2>1. e.next_id = IF both THEN n + 2 ELSE n + 1
    BY ZenonT(40), <1>6, <1>7
  <2>2. N = IF both THEN {n, n + 1} ELSE {n}
    BY ZenonT(40), <1>6
  <2>3. n + 1 \notin DOMAIN tasks /\ n + 1 \in Nat /\ n + 2 \in Nat /\ n < n + 1
        /\ n < n + 2 /\ n + 1 < n + 2 /\ n <= n + 1 /\ n <= n + 2
    BY ZenonT(40), <1>2, IdsAfter
  <2>4. CASE both
    BY ZenonT(40), <1>2, <2>1, <2>2, <2>3, <2>4
  <2>5. CASE ~both
    BY ZenonT(40), <1>2, <2>1, <2>2, <2>3, <2>5
  <2> QED BY ZenonT(40), <2>4, <2>5
<1>10. l \in Lookup /\ l.pending = N
  BY ZenonT(40), <1>9 DEF Lookup, l
<1>11. Good(e, N, Waiting \cup {q})
  <2>1. Joins(tasks, e.tasks, lookups, e.lookups, N, e.next_id, q)
    BY ZenonT(40), <1>6, <1>7, <1>8, <1>9, <1>10 DEF Joins
  <2>2. \A k \in DOMAIN e.lookups : e.lookups[k] \in Lookup
    BY ZenonT(40), <1>2, <1>8, <1>10
  <2> QED BY ZenonT(40), <1>1, <1>7, <1>9, <2>1, <2>2, JoinGood
<1>12. \A i \in N : e.tasks[i].attempt = e.tasks[i].failures /\ e.tasks[i].owner.qid = q
  BY ZenonT(40), <1>6, <1>7 DEF Fresh
<1> DEFINE c == Len(candidates(scopes, fallback, u.name)) - 1
           m == IF both THEN 2 ELSE 1
<1>13. \A i \in N : e.tasks[i].original = u.name
  BY ZenonT(40), <1>6, <1>7
<1>14. Tied(e, e1, N, Waiting \cup {q}, n) /\ Follows(e, e1, n, e.tasks[n].attempt + 1, c)
  BY ZenonT(40), <1>2, <1>9, <1>11, <1>12, <1>13, AdvanceTies
<1> HIDE DEF e1, c
<1>15. m \in 1..2 /\ u \in Resolves \cup Lookups /\ q \notin Waiting
  BY <1>1 DEF Waiting
<1>16. Begun(e, m, 0, q, c, {})
  <2>1. (n + m)..((n + m) + 0 - 1) = {} /\ e.next_id = (n + m) + 0
    <3>1. n + m \in Nat /\ e.next_id = n + m
      BY ZenonT(40), <1>2, <1>6, <1>7, IdsAfter
    <3> QED BY ZenonT(40), <3>1, IdsAfter
  <2> HIDE DEF m
  <2>2. \A i \in DOMAIN tasks : i \in DOMAIN e.tasks /\ e.tasks[i] = tasks[i]
    BY ZenonT(40), <1>6, <1>7
  <2> QED BY ZenonT(40), <1>7, <2>1, <2>2 DEF Begun
<1>17. PICK j \in 0..1 : Begun(e1, m, j, q, c, {n})
  <2> DEFINE D == {}
             k == 0
  <2>1. m \in Nat /\ k \in Nat /\ n \notin D /\ n \in DOMAIN e.tasks
    BY ZenonT(40), <1>6, <1>7, <1>9
  <2>2. D \cup {n} = {n} /\ {k, k + 1} \subseteq 0..1 /\ Begun(e, m, k, q, c, D)
    BY SMTT(30), <1>16
  <2> HIDE DEF m, D, k
  <2>3. Begun(e1, m, k, q, c, D \cup {n}) \/ Begun(e1, m, k + 1, q, c, D \cup {n})
    BY ZenonT(40), <1>2, <1>9, <1>12, <1>14, <2>1, <2>2, BegunStep
  <2> QED BY ZenonT(40), <2>2, <2>3
<1>18. CASE ~both
  <2>1. f = e1 /\ N = {n} /\ m = 1 /\ j \in 0..m
    BY ZenonT(40), <1>6, <1>18
  <2> HIDE DEF f, m
  <2>2. Moves
    BY ZenonT(40), <1>1, <1>15, <1>17, <2>1, BegunMoves DEF c
  <2> QED BY ZenonT(40), <1>1, <1>7, <1>11, <1>12, <1>14, <2>1, <2>2, TiedAsk
<1>19. CASE both
  <2>1. N = {n, n + 1} /\ N \ {n} = {n + 1} /\ f = advance(e1, n + 1, r2)
    <3>1. n # n + 1
      BY ZenonT(40), <1>2, IdsAfter
    <3>2. N = {n, n + 1}
      BY ZenonT(40), <1>6, <1>19
    <3> QED BY ZenonT(40), <1>19, <3>1, <3>2
  <2>2. /\ e1.tasks[n + 1] = e.tasks[n + 1] /\ e.tasks[n].owner.qid = q
        /\ e.tasks[n + 1].owner.qid = q
        /\ e.tasks[n + 1].attempt = e.tasks[n + 1].failures
        /\ e.tasks[n + 1].original = u.name
    BY ZenonT(40), <1>12, <1>13, <1>14, <2>1 DEF Tied
  <2>3. ~Good(e1, {n + 1}, (Waiting \cup {q}) \ {q})
    <3> SUFFICES ASSUME Good(e1, {n + 1}, (Waiting \cup {q}) \ {q})
                 PROVE  FALSE
      OBVIOUS
    <3> DEFINE i == n + 1
              L == {i}
              W == (Waiting \cup {q}) \ {q}
    <3>1. i \in L /\ Good(e1, L, W) /\ q \notin W
      OBVIOUS
    <3>2. e1.tasks[i].owner.qid = q
      BY ZenonT(40), <2>2
    <3> HIDE DEF i, L, W
    <3>3. e1.tasks[i].owner.qid \in W
      BY ZenonT(40), <3>1, LooseTask
    <3> QED BY ZenonT(40), <3>1, <3>2, <3>3
  <2>4. Good(e1, {n + 1}, Waiting \cup {q}) /\ e1.done = e.done
    BY ZenonT(40), <1>14, <2>1, <2>2, <2>3 DEF Tied
  <2> HIDE DEF f, m
  <2>5. e1.tasks[n + 1].attempt = e1.tasks[n + 1].failures /\ e1.tasks[n + 1].owner.qid = q
        /\ e1.tasks[n + 1].original = u.name
    BY ZenonT(40), <2>2
  <2> DEFINE i == n + 1
             a == e1.tasks[i].attempt + 1
  <2>6. i \in {i} /\ Tied(e1, f, {i}, Waiting \cup {q}, i) /\ Follows(e1, f, i, a, c)
    <3> HIDE DEF n
    <3> QED BY ZenonT(40), <1>2, <2>1, <2>4, <2>5, AdvanceTies DEF c
  <2>7. m = 2 /\ m \in Nat /\ j \in Nat /\ i \notin {n} /\ i \notin DOMAIN tasks
    BY SMTT(30), <1>2, <1>19 DEF m
  <2>8. i \in DOMAIN e1.tasks
    BY ZenonT(40), <2>4 DEF Good, ExchangesOK
  <2>9. PICK k \in 0..m : Begun(f, m, k, q, c, {n} \cup {i})
    <3> HIDE DEF n, i, a
    <3>1. e1.tasks[i].owner.qid = q
      BY ZenonT(40), <2>5 DEF i
    <3>2. {j, j + 1} \subseteq 0..m
      BY SMTT(30), <2>7
    <3>3. Begun(f, m, j, q, c, {n} \cup {i}) \/ Begun(f, m, j + 1, q, c, {n} \cup {i})
      <4> DEFINE D == {n}
      <4> HIDE DEF D
      <4>1. Begun(e1, m, j, q, c, D) /\ i \notin D
        BY ZenonT(40), <1>17, <2>7 DEF D
      <4>2. Begun(f, m, j, q, c, D \cup {i}) \/ Begun(f, m, j + 1, q, c, D \cup {i})
        BY ZenonT(40), <1>2, <2>6, <2>7, <2>8, <3>1, <4>1, BegunStep DEF n
      <4> QED BY ZenonT(40), <4>2 DEF D
    <3> QED BY ZenonT(40), <3>2, <3>3
  <2>10. Moves
    BY ZenonT(40), <1>1, <1>15, <2>9, BegunMoves DEF c
  <2> QED BY ZenonT(40), <1>1, <1>7, <2>4, <2>5, <2>6, <2>10, TiedAsk
<1> QED BY ZenonT(40), <1>18, <1>19

-----------------------------------------------------------------------------
(* Configuration and time. *)

(* What is said of ids, exchanges and owners does not depend on the rest. *)
LEMMA AlikeKeeps ==
    ASSUME NEW T, NEW S, NEW X, NEW Y, NEW n, NEW K, NEW D, NEW W,
           AlikeTasks(T, S), AlikeTxs(X, Y),
           IdsOK(T, X, n), ExchangesOK(T, X, {}), OwnersOK(T, K, D, W), FlightOK(X)
    PROVE  IdsOK(S, Y, n) /\ ExchangesOK(S, Y, {}) /\ OwnersOK(S, K, D, W) /\ FlightOK(Y)
<1>1. IdsOK(S, Y, n) /\ FlightOK(Y)
  BY ZenonT(40) DEF AlikeTasks, AlikeTxs, IdsOK, FlightOK
<1>2. ExchangesOK(S, Y, {})
  <2>1. ASSUME NEW i \in DOMAIN S
        PROVE  /\ S[i].tx \in DOMAIN Y /\ Y[S[i].tx].task = i
               /\ S[i].attempt = S[i].failures + 1 /\ S[i].attempt <= MAX_ATTEMPTS
    <3>1. i \in DOMAIN T /\ i \in DOMAIN T \ {}
      BY ZenonT(40) DEF AlikeTasks
    <3>2. /\ T[i].tx \in DOMAIN X /\ X[T[i].tx].task = i
          /\ T[i].attempt = T[i].failures + 1 /\ T[i].attempt <= MAX_ATTEMPTS
      BY ZenonT(40), <3>1 DEF ExchangesOK
    <3> QED BY ZenonT(40), <3>1, <3>2 DEF AlikeTasks, AlikeTxs
  <2>2. ASSUME NEW x \in DOMAIN Y PROVE Y[x].task \in DOMAIN S /\ S[Y[x].task].tx = x
    BY DEF AlikeTasks, AlikeTxs, ExchangesOK
  <2> QED BY ZenonT(40), <2>1, <2>2 DEF ExchangesOK
<1>3. OwnersOK(S, K, D, W)
  <2>1. ASSUME NEW q \in DOMAIN K PROVE K[q].pending = {i \in DOMAIN S : S[i].owner.qid = q}
    <3>1. {i \in DOMAIN T : T[i].owner.qid = q} = {i \in DOMAIN S : S[i].owner.qid = q}
      BY ZenonT(40) DEF AlikeTasks
    <3> QED BY ZenonT(40), <3>1 DEF OwnersOK
  <2> QED BY ZenonT(40), <2>1 DEF AlikeTasks, OwnersOK
<1> QED BY ZenonT(40), <1>1, <1>2, <1>3

(* set_scopes and set_fallback: scopes outside I keep their servers. *)
LEMMA ReconfigKeeps ==
    ASSUME IInv, NEW I, NEW S \in Seq(Scope), NEW F \in Fallback,
           scopes' = S, fallback' = F, UNCHANGED <<hosts, hostname>>,
           invalidate_scope_cache(I), AgeExchanges(S, F),
           \A s : s \notin I => Configured(S, F, s) = Configured(scopes, fallback, s),
           UNCHANGED <<demoted, lookups, next_id, asked, gone, done>>
    PROVE  Keeps
<1>1. /\ IdsOK(tasks, txs, next_id) /\ ExchangesOK(tasks, txs, {}) /\ FreshOK(tasks, txs)
      /\ FlightOK(txs) /\ OwnersOK(tasks, lookups, done, Waiting) /\ CacheOK(cache)
      /\ TypeOK /\ gone \subseteq asked /\ \A q \in Qid : q \notin asked => done[q] = <<>>
  BY ZenonT(40), Parts
<1>2. /\ DOMAIN tasks \subseteq Nat /\ \A i \in DOMAIN tasks : tasks[i] \in Task
      /\ DOMAIN txs \subseteq Nat /\ \A x \in DOMAIN txs : txs[x] \in Tx
      /\ DOMAIN cache \subseteq Key /\ \A k \in DOMAIN cache : cache[k] \in Entry
  BY ZenonT(40), <1>1 DEF TypeOK
<1>3. /\ DOMAIN cache' = {k \in DOMAIN cache : k[3] \notin I}
      /\ \A k \in DOMAIN cache' : cache'[k] = cache[k]
  BY ZenonT(40) DEF invalidate_scope_cache, Restrict
<1>4. DOMAIN tasks' = DOMAIN tasks /\ DOMAIN txs' = DOMAIN txs
  BY ZenonT(40) DEF invalidate_scope_cache, AgeExchanges
<1>5. ASSUME NEW i \in DOMAIN tasks
      PROVE  /\ tasks'[i] \in Task
             /\ tasks'[i].owner = tasks[i].owner /\ tasks'[i].tx = tasks[i].tx
             /\ tasks'[i].attempt = tasks[i].attempt /\ tasks'[i].failures = tasks[i].failures
             /\ tasks'[i].scope = tasks[i].scope /\ tasks'[i].candidates = tasks[i].candidates
             /\ ~tasks'[i].cache_invalidated
                    => ~tasks[i].cache_invalidated /\ tasks[i].scope \notin I
  <2> DEFINE t == tasks[i]
             b == t.cache_invalidated \/ t.scope \in I
             t1 == tasks'[i]
  <2>1. t1 = [t EXCEPT !.cache_invalidated = b] /\ t \in Task /\ b \in BOOLEAN
    BY ZenonT(40), <1>2 DEF invalidate_scope_cache
  <2> HIDE DEF t, b, t1
  <2>2. t1 \in Task
    BY ZenonT(40), <2>1 DEF Task
  <2>3. /\ t1.owner = t.owner /\ t1.tx = t.tx /\ t1.attempt = t.attempt
        /\ t1.failures = t.failures /\ t1.scope = t.scope /\ t1.cache_invalidated = b
        /\ t1.candidates = t.candidates
    BY ZenonT(40), <2>1 DEF Task
  <2> QED BY ZenonT(40), <2>2, <2>3 DEF t, t1, b
<1>6. ASSUME NEW x \in DOMAIN txs
      PROVE  LET s == tasks[txs[x].task].scope
             IN  /\ txs'[x] \in Tx /\ txs'[x].task = txs[x].task /\ txs'[x].server = txs[x].server
                 /\ txs'[x].stale => \/ txs[x].stale
                                     \/ Configured(S, F, s) # Configured(scopes, fallback, s)
  <2> DEFINE y == txs[x]
             s == tasks[txs[x].task].scope
             b == y.stale \/ Configured(S, F, s) # Configured(scopes, fallback, s)
             y1 == txs'[x]
  <2>1. y1 = [y EXCEPT !.stale = b] /\ y \in Tx /\ b \in BOOLEAN
    BY ZenonT(40), <1>2 DEF AgeExchanges
  <2> HIDE DEF y, b, y1
  <2>2. y1 \in Tx /\ y1.task = y.task /\ y1.server = y.server /\ y1.stale = b
    BY ZenonT(40), <2>1 DEF Tx
  <2> QED BY ZenonT(40), <2>2 DEF y, y1, b
<1>7. AlikeTasks(tasks, tasks') /\ AlikeTxs(txs, txs')
  BY ZenonT(40), <1>4, <1>5, <1>6 DEF AlikeTasks, AlikeTxs
<1>8. Waiting' = Waiting
  BY ZenonT(40) DEF Waiting
<1>9. /\ IdsOK(tasks', txs', next_id') /\ ExchangesOK(tasks', txs', {})
      /\ OwnersOK(tasks', lookups', done', Waiting') /\ FlightOK(txs')
  <2>1. /\ IdsOK(tasks', txs', next_id) /\ ExchangesOK(tasks', txs', {})
        /\ OwnersOK(tasks', lookups, done, Waiting) /\ FlightOK(txs')
    BY ZenonT(40), <1>1, <1>7, AlikeKeeps
  <2> QED BY ZenonT(40), <1>8, <2>1
<1>10. FreshOK(tasks, txs)'
  <2>1. ASSUME NEW x \in DOMAIN txs, ~tasks'[txs[x].task].cache_invalidated
        PROVE  /\ ~txs'[x].stale
               /\ txs'[x].server \in Range(Configured(S, F, tasks'[txs[x].task].scope))
    <3>1. txs[x].task \in DOMAIN tasks
      BY ZenonT(40), <1>1 DEF ExchangesOK
    <3>2. /\ ~tasks[txs[x].task].cache_invalidated /\ tasks[txs[x].task].scope \notin I
          /\ tasks'[txs[x].task].scope = tasks[txs[x].task].scope
      BY ZenonT(40), <1>5, <2>1, <3>1
    <3>3. /\ ~txs[x].stale
          /\ txs[x].server \in Range(Configured(scopes, fallback, tasks[txs[x].task].scope))
      BY ZenonT(40), <1>1, <3>2 DEF FreshOK
    <3> QED BY ZenonT(40), <1>6, <3>2, <3>3
  <2>2. \A x \in DOMAIN txs' :
            \/ tasks'[txs'[x].task].cache_invalidated
            \/ /\ ~txs'[x].stale
               /\ txs'[x].server \in Range(Configured(S, F, tasks'[txs'[x].task].scope))
    BY ZenonT(40), <1>4, <1>6, <2>1
  <2> QED BY ZenonT(40), <2>2 DEF FreshOK
<1>11. CacheOK(cache)'
  <2>1. \A k \in DOMAIN cache' :
            ~cache'[k].stale /\ cache'[k].server \in Range(Configured(S, F, k[3]))
    BY ZenonT(40), <1>1, <1>3 DEF CacheOK
  <2> QED BY ZenonT(40), <2>1 DEF CacheOK
<1>12. TypeOK'
  <2>1. DOMAIN cache' \subseteq Key /\ \A k \in DOMAIN cache' : cache'[k] \in Entry
    BY ZenonT(40), <1>2, <1>3
  <2>2. DOMAIN tasks' \subseteq Nat /\ \A i \in DOMAIN tasks' : tasks'[i] \in Task
    BY ZenonT(40), <1>2, <1>4, <1>5
  <2>3. DOMAIN txs' \subseteq Nat /\ \A x \in DOMAIN txs' : txs'[x] \in Tx
    BY ZenonT(40), <1>2, <1>4, <1>6
  <2>4. /\ hosts' = hosts /\ hostname' = hostname /\ demoted' = demoted /\ lookups' = lookups
        /\ next_id' = next_id /\ asked' = asked /\ gone' = gone /\ done' = done
    BY ZenonT(40)
  <2> QED BY ZenonT(40), <1>1, <2>1, <2>2, <2>3, <2>4 DEF TypeOK
<1>13. gone' \subseteq asked' /\ \A q \in Qid : q \notin asked' => done'[q] = <<>>
  BY ZenonT(40), <1>1
<1>14. IInv'
  BY ZenonT(40), <1>9, <1>10, <1>11, <1>12, <1>13, Assemble
<1>15. Moves
  BY ZenonT(40), <1>7 DEF Moves, Quiet
<1> QED BY ZenonT(40), <1>14, <1>15 DEF Keeps, Promise!vars

(* A scope that set_scopes does not invalidate keeps its servers. *)
LEMMA InvalidatedRest ==
    ASSUME Facts,
           scopes \in Seq(Scope), NEW S \in Seq(Scope), NEW s, s \notin Invalidated(S)
    PROVE  Configured(S, fallback, s) = Configured(scopes, fallback, s)
<1> DEFINE I == {i \in DOMAIN S : S[i].id = s}
           J == {i \in DOMAIN scopes : scopes[i].id = s}
<1>1. CASE s = FALLBACK_SCOPE
  BY ZenonT(40), <1>1 DEF Configured
<1>2. CASE s # FALLBACK_SCOPE /\ I = {}
  <2>1. \A k \in DOMAIN S : S[k].id # s
    BY ZenonT(40), <1>2
  <2>2. J = {}
    BY ZenonT(40), <2>1 DEF Invalidated
  <2> QED BY ZenonT(40), <1>2, <2>2 DEF Configured
<1>3. CASE s # FALLBACK_SCOPE /\ I # {}
  <2>1. I \subseteq Nat
    OBVIOUS
  <2>2. Min(I) \in I
    <3> HIDE DEF I
    <3> QED BY ZenonT(40), <1>3, <2>1, LeastMember
  <2>3. Configured(scopes, fallback, s) = S[Min(I)].servers
    <3> DEFINE j == Min(I)
    <3>1. j \in DOMAIN S /\ S[j].id = s
      BY ZenonT(40), <2>2
    <3> HIDE DEF j, I
    <3>2. Configured(scopes, fallback, S[j].id) = S[j].servers
      BY ZenonT(40), <3>1 DEF Invalidated
    <3> QED BY ZenonT(40), <3>1, <3>2 DEF j
  <2>4. Configured(S, fallback, s) = S[Min(I)].servers
    BY ZenonT(40), <1>3 DEF Configured
  <2> QED BY <2>3, <2>4
<1> QED BY ZenonT(40), <1>1, <1>2, <1>3

(* A new snapshot. *)
LEMMA SetScopesKeeps ==
    ASSUME Facts,
           IInv, NEW S \in Snapshots, set_scopes(S)
    PROVE  Keeps
<1>1. scopes \in Seq(Scope) /\ S \in Seq(Scope) /\ fallback \in Fallback
  BY EngineConstants DEF IInv, TypeOK
<1>2. \A s : s \notin Invalidated(S) => Configured(S, fallback, s) = Configured(scopes, fallback, s)
  BY ZenonT(40), <1>1, InvalidatedRest
<1>3. /\ scopes' = S /\ fallback' = fallback /\ UNCHANGED <<hosts, hostname>>
      /\ invalidate_scope_cache(Invalidated(S)) /\ AgeExchanges(S, fallback)
      /\ UNCHANGED <<demoted, lookups, next_id, asked, gone, done>>
  BY ZenonT(40) DEF set_scopes
<1> DEFINE I == Invalidated(S)
           F == fallback
<1>4. /\ invalidate_scope_cache(I) /\ AgeExchanges(S, F) /\ F \in Fallback /\ fallback' = F
      /\ \A s : s \notin I => Configured(S, F, s) = Configured(scopes, fallback, s)
  BY ZenonT(40), <1>1, <1>2, <1>3
<1> HIDE DEF I, F
<1> QED BY ZenonT(40), <1>1, <1>3, <1>4, ReconfigKeeps

(* New fallback servers and domains. *)
LEMMA SetFallbackKeeps ==
    ASSUME IInv, NEW F \in Fallbacks, set_fallback(F)
    PROVE  Keeps
<1> DEFINE I == IF F.servers # fallback.servers THEN {FALLBACK_SCOPE} ELSE {}
           S == scopes
<1>1. S \in Seq(Scope) /\ F \in Fallback
  BY ZenonT(40), EngineConstants DEF IInv, TypeOK
<1>2. ASSUME NEW s, s \notin I PROVE Configured(S, F, s) = Configured(scopes, fallback, s)
  BY ZenonT(40), <1>2 DEF Configured
<1>3. /\ scopes' = S /\ fallback' = F /\ UNCHANGED <<hosts, hostname>>
      /\ invalidate_scope_cache(I) /\ AgeExchanges(S, F)
      /\ UNCHANGED <<demoted, lookups, next_id, asked, gone, done>>
  BY ZenonT(40) DEF set_fallback
<1>4. \A s : s \notin I => Configured(S, F, s) = Configured(scopes, fallback, s)
  BY ZenonT(40), <1>2
<1> HIDE DEF I, S
<1> QED BY ZenonT(40), <1>1, <1>3, <1>4, ReconfigKeeps

(* Flushing the cache. *)
LEMMA FlushKeeps ==
    ASSUME IInv, flush
    PROVE  Keeps
<1>1. /\ IdsOK(tasks, txs, next_id) /\ ExchangesOK(tasks, txs, {}) /\ FreshOK(tasks, txs)
      /\ FlightOK(txs) /\ OwnersOK(tasks, lookups, done, Waiting) /\ CacheOK(cache)
      /\ TypeOK /\ gone \subseteq asked /\ \A q \in Qid : q \notin asked => done[q] = <<>>
  BY ZenonT(40), Parts
<1>2. /\ DOMAIN tasks \subseteq Nat /\ \A i \in DOMAIN tasks : tasks[i] \in Task
      /\ DOMAIN txs \subseteq Nat /\ \A x \in DOMAIN txs : txs[x] \in Tx
  BY ZenonT(40), <1>1 DEF TypeOK
<1>3. /\ DOMAIN cache' = {} /\ DOMAIN tasks' = DOMAIN tasks /\ DOMAIN txs' = DOMAIN txs
      /\ UNCHANGED <<config, demoted, lookups, next_id, asked, gone, done>>
  BY DEF flush
<1>4. ASSUME NEW i \in DOMAIN tasks
      PROVE  /\ tasks'[i] \in Task /\ tasks'[i].owner = tasks[i].owner
             /\ tasks'[i].tx = tasks[i].tx /\ tasks'[i].attempt = tasks[i].attempt
             /\ tasks'[i].failures = tasks[i].failures /\ tasks'[i].cache_invalidated
             /\ tasks'[i].candidates = tasks[i].candidates
  <2> DEFINE t == tasks[i]
             t1 == tasks'[i]
  <2>1. t1 = [t EXCEPT !.cache_invalidated = TRUE] /\ t \in Task
    BY ZenonT(40), <1>2 DEF flush
  <2> HIDE DEF t, t1
  <2>2. t1 \in Task
    BY ZenonT(40), <2>1 DEF Task
  <2>3. /\ t1.owner = t.owner /\ t1.tx = t.tx /\ t1.attempt = t.attempt
        /\ t1.failures = t.failures /\ t1.cache_invalidated /\ t1.candidates = t.candidates
    BY ZenonT(40), <2>1 DEF Task
  <2> QED BY ZenonT(40), <2>2, <2>3 DEF t, t1
<1>5. ASSUME NEW x \in DOMAIN txs
      PROVE  txs'[x] \in Tx /\ txs'[x].task = txs[x].task
  <2> DEFINE y == txs[x]
             y1 == txs'[x]
  <2>1. y1 = [y EXCEPT !.stale = TRUE] /\ y \in Tx
    BY ZenonT(40), <1>2 DEF flush
  <2> HIDE DEF y, y1
  <2>2. y1 \in Tx /\ y1.task = y.task
    BY ZenonT(40), <2>1 DEF Tx
  <2> QED BY ZenonT(40), <2>2 DEF y, y1
<1>6. AlikeTasks(tasks, tasks') /\ AlikeTxs(txs, txs') /\ Waiting' = Waiting
  BY ZenonT(40), <1>3, <1>4, <1>5 DEF AlikeTasks, AlikeTxs, Waiting
<1>7. /\ IdsOK(tasks', txs', next_id') /\ ExchangesOK(tasks', txs', {})
      /\ OwnersOK(tasks', lookups', done', Waiting') /\ FlightOK(txs')
  <2>1. /\ IdsOK(tasks', txs', next_id) /\ ExchangesOK(tasks', txs', {})
        /\ OwnersOK(tasks', lookups, done, Waiting) /\ FlightOK(txs')
    BY ZenonT(40), <1>1, <1>6, AlikeKeeps
  <2> QED BY ZenonT(40), <1>3, <1>6, <2>1
<1>8. FreshOK(tasks, txs)'
  <2>1. \A x \in DOMAIN txs' : tasks'[txs'[x].task].cache_invalidated
    BY SMTT(30), <1>1, <1>3, <1>4, <1>5 DEF ExchangesOK
  <2> QED BY ZenonT(40), <2>1 DEF FreshOK
<1>9. CacheOK(cache)'
  BY ZenonT(40), <1>3 DEF CacheOK
<1>10. TypeOK'
  BY ZenonT(40), <1>1, <1>2, <1>3, <1>4, <1>5 DEF TypeOK, config
<1>11. gone' \subseteq asked' /\ \A q \in Qid : q \notin asked' => done'[q] = <<>>
  BY ZenonT(40), <1>1, <1>3
<1>12. IInv'
  BY ZenonT(40), <1>7, <1>8, <1>9, <1>10, <1>11, Assemble
<1>13. Moves
  BY ZenonT(40), <1>3, <1>6 DEF Moves, Quiet
<1> QED BY ZenonT(40), <1>3, <1>12, <1>13 DEF Keeps, Promise!vars

(* The host table, the hostname, and what time takes away. *)
LEMMA RestKeeps ==
    ASSUME IInv,
           \/ \E h \in HostTables : set_hosts(h)
           \/ \E h \in Hostnames : set_hostname(h)
           \/ \E k \in demoted : DemotionLapses(k)
           \/ \E k \in DOMAIN cache : CacheLoses(k)
           \/ UNCHANGED vars
    PROVE  Keeps
<1>1. /\ IdsOK(tasks, txs, next_id) /\ ExchangesOK(tasks, txs, {}) /\ FreshOK(tasks, txs)
      /\ FlightOK(txs) /\ OwnersOK(tasks, lookups, done, Waiting) /\ CacheOK(cache)
      /\ TypeOK /\ gone \subseteq asked /\ \A r \in Qid : r \notin asked => done[r] = <<>>
  BY ZenonT(40), Parts
<1>2. /\ UNCHANGED <<scopes, fallback, tasks, txs, lookups, next_id, asked, gone, done>>
      /\ hosts' \in HostTables /\ hostname' \in Name /\ demoted' \subseteq demoted
      /\ DOMAIN cache' \subseteq DOMAIN cache /\ \A k \in DOMAIN cache' : cache'[k] = cache[k]
  BY ZenonT(40), <1>1, EngineConstants DEF set_hosts, set_hostname, DemotionLapses, CacheLoses, vars,
     config, engine, TypeOK, Without, Restrict
<1>3. TypeOK'
  BY ZenonT(40), <1>1, <1>2 DEF TypeOK
<1>4. Waiting' = Waiting
  BY ZenonT(40), <1>2 DEF Waiting
<1>5. FreshOK(tasks, txs)' /\ CacheOK(cache)'
  BY ZenonT(40), <1>1, <1>2 DEF FreshOK, CacheOK
<1>6. IInv'
  BY ZenonT(40), <1>1, <1>2, <1>3, <1>4, <1>5, Assemble
<1>7. Moves
  BY ZenonT(40), <1>2 DEF Moves, Quiet, AlikeTasks, AlikeTxs
<1> QED BY ZenonT(40), <1>2, <1>6, <1>7 DEF Keeps, Promise!vars

-----------------------------------------------------------------------------
(* The daemon's view of the engine. *)

(* What the invariant says of exchanges and the questions that wait. *)
LEMMA ExchangeFacts ==
    ASSUME NEW T, NEW X, NEW K, NEW D, NEW W, \A i \in DOMAIN T : T[i] \in Task,
           ExchangesOK(T, X, {}), OwnersOK(T, K, D, W)
    PROVE  /\ \A x \in DOMAIN X :
                 /\ X[x].task \in DOMAIN T /\ T[X[x].task].tx = x
                 /\ T[X[x].task].attempt \in 1..MAX_ATTEMPTS
                 /\ Len(T[X[x].task].candidates) \in Nat
           /\ W = {T[X[x].task].owner.qid : x \in DOMAIN X}
<1>1. ASSUME NEW x \in DOMAIN X
      PROVE  /\ X[x].task \in DOMAIN T /\ T[X[x].task].tx = x
             /\ T[X[x].task].attempt \in 1..MAX_ATTEMPTS
             /\ Len(T[X[x].task].candidates) \in Nat /\ T[X[x].task].owner.qid \in W
  <2> DEFINE t == T[X[x].task]
  <2>1. /\ X[x].task \in DOMAIN T /\ t.tx = x /\ t.attempt = t.failures + 1
        /\ t.attempt <= MAX_ATTEMPTS
    BY ZenonT(40) DEF ExchangesOK
  <2>2. t \in Task /\ t.owner.qid \in W
    BY ZenonT(40), <2>1 DEF OwnersOK
  <2> HIDE DEF t
  <2>3. t.failures \in Nat /\ t.candidates \in Seq(Name)
    BY ZenonT(40), <2>2 DEF Task
  <2>4. t.attempt \in 1..MAX_ATTEMPTS /\ Len(t.candidates) \in Nat
    BY SMTT(30), <2>1, <2>3, EngineConstants
  <2> QED BY ZenonT(40), <2>1, <2>2, <2>4 DEF t
<1>2. ASSUME NEW q \in W PROVE \E x \in DOMAIN X : q = T[X[x].task].owner.qid
  <2>1. PICK i \in DOMAIN T : T[i].owner.qid = q
    BY ZenonT(40) DEF OwnersOK
  <2>2. T[i].tx \in DOMAIN X /\ X[T[i].tx].task = i
    BY ZenonT(40), <2>1 DEF ExchangesOK
  <2> QED BY ZenonT(40), <2>1, <2>2
<1>3. W = {T[X[x].task].owner.qid : x \in DOMAIN X}
  BY ZenonT(40), <1>1, <1>2
<1> QED BY ZenonT(40), <1>1, <1>3

(* The exchanges as the daemon sees them, in terms of tasks. *)
OutstandingOK ==
    /\ Outstanding = [x \in DOMAIN txs |-> Outstanding[x]]
    /\ \A x \in DOMAIN txs :
          LET t == tasks[txs[x].task]
              o == Outstanding[x]
          IN  /\ o = [qid |-> t.owner.qid, fuel |-> o.fuel]
              /\ o.fuel = MAX_ATTEMPTS - t.attempt + Len(t.candidates)
              /\ txs[x].task \in DOMAIN tasks /\ t.tx = x
              /\ t.attempt \in 1..MAX_ATTEMPTS /\ Len(t.candidates) \in Nat
    /\ Waiting = {Outstanding[x].qid : x \in DOMAIN txs}

(* So the invariant says. *)
LEMMA OutstandingFacts == IInv => OutstandingOK
<1> SUFFICES ASSUME IInv PROVE OutstandingOK
  OBVIOUS
<1>1. /\ \A i \in DOMAIN tasks : tasks[i] \in Task
      /\ ExchangesOK(tasks, txs, {}) /\ OwnersOK(tasks, lookups, done, Waiting)
  BY ZenonT(40), Parts DEF TypeOK
<1>2. /\ \A x \in DOMAIN txs :
            /\ txs[x].task \in DOMAIN tasks /\ tasks[txs[x].task].tx = x
            /\ tasks[txs[x].task].attempt \in 1..MAX_ATTEMPTS
            /\ Len(tasks[txs[x].task].candidates) \in Nat
      /\ Waiting = {tasks[txs[x].task].owner.qid : x \in DOMAIN txs}
  BY ZenonT(40), <1>1, ExchangeFacts
<1>3. Outstanding = [x \in DOMAIN txs |-> Outstanding[x]]
  BY ZenonT(40) DEF Outstanding
<1>4. ASSUME NEW x \in DOMAIN txs
      PROVE  LET t == tasks[txs[x].task]
                 o == Outstanding[x]
             IN  /\ o = [qid |-> t.owner.qid, fuel |-> o.fuel] /\ o.qid = t.owner.qid
                 /\ o.fuel = MAX_ATTEMPTS - t.attempt + Len(t.candidates)
  <2> DEFINE t == tasks[txs[x].task]
             o == Outstanding[x]
             a == t.owner.qid
             b == MAX_ATTEMPTS - t.attempt + Len(t.candidates)
  <2>1. o = [qid |-> a, fuel |-> b]
    BY ZenonT(40) DEF Outstanding
  <2> HIDE DEF a, b, o
  <2>2. o.qid = a /\ o.fuel = b
    BY ZenonT(40), <2>1
  <2> QED BY ZenonT(40), <2>1, <2>2 DEF a, b, o
<1>5. Waiting = {Outstanding[x].qid : x \in DOMAIN txs}
  <2>1. \A x \in DOMAIN txs : Outstanding[x].qid = tasks[txs[x].task].owner.qid
    BY ZenonT(40), <1>4
  <2> QED BY SMTT(30), <1>2, <2>1
<1> QED BY ZenonT(40), <1>2, <1>3, <1>4, <1>5 DEF OutstandingOK

(* And of the engine after a step. *)
LEMMA OutstandingNext == IInv' => OutstandingOK'
BY OutstandingFacts, PTL

(* An exchange whose task keeps its owner, attempts and candidates is the  *)
(* same to the daemon.                                                     *)
LEMMA SameView ==
    ASSUME OutstandingOK, OutstandingOK', NEW x \in DOMAIN txs, x \in DOMAIN txs',
           LET t == tasks[txs[x].task]
               u == tasks'[txs'[x].task]
           IN  u.owner = t.owner /\ u.attempt = t.attempt /\ u.candidates = t.candidates
    PROVE  Outstanding'[x] = Outstanding[x]
<1> DEFINE t == tasks[txs[x].task]
           u == tasks'[txs'[x].task]
           o == Outstanding[x]
           p == Outstanding'[x]
<1>1. /\ o = [qid |-> t.owner.qid, fuel |-> o.fuel]
      /\ o.fuel = MAX_ATTEMPTS - t.attempt + Len(t.candidates)
  BY ZenonT(40) DEF OutstandingOK
<1>2. /\ p = [qid |-> u.owner.qid, fuel |-> p.fuel]
      /\ p.fuel = MAX_ATTEMPTS - u.attempt + Len(u.candidates)
  BY ZenonT(40) DEF OutstandingOK
<1>3. u.owner = t.owner /\ u.attempt = t.attempt /\ u.candidates = t.candidates
  BY ZenonT(40)
<1> HIDE DEF t, u, o, p
<1>4. p.fuel = o.fuel
  BY ZenonT(40), <1>1, <1>2, <1>3
<1>5. p = o
  BY ZenonT(40), <1>1, <1>2, <1>3, <1>4
<1> QED BY ZenonT(40), <1>5 DEF o, p

(* Nothing happens to exchanges. *)
LEMMA QuietView ==
    ASSUME OutstandingOK, OutstandingOK', Quiet
    PROVE  /\ UNCHANGED <<Outstanding, Waiting, next_id>> /\ DOMAIN txs' = DOMAIN txs
           /\ \A x \in DOMAIN txs : Outstanding'[x] = Outstanding[x]
<1>1. DOMAIN txs' = DOMAIN txs /\ next_id' = next_id
  BY ZenonT(40) DEF Quiet, AlikeTxs
<1>2. ASSUME NEW x \in DOMAIN txs PROVE Outstanding'[x] = Outstanding[x]
  <2>1. txs'[x].task = txs[x].task /\ txs[x].task \in DOMAIN tasks
    BY ZenonT(40) DEF Quiet, AlikeTxs, OutstandingOK
  <2> DEFINE t == tasks[txs[x].task]
             u == tasks'[txs'[x].task]
  <2>2. u.owner = t.owner /\ u.attempt = t.attempt /\ u.candidates = t.candidates
    BY ZenonT(40), <2>1 DEF Quiet, AlikeTasks
  <2> QED BY ZenonT(40), <1>1, <2>2, SameView
<1>3. Outstanding' = Outstanding
  <2>1. Outstanding = [x \in DOMAIN txs |-> Outstanding[x]]
    BY ZenonT(40) DEF OutstandingOK
  <2>2. Outstanding' = [x \in DOMAIN txs' |-> Outstanding'[x]]
    BY ZenonT(40) DEF OutstandingOK
  <2> QED BY ZenonT(40), <1>1, <1>2, <2>1, <2>2
<1>4. Waiting' = Waiting
  <2>1. /\ Waiting = {Outstanding[x].qid : x \in DOMAIN txs}
        /\ Waiting' = {Outstanding'[x].qid : x \in DOMAIN txs'}
    BY ZenonT(40) DEF OutstandingOK
  <2> QED BY ZenonT(40), <1>1, <1>3, <2>1
<1> QED BY ZenonT(40), <1>1, <1>2, <1>3, <1>4

(* A question is forgotten. *)
LEMMA ForgetView ==
    ASSUME OutstandingOK, OutstandingOK', NEW q \in Qid, Forgets(q)
    PROVE  /\ View!abandon(q) /\ DOMAIN txs' \subseteq DOMAIN txs
           /\ \A x \in DOMAIN txs' : Outstanding'[x] = Outstanding[x]
<1>1. /\ Outstanding = [x \in DOMAIN txs |-> Outstanding[x]]
      /\ Outstanding' = [x \in DOMAIN txs' |-> Outstanding'[x]]
      /\ Waiting = {Outstanding[x].qid : x \in DOMAIN txs}
      /\ Waiting' = {Outstanding'[x].qid : x \in DOMAIN txs'}
  BY ZenonT(40) DEF OutstandingOK
<1>2. \A x \in DOMAIN txs : Outstanding[x].qid = tasks[txs[x].task].owner.qid
  BY DEF OutstandingOK
<1>3. DOMAIN txs' = {x \in DOMAIN txs : Outstanding[x].qid # q} /\ next_id' = next_id
  BY ZenonT(40), <1>2 DEF Forgets
<1>4. ASSUME NEW x \in DOMAIN txs' PROVE Outstanding'[x] = Outstanding[x]
  <2>1. x \in DOMAIN txs /\ txs'[x] = txs[x] /\ txs'[x].task \in DOMAIN tasks'
    BY ZenonT(40), <1>3 DEF Forgets, OutstandingOK
  <2>2. tasks'[txs'[x].task] = tasks[txs[x].task]
    BY ZenonT(40), <2>1 DEF Forgets
  <2> QED BY ZenonT(40), <2>1, <2>2, SameView
<1>5. Outstanding' = [x \in DOMAIN Outstanding \ View!ExchangesOf(q) |-> Outstanding[x]]
  <2>1. DOMAIN Outstanding \ View!ExchangesOf(q) = DOMAIN txs'
    BY ZenonT(40), <1>1, <1>3 DEF View!ExchangesOf
  <2> QED BY ZenonT(40), <1>1, <1>4, <2>1
<1>6. Waiting' = Waiting \ {q}
  BY SMTT(30), <1>1, <1>3, <1>4
<1>7. View!abandon(q)
  BY ZenonT(40), <1>3, <1>5, <1>6 DEF View!abandon, View!Restrict
<1> QED BY ZenonT(40), <1>3, <1>4, <1>7

(* An exchange ends, with its task or followed by another. *)
LEMMA ReplaceView ==
    ASSUME OutstandingOK, OutstandingOK', next_id \in Nat, next_id \notin DOMAIN txs,
           NEW x \in DOMAIN txs, Replaces(x)
    PROVE  \/ /\ View!over(x) /\ DOMAIN txs' \subseteq DOMAIN txs
              /\ \A y \in DOMAIN txs' : Outstanding'[y] = Outstanding[y]
           \/ /\ View!retry(x, Outstanding'[next_id].fuel)
              /\ DOMAIN txs' = (DOMAIN txs \ {x}) \cup {next_id}
              /\ \A y \in DOMAIN txs \ {x} : Outstanding'[y] = Outstanding[y]
<1> DEFINE id == txs[x].task
           n == next_id
           t == tasks[id]
           u == tasks'[id]
<1>1. /\ Outstanding = [y \in DOMAIN txs |-> Outstanding[y]]
      /\ Outstanding' = [y \in DOMAIN txs' |-> Outstanding'[y]]
      /\ Waiting = {Outstanding[y].qid : y \in DOMAIN txs}
      /\ Waiting' = {Outstanding'[y].qid : y \in DOMAIN txs'}
  BY ZenonT(40) DEF OutstandingOK
<1>2. \A y \in DOMAIN txs \ {x} : txs[y].task \in DOMAIN tasks \ {id}
  BY ZenonT(40) DEF OutstandingOK
<1>3. CASE Drops(tasks, tasks', id) /\ Drops(txs, txs', x) /\ next_id' = n
  <2>1. DOMAIN txs' = DOMAIN txs \ {x} /\ \A y \in DOMAIN txs' : txs'[y] = txs[y]
    BY ZenonT(40), <1>3 DEF Drops
  <2>2. ASSUME NEW y \in DOMAIN txs' PROVE Outstanding'[y] = Outstanding[y]
    <3>1. y \in DOMAIN txs /\ txs'[y] = txs[y] /\ txs[y].task \in DOMAIN tasks \ {id}
      BY ZenonT(40), <1>2, <2>1
    <3>2. tasks'[txs'[y].task] = tasks[txs[y].task]
      BY ZenonT(40), <1>3, <3>1 DEF Drops
    <3> QED BY ZenonT(40), <3>1, <3>2, SameView
  <2>3. Outstanding' = [y \in DOMAIN Outstanding \ {x} |-> Outstanding[y]]
    BY ZenonT(40), <1>1, <2>1, <2>2
  <2>4. Waiting' = IF View!ExchangesOf(Outstanding[x].qid) = {x}
                   THEN Waiting \ {Outstanding[x].qid} ELSE Waiting
    <3> DEFINE q == Outstanding[x].qid
    <3>1. View!ExchangesOf(q) = {y \in DOMAIN txs : Outstanding[y].qid = q}
      BY ZenonT(40), <1>1 DEF View!ExchangesOf
    <3>2. Waiting' = {Outstanding[y].qid : y \in DOMAIN txs \ {x}}
      BY ZenonT(40), <1>1, <2>1, <2>2
    <3> HIDE DEF q
    <3>3. CASE View!ExchangesOf(q) = {x}
      <4>1. \A y \in DOMAIN txs : Outstanding[y].qid = q <=> y = x
        BY ZenonT(40), <3>1, <3>3
      <4>2. Waiting' = Waiting \ {q}
        BY ZenonT(40), <1>1, <3>2, <4>1
      <4> QED BY ZenonT(40), <3>3, <4>2 DEF q
    <3>4. CASE View!ExchangesOf(q) # {x}
      <4>1. PICK y \in DOMAIN txs \ {x} : Outstanding[y].qid = q
        BY ZenonT(40), <3>1, <3>4 DEF q
      <4>2. Waiting' = Waiting
        BY ZenonT(40), <1>1, <3>2, <4>1 DEF q
      <4> QED BY ZenonT(40), <3>4, <4>2 DEF q
    <3> QED BY ZenonT(40), <3>3, <3>4
  <2>5. View!over(x)
    BY ZenonT(40), <1>3, <2>3, <2>4 DEF View!over, View!Restrict
  <2> QED BY ZenonT(40), <2>1, <2>2, <2>5
<1>4. CASE /\ Changes(tasks, tasks', id)
           /\ DOMAIN txs' = (DOMAIN txs \ {x}) \cup {n}
           /\ \A y \in DOMAIN txs \ {x} : txs'[y] = txs[y]
           /\ txs'[n].task = id
           /\ Spends(t, u)
           /\ next_id' = n + 1
  <2>1. ASSUME NEW y \in DOMAIN txs \ {x} PROVE Outstanding'[y] = Outstanding[y]
    <3>1. y \in DOMAIN txs' /\ txs'[y] = txs[y] /\ txs[y].task \in DOMAIN tasks \ {id}
      BY ZenonT(40), <1>2, <1>4
    <3>2. tasks'[txs'[y].task] = tasks[txs[y].task]
      BY ZenonT(40), <1>4, <3>1 DEF Changes
    <3> QED BY ZenonT(40), <3>1, <3>2, SameView
  <2> DEFINE o == Outstanding[x]
             p == Outstanding'[n]
  <2>2. /\ o = [qid |-> t.owner.qid, fuel |-> o.fuel]
        /\ o.fuel = MAX_ATTEMPTS - t.attempt + Len(t.candidates)
        /\ t.attempt \in 1..MAX_ATTEMPTS /\ Len(t.candidates) \in Nat
    BY ZenonT(40) DEF OutstandingOK
  <2>3. /\ p = [qid |-> u.owner.qid, fuel |-> p.fuel]
        /\ p.fuel = MAX_ATTEMPTS - u.attempt + Len(u.candidates)
        /\ u.attempt \in 1..MAX_ATTEMPTS /\ Len(u.candidates) \in Nat
    <3> DEFINE v == tasks'[txs'[n].task]
    <3>1. n \in DOMAIN txs' /\ v = u
      BY ZenonT(40), <1>4
    <3> HIDE DEF n, u, p
    <3>2. /\ p = [qid |-> v.owner.qid, fuel |-> p.fuel]
          /\ p.fuel = MAX_ATTEMPTS - v.attempt + Len(v.candidates)
          /\ v.attempt \in 1..MAX_ATTEMPTS /\ Len(v.candidates) \in Nat
      BY ZenonT(40), <3>1 DEF OutstandingOK, p
    <3> HIDE DEF v
    <3> QED BY ZenonT(40), <3>1, <3>2
  <2>4. u.owner = t.owner /\ Spends(t, u)
    BY ZenonT(40), <1>4 DEF Changes
  <2> HIDE DEF o, p, t, u
  <2>5. p.fuel < o.fuel
    <3>1. MAX_ATTEMPTS \in Nat
      BY ZenonT(40), EngineConstants
    <3> DEFINE a == t.attempt
               b == u.attempt
               c == Len(t.candidates)
               d == Len(u.candidates)
    <3>2. a \in 1..MAX_ATTEMPTS /\ b \in 1..MAX_ATTEMPTS /\ c \in Nat /\ d \in Nat
      BY ZenonT(40), <2>2, <2>3
    <3>3. (b = a + 1 /\ d <= c) \/ (b = a /\ d < c)
      BY ZenonT(40), <2>4 DEF Spends
    <3>4. o.fuel = MAX_ATTEMPTS - a + c /\ p.fuel = MAX_ATTEMPTS - b + d
      BY ZenonT(40), <2>2, <2>3
    <3> HIDE DEF a, b, c, d
    <3>5. MAX_ATTEMPTS - b + d < MAX_ATTEMPTS - a + c
      BY ZenonT(40), <3>1, <3>2, <3>3, FuelFalls
    <3> QED BY ZenonT(40), <3>4, <3>5
  <2>6. o.qid = t.owner.qid /\ p = [qid |-> o.qid, fuel |-> p.fuel] /\ p.qid = o.qid
    <3>1. o.qid = t.owner.qid
      BY ZenonT(40), <2>2, QuestionOf
    <3>2. p.qid = u.owner.qid
      BY ZenonT(40), <2>3, QuestionOf
    <3> QED BY ZenonT(40), <2>3, <2>4, <3>1, <3>2
  <2>7. Outstanding' = [y \in (DOMAIN Outstanding \cup {n}) \ {x} |->
                           IF y = n THEN [qid |-> Outstanding[x].qid, fuel |-> p.fuel]
                           ELSE Outstanding[y]]
    <3>1. DOMAIN txs' = (DOMAIN Outstanding \cup {n}) \ {x} /\ DOMAIN Outstanding = DOMAIN txs
      BY ZenonT(40), <1>1, <1>4
    <3>2. ASSUME NEW y \in DOMAIN txs'
          PROVE  Outstanding'[y] = IF y = n THEN [qid |-> o.qid, fuel |-> p.fuel]
                                   ELSE Outstanding[y]
      <4>1. CASE y = n
        BY ZenonT(40), <2>6, <4>1 DEF p
      <4>2. CASE y # n
        BY ZenonT(40), <2>1, <3>1, <4>2
      <4> QED BY ZenonT(40), <4>1, <4>2
    <3> QED BY ZenonT(40), <1>1, <3>1, <3>2 DEF o
  <2>8. Waiting' = Waiting
    <3>1. \A y \in DOMAIN txs \ {x} : Outstanding'[y].qid = Outstanding[y].qid
      BY ZenonT(40), <2>1
    <3>2. Outstanding'[n].qid = Outstanding[x].qid
      BY ZenonT(40), <2>6 DEF o, p
    <3> QED BY SMTT(30), <1>1, <1>4, <3>1, <3>2
  <2>9. View!retry(x, p.fuel)
    BY ZenonT(40), <1>4, <2>5, <2>7, <2>8 DEF View!retry, o
  <2> QED BY ZenonT(40), <1>4, <2>1, <2>9 DEF p
<1> QED BY ZenonT(40), <1>3, <1>4 DEF Replaces

(* A question begins. *)
LEMMA BeginView ==
    ASSUME OutstandingOK, OutstandingOK', next_id \in Nat,
           \A x \in DOMAIN txs : x \in Nat /\ x < next_id,
           NEW q \in Qid, NEW m \in 1..2, NEW k \in 0..m, NEW c \in Int, c < MaxCandidates,
           Begins(q, m, k, c)
    PROVE  /\ \E fuels \in View!Fuels : Len(fuels) <= m /\ View!ask(q, m, fuels)
           /\ \A x \in DOMAIN txs' \ DOMAIN txs : Outstanding'[x].fuel \in View!Fuel
           /\ \A x \in DOMAIN txs : x \in DOMAIN txs' /\ Outstanding'[x] = Outstanding[x]
<1> DEFINE first == next_id + m
           new == first..(first + k - 1)
           fuels == [j \in 1..k |-> Outstanding'[first + j - 1].fuel]
<1>1. /\ Outstanding = [y \in DOMAIN txs |-> Outstanding[y]]
      /\ Outstanding' = [y \in DOMAIN txs' |-> Outstanding'[y]]
      /\ Waiting = {Outstanding[y].qid : y \in DOMAIN txs}
      /\ Waiting' = {Outstanding'[y].qid : y \in DOMAIN txs'}
  BY ZenonT(40) DEF OutstandingOK
<1>2. /\ q \notin Waiting /\ DOMAIN txs' = DOMAIN txs \cup new /\ next_id' = first + k
      /\ \A i \in DOMAIN tasks : i \in DOMAIN tasks' /\ tasks'[i] = tasks[i]
      /\ \A x \in DOMAIN txs : txs'[x] = txs[x]
      /\ \A x \in new : LET u == tasks'[txs'[x].task]
                        IN  u.owner.qid = q /\ Len(u.candidates) \in 0..c
  BY ZenonT(40) DEF Begins
<1>3. first \in Nat /\ k \in Nat /\ new \cap DOMAIN txs = {}
  OBVIOUS
<1> HIDE DEF first, new
<1>4. ASSUME NEW x \in DOMAIN txs PROVE x \in DOMAIN txs' /\ Outstanding'[x] = Outstanding[x]
  <2>1. x \in DOMAIN txs' /\ txs'[x] = txs[x] /\ txs[x].task \in DOMAIN tasks
    BY ZenonT(40), <1>2 DEF OutstandingOK
  <2>2. tasks'[txs'[x].task] = tasks[txs[x].task]
    BY ZenonT(40), <1>2, <2>1
  <2> QED BY ZenonT(40), <2>1, <2>2, SameView
<1>5. ASSUME NEW x \in new
      PROVE  /\ Outstanding'[x] = [qid |-> q, fuel |-> Outstanding'[x].fuel]
             /\ Outstanding'[x].qid = q /\ Outstanding'[x].fuel \in View!Fuel
  <2> DEFINE u == tasks'[txs'[x].task]
             o == Outstanding'[x]
             a == u.attempt
             d == Len(u.candidates)
  <2>1. /\ o = [qid |-> u.owner.qid, fuel |-> o.fuel] /\ o.fuel = MAX_ATTEMPTS - a + d
        /\ a \in 1..MAX_ATTEMPTS /\ d \in Nat
    <3>1. x \in DOMAIN txs'
      BY ZenonT(40), <1>2
    <3> QED BY ZenonT(40), <3>1 DEF OutstandingOK
  <2>2. u.owner.qid = q /\ d \in 0..c
    BY ZenonT(40), <1>2
  <2>3. MAX_ATTEMPTS \in Nat /\ MaxCandidates \in Nat
    BY ZenonT(40), EngineConstants, ExchangesConstants
  <2> HIDE DEF u, o, a, d
  <2>4. o.fuel \in 0..(MAX_ATTEMPTS + MaxCandidates)
    <3>1. d <= MaxCandidates
      BY SMTT(30), <2>2, <2>3
    <3>2. MAX_ATTEMPTS - a + d \in 0..(MAX_ATTEMPTS + MaxCandidates)
      BY ZenonT(40), <2>1, <2>3, <3>1, FuelBounded
    <3> QED BY ZenonT(40), <2>1, <3>2
  <2>5. o = [qid |-> q, fuel |-> o.fuel]
    BY ZenonT(40), <2>1, <2>2
  <2>6. o.qid = q
    BY ZenonT(40), <2>5, QuestionOf
  <2> QED BY ZenonT(40), <2>4, <2>5, <2>6 DEF o, View!Fuel
<1>6. Len(fuels) = k /\ \A x \in new : fuels[x - first + 1] = Outstanding'[x].fuel
  <2>1. Len(fuels) = k
    BY SMTT(30), <1>3
  <2>2. ASSUME NEW x \in new PROVE fuels[x - first + 1] = Outstanding'[x].fuel
    <3>1. x - first + 1 \in 1..k /\ first + (x - first + 1) - 1 = x
      BY SMTT(30), <1>3 DEF new
    <3> QED BY ZenonT(40), <3>1
  <2> QED BY ZenonT(40), <2>1, <2>2
<1>7. fuels \in View!Fuels
  <2>1. \A j \in 1..k : fuels[j] \in View!Fuel
    <3>1. \A j \in 1..k : first + j - 1 \in new
      BY SMTT(30), <1>3 DEF new
    <3> QED BY ZenonT(40), <1>5, <3>1
  <2>2. CASE k = 0
    BY SMTT(30), <2>2 DEF View!Fuels
  <2>3. CASE k = 1
    <3>1. fuels = <<fuels[1]>> /\ 1 \in 1..k
      BY <2>3
    <3> QED BY ZenonT(40), <2>1, <3>1 DEF View!Fuels
  <2>4. CASE k = 2
    <3>1. fuels = <<fuels[1], fuels[2]>> /\ 1 \in 1..k /\ 2 \in 1..k
      BY <2>4
    <3> QED BY ZenonT(40), <2>1, <3>1 DEF View!Fuels
  <2> QED BY SMTT(30), <2>2, <2>3, <2>4
<1> HIDE DEF fuels
<1>8. fuels = <<>> <=> k = 0
  BY <1>3, <1>6, <1>7 DEF fuels
<1>9. Outstanding' = [x \in DOMAIN Outstanding \cup new |->
                         IF x \in new THEN [qid |-> q, fuel |-> fuels[x - first + 1]]
                         ELSE Outstanding[x]]
  <2>1. DOMAIN txs' = DOMAIN Outstanding \cup new /\ DOMAIN Outstanding = DOMAIN txs
    BY ZenonT(40), <1>1, <1>2
  <2>2. ASSUME NEW x \in DOMAIN txs'
        PROVE  Outstanding'[x] = IF x \in new THEN [qid |-> q, fuel |-> fuels[x - first + 1]]
                                 ELSE Outstanding[x]
    <3>1. CASE x \in new
      BY ZenonT(40), <1>5, <1>6, <3>1
    <3>2. CASE x \notin new
      BY ZenonT(40), <1>4, <2>1, <3>2
    <3> QED BY ZenonT(40), <3>1, <3>2
  <2> QED BY ZenonT(40), <1>1, <2>1, <2>2
<1>10. Waiting' = IF fuels = <<>> THEN Waiting ELSE Waiting \cup {q}
  <2>1. new = {} <=> k = 0
    BY SMTT(30), <1>3 DEF new
  <2>2. Waiting' = Waiting \cup {Outstanding'[x].qid : x \in new}
    BY SMTT(30), <1>1, <1>2, <1>4
  <2>3. CASE k = 0
    BY ZenonT(40), <1>8, <2>1, <2>2, <2>3
  <2>4. CASE k # 0
    <3>1. {Outstanding'[x].qid : x \in new} = {q}
      BY ZenonT(40), <1>5, <2>1, <2>4
    <3> QED BY ZenonT(40), <1>8, <2>2, <2>4, <3>1
  <2> QED BY ZenonT(40), <2>3, <2>4
<1>11. View!ask(q, m, fuels)
  <2>1. first + Len(fuels) - 1 = first + k - 1 /\ next_id' = first + Len(fuels)
    BY ZenonT(40), <1>2, <1>6
  <2> QED BY ZenonT(40), <1>2, <1>9, <1>10, <2>1 DEF View!ask, new, first
<1>12. \A x \in DOMAIN txs' \ DOMAIN txs : Outstanding'[x].fuel \in View!Fuel
  BY ZenonT(40), <1>2, <1>5
<1>13. Len(fuels) <= m
  BY SMTT(30), <1>6
<1> QED BY ZenonT(40), <1>4, <1>7, <1>11, <1>12, <1>13

(* The configuration is one that was set. *)
LEMMA ConfigSet ==
    ASSUME scopes \in Snapshots, fallback \in Fallbacks, [Next]_vars
    PROVE  scopes' \in Snapshots /\ fallback' \in Fallbacks
<1>1. CASE Configure
  BY ZenonT(40), <1>1 DEF Configure, set_scopes, set_fallback, set_hosts, set_hostname, flush, config
<1>2. ASSUME NEW q \in Qid, Question(q) PROVE UNCHANGED config
  BY ZenonT(40), <1>2 DEF Question, ask_unparsed, resolve, lookup, abandon, Ask
<1>3. ASSUME NEW x \in DOMAIN txs, Network(x) PROVE UNCHANGED config
  BY ZenonT(40), <1>3 DEF Network, received_truncated, received_answer, received_error,
     local_failed
<1>4. CASE tick
  BY ZenonT(40), <1>4 DEF tick, failed, config
<1>5. CASE \E k \in demoted : DemotionLapses(k)
  BY ZenonT(40), <1>5 DEF DemotionLapses, config
<1>6. CASE \E k \in DOMAIN cache : CacheLoses(k)
  BY ZenonT(40), <1>6 DEF CacheLoses, config
<1>7. CASE UNCHANGED vars
  BY ZenonT(40), <1>7 DEF vars, config
<1>8. UNCHANGED config => scopes' \in Snapshots /\ fallback' \in Fallbacks
  BY ZenonT(40) DEF config
<1> QED BY ZenonT(40), <1>1, <1>2, <1>3, <1>4, <1>5, <1>6, <1>7, <1>8 DEF Next

=============================================================================
