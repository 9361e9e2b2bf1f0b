---------------------------- MODULE EngineProofs ----------------------------
(***************************************************************************)
(* What the engine's functions do to its invariant.  The internal ones     *)
(* each tie up a loose task, by a new exchange or by settling it; so       *)
(* replies, failures, timeouts and abandoned questions preserve the        *)
(* invariant, and what callers see of them is a step of Resolver or        *)
(* nothing.                                                                *)
(***************************************************************************)
EXTENDS EngineInv, TLAPS

-----------------------------------------------------------------------------
(* Ending a task: what settle does to the invariant. *)

(* What the invariant says of one task. *)
LEMMA TaskFields ==
    ASSUME NEW t \in Task
    PROVE  /\ t.owner.kind \in {"resolve", "lookup"} /\ t.owner.qid \in Qid
           /\ t.original \in Name /\ t.rtype \in RType /\ t.no_cache \in BOOLEAN
           /\ t.cache_invalidated \in BOOLEAN /\ t.candidates \in Seq(Name)
           /\ t.current \in Name /\ t.scope \in AnyScope /\ t.attempt \in Nat
           /\ t.tried \in Seq(Server) /\ t.tx \in Nat /\ t.failures \in Nat
BY DEF Task, Owner

(* An exchange that did not fail charges its task nothing. *)
LEMMA NothingAdded == \A n \in Nat : n + 0 = n
OBVIOUS

(* A number is not below itself. *)
LEMMA NotBelow == \A n \in Nat : ~(n < n)
OBVIOUS

(* What is below stays below. *)
LEMMA BelowStill == \A i, n, m \in Nat : i < n /\ n <= m => i < m
OBVIOUS

(* The ids that follow n. *)
LEMMA IdsAfter ==
    \A n \in Nat : /\ n + 1 \in Nat /\ n + 2 \in Nat /\ (n + 1) + 1 = n + 2
                   /\ n < n + 1 /\ n < n + 2 /\ n + 1 < n + 2 /\ n # n + 1
                   /\ n <= n + 1 /\ n <= n + 2 /\ ~(n + 1 < n)
                   /\ n..((n + 1) - 1) = {n} /\ n..((n + 2) - 1) = {n, n + 1}
                   /\ n + 0 = n /\ n..(n + 0 - 1) = {}
OBVIOUS

(* An attempt more, or a candidate less, leaves less fuel. *)
LEMMA FuelFalls ==
    \A m, c, d \in Nat : \A a, b \in 1..m :
        (b = a + 1 /\ d <= c) \/ (b = a /\ d < c) => m - b + d < m - a + c
OBVIOUS

(* Fuel is bounded. *)
LEMMA FuelBounded ==
    \A m, d, c \in Nat : \A a \in 1..m : d <= c => m - a + d \in 0..(m + c)
OBVIOUS

(* Fuel is a number. *)
LEMMA FuelNat == \A m, d \in Nat : \A a \in 1..m : m - a + d \in Nat
OBVIOUS

(* Less of it stays in bounds. *)
LEMMA FuelLess ==
    \A f, m, c \in Nat : \A g \in 0..(m + c) : f < g => f \in 0..(m + c)
OBVIOUS

(* One candidate is taken at once. *)
LEMMA CandidatesLeft ==
    \A n, m \in Nat : n <= m => n - 1 \in Int /\ n - 1 < m
OBVIOUS

(* The length of a sequence. *)
LEMMA LenNat ==
    ASSUME NEW X, NEW s \in Seq(X)
    PROVE  Len(s) \in Nat
OBVIOUS

(* The question of an exchange. *)
LEMMA QuestionOf == \A o, q, f : o = [qid |-> q, fuel |-> f] => o.qid = q
OBVIOUS

(* What a sequence holds. *)
LEMMA MemberTyped ==
    ASSUME NEW X, NEW s \in Seq(X), NEW k \in DOMAIN s
    PROVE  s[k] \in X
OBVIOUS

(* What the invariant says of a loose task. *)
LEMMA LooseTask ==
    ASSUME NEW e, NEW L, NEW W, Good(e, L, W), NEW id \in L
    PROVE  /\ id \in DOMAIN e.tasks /\ e.tasks[id] \in Task
           /\ e.tasks[id].tx = NoTx /\ e.tasks[id].attempt <= MAX_ATTEMPTS
           /\ IsRecord(e) /\ e.next_id \in Nat /\ e.done \in [Qid -> Seq(Outcome)]
           /\ DOMAIN e.tasks \subseteq Nat /\ DOMAIN e.txs \subseteq Nat
           /\ e.tasks[id].owner.qid \in W /\ \A r \in W : r \in Qid /\ e.done[r] = <<>>
<1>1. /\ id \in DOMAIN e.tasks /\ e.tasks[id].tx = NoTx
      /\ e.tasks[id].attempt <= MAX_ATTEMPTS
  BY ZenonT(40) DEF Good, ExchangesOK
<1>2. /\ e.tasks[id] \in Task /\ IsRecord(e) /\ e.next_id \in Nat
      /\ e.done \in [Qid -> Seq(Outcome)]
      /\ DOMAIN e.tasks \subseteq Nat /\ DOMAIN e.txs \subseteq Nat
  BY ZenonT(40), <1>1 DEF Good, FieldsOK
<1>3. e.tasks[id].owner.qid \in W /\ \A r \in W : r \in Qid /\ e.done[r] = <<>>
  BY ZenonT(40), <1>1 DEF Good, OwnersOK
<1> QED BY ZenonT(40), <1>1, <1>2, <1>3

(* S is T on the domain of T. *)
Same(T, S) == DOMAIN S = DOMAIN T /\ \A i \in DOMAIN S : S[i] = T[i]

(* Without drops one key. *)
LEMMA WithoutDrops ==
    ASSUME NEW T, NEW id
    PROVE  Drops(T, Without(T, id), id)
BY DEF Drops, Without, Restrict

(* A loose task can be dropped: no exchange refers to it. *)
LEMMA DropLoose ==
    ASSUME NEW T, NEW X, NEW n, NEW L, NEW id \in L, NEW S, NEW Y,
           IdsOK(T, X, n), ExchangesOK(T, X, L), FreshOK(T, X), FlightOK(X),
           Drops(T, S, id), Same(X, Y)
    PROVE  IdsOK(S, Y, n) /\ ExchangesOK(S, Y, L \ {id}) /\ FreshOK(S, Y) /\ FlightOK(Y)
<1>1. IdsOK(S, Y, n)
  BY DEF IdsOK, Drops, Same
<1>2. \A x \in DOMAIN Y : Y[x] = X[x] /\ x \in DOMAIN X /\ X[x].task \in DOMAIN S
                          /\ S[X[x].task] = T[X[x].task]
  BY DEF ExchangesOK, Drops, Same
<1>3. ExchangesOK(S, Y, L \ {id})
  BY <1>2 DEF ExchangesOK, Drops, Same
<1>4. FreshOK(S, Y)
  BY <1>2 DEF FreshOK
<1>5. FlightOK(Y)
  BY DEF FlightOK, Same
<1> QED BY <1>1, <1>3, <1>4, <1>5

(* The task of a record question goes with its question. *)
LEMMA DropResolve ==
    ASSUME NEW T, NEW K, NEW D, NEW W, NEW id \in DOMAIN T, NEW q,
           T[id].owner.qid = q, NEW S, NEW F,
           OwnersOK(T, K, D, W), T[id].owner.kind = "resolve", Drops(T, S, id),
           \A r \in Qid \ {q} : F[r] = D[r]
    PROVE  OwnersOK(S, K, F, W \ {q})
<1>1. \A i \in DOMAIN S : S[i] = T[i] /\ i \in DOMAIN T /\ T[i].owner.qid # q
  BY DEF OwnersOK, Drops
<1>2. q \notin DOMAIN K
  BY DEF OwnersOK
<1>3. \A r \in W \ {q} : \E i \in DOMAIN S : S[i].owner.qid = r
  BY <1>1 DEF OwnersOK, Drops
<1>4. \A r \in DOMAIN K : K[r].pending = {i \in DOMAIN S : S[i].owner.qid = r}
  <2> SUFFICES ASSUME NEW r \in DOMAIN K
               PROVE  {i \in DOMAIN T : T[i].owner.qid = r} = {i \in DOMAIN S : S[i].owner.qid = r}
    BY DEF OwnersOK
  <2> QED BY <1>1, <1>2 DEF Drops
<1>5. \A r \in W \ {q} : r \in Qid /\ F[r] = <<>>
  BY DEF OwnersOK
<1>6. \A i \in DOMAIN S : /\ S[i].owner.qid \in W \ {q}
                          /\ S[i].owner.kind = "lookup" <=> S[i].owner.qid \in DOMAIN K
  BY <1>1 DEF OwnersOK
<1>7. \A i, j \in DOMAIN S :
          S[i].owner.qid = S[j].owner.qid /\ S[i].owner.kind = "resolve" => i = j
  BY <1>1 DEF OwnersOK
<1>8. \A r \in DOMAIN K : r \in W \ {q}
  BY <1>2 DEF OwnersOK
<1> QED BY <1>3, <1>4, <1>5, <1>6, <1>7, <1>8 DEF OwnersOK

(* A task of an address question goes while others remain. *)
LEMMA DropPending ==
    ASSUME NEW T, NEW K, NEW D, NEW W, NEW id \in DOMAIN T, NEW q,
           T[id].owner.qid = q, NEW S, NEW M,
           OwnersOK(T, K, D, W), T[id].owner.kind = "lookup", Drops(T, S, id),
           DOMAIN M = DOMAIN K,
           \A r \in DOMAIN K \ {q} : M[r] = K[r],
           M[q].pending = K[q].pending \ {id},
           M[q].pending # {}
    PROVE  OwnersOK(S, M, D, W)
<1>1. \A i \in DOMAIN S : S[i] = T[i] /\ i \in DOMAIN T
  BY DEF Drops
<1>2. q \in DOMAIN K /\ M[q].pending = {i \in DOMAIN S : S[i].owner.qid = q}
  BY DEF OwnersOK, Drops
<1>3. \A r \in W : \E i \in DOMAIN S : S[i].owner.qid = r
  BY <1>2 DEF OwnersOK, Drops
<1>4. ASSUME NEW r \in DOMAIN K, r # q
      PROVE  M[r].pending = {i \in DOMAIN S : S[i].owner.qid = r}
  <2>1. K[r].pending = {i \in DOMAIN T : T[i].owner.qid = r}
    BY DEF OwnersOK
  <2>2. {i \in DOMAIN T : T[i].owner.qid = r} = {i \in DOMAIN S : S[i].owner.qid = r}
    BY <1>4 DEF Drops
  <2> QED BY <1>4, <2>1, <2>2
<1>5. \A i \in DOMAIN S : /\ S[i].owner.qid \in W
                          /\ S[i].owner.kind = "lookup" <=> S[i].owner.qid \in DOMAIN M
  BY <1>1 DEF OwnersOK
<1>6. \A i, j \in DOMAIN S :
          S[i].owner.qid = S[j].owner.qid /\ S[i].owner.kind = "resolve" => i = j
  BY <1>1 DEF OwnersOK
<1> QED BY <1>2, <1>3, <1>4, <1>5, <1>6 DEF OwnersOK

(* The last task of an address question goes with its question. *)
LEMMA DropLast ==
    ASSUME NEW T, NEW K, NEW D, NEW W, NEW id \in DOMAIN T, NEW q,
           T[id].owner.qid = q, NEW S, NEW M, NEW F,
           OwnersOK(T, K, D, W), T[id].owner.kind = "lookup", Drops(T, S, id),
           Drops(K, M, q), K[q].pending \ {id} = {},
           \A r \in Qid \ {q} : F[r] = D[r]
    PROVE  OwnersOK(S, M, F, W \ {q})
<1>1. \A i \in DOMAIN S : S[i] = T[i] /\ i \in DOMAIN T /\ T[i].owner.qid # q
  BY DEF OwnersOK, Drops
<1>2. \A r \in W \ {q} : \E i \in DOMAIN S : S[i].owner.qid = r
  BY <1>1 DEF OwnersOK, Drops
<1>3. ASSUME NEW r \in DOMAIN M
      PROVE  r \in W \ {q} /\ M[r].pending = {i \in DOMAIN S : S[i].owner.qid = r}
  <2>1. r \in DOMAIN K /\ r # q /\ M[r] = K[r]
    BY DEF Drops
  <2>2. r \in W /\ K[r].pending = {i \in DOMAIN T : T[i].owner.qid = r}
    BY <2>1 DEF OwnersOK
  <2>3. {i \in DOMAIN T : T[i].owner.qid = r} = {i \in DOMAIN S : S[i].owner.qid = r}
    BY <2>1 DEF Drops
  <2> QED BY <2>1, <2>2, <2>3
<1>4. \A i \in DOMAIN S : /\ S[i].owner.qid \in W \ {q}
                          /\ S[i].owner.kind = "lookup" <=> S[i].owner.qid \in DOMAIN M
  BY <1>1 DEF OwnersOK, Drops
<1>5. \A i, j \in DOMAIN S :
          S[i].owner.qid = S[j].owner.qid /\ S[i].owner.kind = "resolve" => i = j
  BY <1>1 DEF OwnersOK
<1>6. \A r \in W \ {q} : r \in Qid /\ F[r] = <<>>
  BY DEF OwnersOK
<1> QED BY <1>2, <1>3, <1>4, <1>5, <1>6 DEF OwnersOK

(* f is e after the loose task id was tied up: its question was answered   *)
(* with one outcome or still waits, and the other loose tasks are as they  *)
(* were.                                                                   *)
Tied(e, f, L, W, id) ==
    LET q == e.tasks[id].owner.qid
    IN  /\ \/ Good(f, L \ {id}, W) /\ f.done = e.done
           \/ /\ Good(f, L \ {id}, W \ {q})
              /\ \E o \in Outcome : f.done = [e.done EXCEPT ![q] = <<o>>]
        /\ \A i \in L \ {id} : f.tasks[i] = e.tasks[i]

(* f is e after the task id was settled. *)
Settled(e, f, id) ==
    /\ Drops(e.tasks, f.tasks, id) /\ Same(e.txs, f.txs)
    /\ f.next_id = e.next_id /\ f.demoted = e.demoted

(* f is e after the task id was put to a server, with the attempts a       *)
(* charged and at most c candidate names left.                             *)
Sent(e, f, id, a, c) ==
    LET n == e.next_id
    IN  /\ Changes(e.tasks, f.tasks, id)
        /\ DOMAIN f.txs = DOMAIN e.txs \cup {n} /\ \A x \in DOMAIN e.txs : f.txs[x] = e.txs[x]
        /\ f.txs[n].task = id /\ f.next_id = n + 1 /\ f.demoted = e.demoted
        /\ f.tasks[id].attempt = a /\ Len(f.tasks[id].candidates) \in 0..c
        /\ f.txs[n].tcp \/ InTurn(f.tasks[id], f.txs[n].server, f.demoted)

(* f is e after the task id was dealt with in one of these ways. *)
Follows(e, f, id, a, c) == Settled(e, f, id) \/ Sent(e, f, id, a, c)

(* A question's first answer is its only one. *)
LEMMA FirstAnswer ==
    ASSUME NEW D \in [Qid -> Seq(Outcome)], NEW q \in Qid, D[q] = <<>>, NEW o \in Outcome
    PROVE  /\ [D EXCEPT ![q] = Append(@, o)] = [D EXCEPT ![q] = <<o>>]
           /\ [D EXCEPT ![q] = Append(@, o)] \in [Qid -> Seq(Outcome)]
OBVIOUS

(* Settling a loose task ties it up. *)
LEMMA SettleTies ==
    ASSUME NEW e, NEW L, NEW W, Good(e, L, W), NEW id \in L, NEW outcome \in Outcome
    PROVE  /\ Tied(e, settle(e, id, outcome), L, W, id)
           /\ Settled(e, settle(e, id, outcome), id)
<1> DEFINE task == e.tasks[id]
           q == task.owner.qid
           e1 == [e EXCEPT !.tasks = Without(@, id), !.txs = Without(@, task.tx)]
           l == [pending |-> e.lookups[q].pending \ {id},
                 results |-> e.lookups[q].results \cup {outcome}]
           f == settle(e, id, outcome)
<1>1. /\ id \in DOMAIN e.tasks /\ task \in Task /\ task.tx = NoTx
      /\ q \in W /\ q \in Qid /\ e.done[q] = <<>> /\ e.done \in [Qid -> Seq(Outcome)]
      /\ IsRecord(e)
  <2>1. /\ id \in DOMAIN e.tasks /\ e.tasks[id] \in Task
        /\ e.tasks[id].tx = NoTx /\ e.tasks[id].attempt <= MAX_ATTEMPTS
        /\ IsRecord(e) /\ e.next_id \in Nat /\ e.done \in [Qid -> Seq(Outcome)]
        /\ DOMAIN e.tasks \subseteq Nat /\ DOMAIN e.txs \subseteq Nat
        /\ e.tasks[id].owner.qid \in W /\ \A r \in W : r \in Qid /\ e.done[r] = <<>>
    BY ZenonT(40), LooseTask
  <2> QED BY ZenonT(40), <2>1
<1>2. Same(e.txs, Without(e.txs, task.tx))
  <2>1. task.tx \notin DOMAIN e.txs
    BY <1>1 DEF Good, IdsOK, NoTx
  <2>2. Drops(e.txs, Without(e.txs, task.tx), task.tx)
    BY WithoutDrops
  <2> QED BY <2>1, <2>2 DEF Same, Drops
<1>3. /\ Drops(e.tasks, e1.tasks, id) /\ Same(e.txs, e1.txs)
      /\ e1.cache = e.cache /\ e1.demoted = e.demoted /\ e1.lookups = e.lookups
      /\ e1.next_id = e.next_id /\ e1.done = e.done /\ IsRecord(e1)
  <2>1. e1.tasks = Without(e.tasks, id) /\ e1.txs = Without(e.txs, task.tx)
    BY ZenonT(40), <1>1 DEF IsRecord
  <2>2. /\ e1.cache = e.cache /\ e1.demoted = e.demoted /\ e1.lookups = e.lookups
        /\ e1.next_id = e.next_id /\ e1.done = e.done /\ IsRecord(e1)
    BY ZenonT(40), <1>1 DEF IsRecord
  <2> QED BY <1>2, <2>1, <2>2, WithoutDrops
<1>4. /\ task.owner.kind \in {"resolve", "lookup"}
      /\ task.owner.kind = "lookup" <=> q \in DOMAIN e.lookups
  BY <1>1, TaskFields DEF Good, OwnersOK
<1>5. f = IF task.owner.kind = "resolve" THEN Deliver(e1, q, outcome)
          ELSE IF l.pending # {} THEN [e1 EXCEPT !.lookups[q] = l]
          ELSE Deliver([e1 EXCEPT !.lookups = Without(@, q)], q, combine(l.results))
  <2>1. id \in DOMAIN e.tasks /\ (task.owner.kind = "resolve" \/ q \in DOMAIN e.lookups)
    BY <1>1, <1>4
  <2>2. CASE task.owner.kind = "resolve"
    <3>1. f = Deliver(e1, q, outcome)
      BY SMTT(30), <2>1, <2>2 DEF settle
    <3> QED BY <2>2, <3>1
  <2>3. CASE task.owner.kind # "resolve" /\ l.pending # {}
    <3>1. f = [e1 EXCEPT !.lookups[q] = l]
      BY ZenonT(30), <2>1, <2>3 DEF settle
    <3> QED BY ZenonT(30), <2>3, <3>1
  <2>4. CASE task.owner.kind # "resolve" /\ l.pending = {}
    <3>1. f = Deliver([e1 EXCEPT !.lookups = Without(@, q)], q, combine(l.results))
      BY ZenonT(40), <2>1, <2>4 DEF settle
    <3> QED BY ZenonT(40), <2>4, <3>1
  <2> QED BY ZenonT(40), <2>2, <2>3, <2>4
<1>a. /\ task = e.tasks[id] /\ e.tasks[id].owner.qid = q /\ id \in DOMAIN e.tasks
      /\ l.pending = e.lookups[q].pending \ {id} /\ OwnersOK(e.tasks, e.lookups, e.done, W)
  BY <1>1 DEF Good
<1>b. DOMAIN e.lookups \subseteq Qid /\ \A r \in DOMAIN e.lookups : e.lookups[r] \in Lookup
  BY ZenonT(40) DEF Good, FieldsOK
<1> HIDE DEF e1, l, f, task, q
<1>6. ASSUME f.tasks = e1.tasks, f.txs = e1.txs, f.cache = e.cache, f.demoted = e.demoted,
             f.next_id = e.next_id, IsRecord(f), f.done \in [Qid -> Seq(Outcome)],
             DOMAIN f.lookups \subseteq Qid,
             \A r \in DOMAIN f.lookups : f.lookups[r] \in Lookup,
             NEW V, OwnersOK(f.tasks, f.lookups, f.done, V)
      PROVE  /\ Good(f, L \ {id}, V) /\ \A i \in L \ {id} : f.tasks[i] = e.tasks[i]
             /\ Settled(e, f, id)
  <2>1. Drops(e.tasks, f.tasks, id) /\ Same(e.txs, f.txs)
    BY ZenonT(40), <1>3, <1>6
  <2>2. FieldsOK(f)
    BY SMTT(30), <1>6, <2>1 DEF Good, FieldsOK, Drops, Same
  <2>3. /\ IdsOK(f.tasks, f.txs, f.next_id) /\ ExchangesOK(f.tasks, f.txs, L \ {id})
        /\ FreshOK(f.tasks, f.txs) /\ FlightOK(f.txs)
    <3>1. /\ IdsOK(e.tasks, e.txs, e.next_id) /\ ExchangesOK(e.tasks, e.txs, L)
          /\ FreshOK(e.tasks, e.txs) /\ FlightOK(e.txs)
      BY DEF Good
    <3>2. /\ IdsOK(f.tasks, f.txs, e.next_id) /\ ExchangesOK(f.tasks, f.txs, L \ {id})
          /\ FreshOK(f.tasks, f.txs) /\ FlightOK(f.txs)
      BY ZenonT(40), <2>1, <3>1, DropLoose
    <3> QED BY <1>6, <3>2
  <2>4. \A i \in L \ {id} : f.tasks[i] = e.tasks[i]
    BY <2>1 DEF Good, ExchangesOK, Drops
  <2>5. Settled(e, f, id)
    BY ZenonT(40), <1>6, <2>1 DEF Settled
  <2> QED BY ZenonT(40), <1>6, <2>2, <2>3, <2>4, <2>5 DEF Good
<1>7. ASSUME NEW o \in Outcome, NEW D, D = [e.done EXCEPT ![q] = Append(@, o)]
      PROVE  D = [e.done EXCEPT ![q] = <<o>>] /\ D \in [Qid -> Seq(Outcome)]
  BY <1>1, <1>7, FirstAnswer
<1>8. CASE task.owner.kind = "resolve"
  <2>1. /\ f.tasks = e1.tasks /\ f.txs = e1.txs /\ f.cache = e.cache /\ f.demoted = e.demoted
        /\ f.next_id = e.next_id /\ IsRecord(f) /\ f.lookups = e.lookups
        /\ f.done = [e.done EXCEPT ![q] = Append(@, outcome)]
    BY ZenonT(40), <1>3, <1>5, <1>8 DEF IsRecord, Deliver
  <2>2. \A r \in Qid \ {q} : f.done[r] = e.done[r]
    BY <1>1, <2>1
  <2>3. OwnersOK(f.tasks, f.lookups, f.done, W \ {q})
    BY ZenonT(40), <1>a, <1>3, <1>8, <2>1, <2>2, DropResolve
  <2>4. /\ f.done \in [Qid -> Seq(Outcome)] /\ DOMAIN f.lookups \subseteq Qid
        /\ \A r \in DOMAIN f.lookups : f.lookups[r] \in Lookup
    <3>1. f.done \in [Qid -> Seq(Outcome)]
      BY ZenonT(40), <1>7, <2>1
    <3> QED BY ZenonT(30), <2>1, <3>1 DEF Good, FieldsOK
  <2>5. Good(f, L \ {id}, W \ {q}) /\ (\A i \in L \ {id} : f.tasks[i] = e.tasks[i]) /\ Settled(e, f, id)
    BY ZenonT(40), <1>6, <2>1, <2>3, <2>4
  <2> QED BY ZenonT(40), <1>a, <1>7, <2>1, <2>5 DEF Tied, f
<1>9. CASE task.owner.kind = "lookup"
  <2>1. /\ q \in DOMAIN e.lookups /\ e.lookups[q] \in Lookup /\ l \in Lookup
        /\ l.pending = e.lookups[q].pending \ {id}
    BY ZenonT(40), <1>4, <1>9 DEF Good, FieldsOK, Lookup, l
  <2>2. CASE l.pending # {}
    <3>1. /\ f.tasks = e1.tasks /\ f.txs = e1.txs /\ f.cache = e.cache /\ f.demoted = e.demoted
          /\ f.next_id = e.next_id /\ IsRecord(f)
          /\ f.lookups = [e.lookups EXCEPT ![q] = l]
          /\ f.done = e.done
      BY SMTT(30), <1>3, <1>5, <1>9, <2>2 DEF IsRecord
    <3>2. /\ DOMAIN f.lookups = DOMAIN e.lookups /\ f.lookups[q] = l
          /\ \A r \in DOMAIN e.lookups \ {q} : f.lookups[r] = e.lookups[r]
      BY SMTT(30), <2>1, <3>1
    <3>3. DOMAIN f.lookups \subseteq Qid /\ \A r \in DOMAIN f.lookups : f.lookups[r] \in Lookup
      BY <1>b, <2>1, <3>2
    <3>4. OwnersOK(f.tasks, f.lookups, f.done, W)
      BY ZenonT(40), <1>a, <1>3, <1>9, <2>1, <2>2, <3>1, <3>2, DropPending
    <3>5. Good(f, L \ {id}, W) /\ (\A i \in L \ {id} : f.tasks[i] = e.tasks[i]) /\ Settled(e, f, id)
      BY ZenonT(30), <1>1, <1>6, <3>1, <3>3, <3>4
    <3> QED BY ZenonT(40), <1>a, <3>1, <3>5 DEF Tied, f
  <2>3. CASE l.pending = {}
    <3> DEFINE o == combine(l.results)
    <3>1. /\ f.tasks = e1.tasks /\ f.txs = e1.txs /\ f.cache = e.cache /\ f.demoted = e.demoted
          /\ f.next_id = e.next_id /\ IsRecord(f)
          /\ f.lookups = Without(e.lookups, q)
          /\ f.done = [e.done EXCEPT ![q] = Append(@, o)]
      BY ZenonT(40), <1>3, <1>5, <1>9, <2>3 DEF IsRecord, Deliver
    <3>2. o \in Outcome
      BY SMTT(30) DEF combine, Outcome
    <3> HIDE DEF o
    <3>3. Drops(e.lookups, f.lookups, q) /\ \A r \in Qid \ {q} : f.done[r] = e.done[r]
      BY SMTT(30), <1>1, <3>1, WithoutDrops
    <3>4. /\ f.done \in [Qid -> Seq(Outcome)] /\ DOMAIN f.lookups \subseteq Qid
          /\ \A r \in DOMAIN f.lookups : f.lookups[r] \in Lookup
      <4>1. f.done \in [Qid -> Seq(Outcome)]
        BY ZenonT(30), <1>7, <3>1, <3>2
      <4> QED BY SMTT(30), <3>3, <4>1 DEF Good, FieldsOK, Drops
    <3>5. OwnersOK(f.tasks, f.lookups, f.done, W \ {q})
      <4>1. e.tasks[id].owner.kind = "lookup" /\ e.lookups[q].pending \ {id} = {}
        BY ZenonT(40), <1>a, <1>9, <2>3
      <4>2. Drops(e.tasks, f.tasks, id)
        BY ZenonT(40), <1>3, <3>1
      <4> QED BY ZenonT(40), <1>a, <3>3, <4>1, <4>2, DropLast
    <3>6. Good(f, L \ {id}, W \ {q}) /\ (\A i \in L \ {id} : f.tasks[i] = e.tasks[i]) /\ Settled(e, f, id)
      BY ZenonT(40), <1>6, <3>1, <3>4, <3>5
    <3> QED BY ZenonT(40), <1>a, <1>7, <3>1, <3>2, <3>6 DEF Tied, f
  <2> QED BY <2>2, <2>3
<1> QED BY <1>4, <1>8, <1>9

-----------------------------------------------------------------------------
(* The internal functions tie up a loose task. *)

(* What the proofs use of finite sets, of the natural numbers and of what  *)
(* the routing operators return.  FactsHold, in EngineTheorems, gives it.  *)
Counting ==
    /\ \A S, T : IsFiniteSet(S) /\ T \subseteq S =>
           /\ IsFiniteSet(T) /\ Cardinality(T) \in Nat
           /\ Cardinality(T) <= Cardinality(S)
    /\ \A S, x : IsFiniteSet(S) =>
           /\ IsFiniteSet(S \cup {x})
           /\ x \notin S => Cardinality(S \cup {x}) = Cardinality(S) + 1

LeastMembers ==
    \A T \in SUBSET Nat : T # {} => Min(T) \in T /\ \A m \in T : Min(T) <= m

Routes ==
    /\ \A S \in Seq(Scope), F \in Fallback, n \in Name : candidates(S, F, n) \in Seq(Name)
    /\ \A S \in Seq(Scope) : \A F, n :
           \/ \E i \in up_scopes(S) : route(S, F, n) = S[i].id
           \/ route(S, F, n) \in {FALLBACK_SCOPE, NoScope}
    /\ \A S \in Seq(Scope), F \in Fallback : \A sick, s :
           LET servers == Configured(S, F, s)
               order   == servers_of(S, F, sick, s)
           IN  /\ order \in Seq(Server)
               /\ Range(order) \subseteq Range(servers)
               /\ \A v \in Range(servers) : \E k \in DOMAIN order : order[k] = v
               /\ \A j, k \in DOMAIN order :
                      /\ server_key(order[j], s) \notin sick
                      /\ server_key(order[k], s) \in sick
                      => j < k

Facts == Counting /\ LeastMembers /\ Routes

(* The facts one at a time. *)
LEMMA CountType ==
    ASSUME Facts, NEW S, IsFiniteSet(S)
    PROVE  Cardinality(S) \in Nat
BY ZenonT(40) DEF Facts, Counting

(* A set with one member more. *)
LEMMA CountAdd ==
    ASSUME Facts, NEW S, NEW x, IsFiniteSet(S)
    PROVE  /\ IsFiniteSet(S \cup {x})
           /\ x \notin S => Cardinality(S \cup {x}) = Cardinality(S) + 1
BY ZenonT(40) DEF Facts, Counting

(* A part of a set. *)
LEMMA CountSubset ==
    ASSUME Facts, NEW S, IsFiniteSet(S), NEW T \in SUBSET S
    PROVE  IsFiniteSet(T) /\ Cardinality(T) <= Cardinality(S)
BY ZenonT(40) DEF Facts, Counting

(* Min names the least member. *)
LEMMA LeastMember ==
    ASSUME Facts, NEW T, T \subseteq Nat, T # {}
    PROVE  Min(T) \in T /\ \A m \in T : Min(T) <= m
BY ZenonT(40) DEF Facts, LeastMembers

(* Search expansion gives names. *)
LEMMA CandidatesTyped ==
    ASSUME Facts, NEW S \in Seq(Scope), NEW F \in Fallback, NEW n \in Name
    PROVE  candidates(S, F, n) \in Seq(Name)
BY ZenonT(40) DEF Facts, Routes

(* Where a name may be routed. *)
LEMMA RouteIs ==
    ASSUME Facts, NEW S \in Seq(Scope), NEW F, NEW n
    PROVE  \/ \E i \in up_scopes(S) : route(S, F, n) = S[i].id
           \/ route(S, F, n) \in {FALLBACK_SCOPE, NoScope}
BY ZenonT(40) DEF Facts, Routes

(* The servers of a scope, the healthy ones first. *)
LEMMA ServersAre ==
    ASSUME Facts, NEW S \in Seq(Scope), NEW F \in Fallback, NEW sick, NEW s
    PROVE  LET servers == Configured(S, F, s)
               order   == servers_of(S, F, sick, s)
           IN  /\ order \in Seq(Server)
               /\ Range(order) \subseteq Range(servers)
               /\ \A v \in Range(servers) : \E k \in DOMAIN order : order[k] = v
               /\ \A j, k \in DOMAIN order :
                      /\ server_key(order[j], s) \notin sick
                      /\ server_key(order[k], s) \in sick
                      => j < k
BY ZenonT(40) DEF Facts, Routes

(* What is said of owners does not depend on the other fields of a task. *)
LEMMA ChangeOwned ==
    ASSUME NEW T, NEW K, NEW D, NEW W, NEW id \in DOMAIN T, NEW S,
           OwnersOK(T, K, D, W), Changes(T, S, id)
    PROVE  OwnersOK(S, K, D, W)
<1>1. DOMAIN S = DOMAIN T /\ \A i \in DOMAIN T : S[i].owner = T[i].owner
  BY ZenonT(40) DEF Changes
<1>2. ASSUME NEW q \in DOMAIN K PROVE K[q].pending = {i \in DOMAIN S : S[i].owner.qid = q}
  <2>1. {i \in DOMAIN T : T[i].owner.qid = q} = {i \in DOMAIN S : S[i].owner.qid = q}
    BY ZenonT(40), <1>1
  <2> QED BY ZenonT(40), <2>1 DEF OwnersOK
<1> QED BY ZenonT(40), <1>1, <1>2 DEF OwnersOK

(* A loose task may change its fields. *)
LEMMA ChangeLoose ==
    ASSUME NEW T, NEW X, NEW n, NEW L, NEW id \in L, NEW S,
           IdsOK(T, X, n), ExchangesOK(T, X, L), FreshOK(T, X),
           Changes(T, S, id), S[id].tx = NoTx, S[id].attempt <= MAX_ATTEMPTS
    PROVE  IdsOK(S, X, n) /\ ExchangesOK(S, X, L) /\ FreshOK(S, X)
<1>1. IdsOK(S, X, n)
  BY ZenonT(40) DEF IdsOK, Changes
<1>2. \A x \in DOMAIN X : X[x].task \in DOMAIN T \ L /\ S[X[x].task] = T[X[x].task]
  BY DEF ExchangesOK, Changes
<1>3. ExchangesOK(S, X, L)
  BY ZenonT(40), <1>2 DEF ExchangesOK, Changes
<1>4. FreshOK(S, X)
  BY ZenonT(40), <1>2 DEF FreshOK
<1> QED BY ZenonT(40), <1>1, <1>3, <1>4

(* The loose task id starts an exchange, numbered n, within its budget and *)
(* under the ceiling.                                                      *)
Launches(T, S, X, Y, n, id) ==
    /\ Changes(T, S, id) /\ S[id].tx = n /\ S[id].attempt <= MAX_ATTEMPTS
    /\ S[id].attempt = S[id].failures + 1
    /\ DOMAIN Y = DOMAIN X \cup {n} /\ \A x \in DOMAIN X : Y[x] = X[x]
    /\ Y[n].task = id /\ ~Y[n].stale
    /\ \/ S[id].cache_invalidated
       \/ Y[n].server \in Range(Configured(scopes, fallback, S[id].scope))
    /\ Cardinality(DOMAIN X) < MAX_IN_FLIGHT

(* A loose task may start an exchange. *)
LEMMA Launch ==
    ASSUME Facts,
           NEW T, NEW X, NEW n \in Nat, NEW L, NEW id \in L, NEW S, NEW Y,
           IdsOK(T, X, n), ExchangesOK(T, X, L), FreshOK(T, X), FlightOK(X),
           DOMAIN T \subseteq Nat, DOMAIN X \subseteq Nat,
           Launches(T, S, X, Y, n, id)
    PROVE  IdsOK(S, Y, n + 1) /\ ExchangesOK(S, Y, L \ {id}) /\ FreshOK(S, Y) /\ FlightOK(Y)
<1> USE DEF Launches
<1>0. id \in DOMAIN T /\ n > 0 /\ n \notin DOMAIN X
  <2>1. id \in DOMAIN T /\ id < n /\ id \in Nat
    BY ZenonT(40) DEF ExchangesOK, IdsOK
  <2>2. n \notin DOMAIN X
    BY DEF IdsOK
  <2> QED BY <2>1, <2>2
<1>1. IdsOK(S, Y, n + 1)
  <2>1. \A i \in DOMAIN S : i < n + 1
    BY DEF IdsOK, Changes
  <2>2. ASSUME NEW x \in DOMAIN Y PROVE 0 < x /\ x < n + 1
    <3>1. CASE x = n
      BY SMTT(30), <1>0, <3>1
    <3>2. CASE x \in DOMAIN X
      <4>1. 0 < x /\ x < n /\ x \in Nat
        BY ZenonT(40), <3>2 DEF IdsOK
      <4> QED BY <4>1
    <3> QED BY ZenonT(40), <3>1, <3>2
  <2> QED BY ZenonT(40), <2>1, <2>2 DEF IdsOK
<1>2. \A x \in DOMAIN X : /\ X[x].task \in DOMAIN T \ L /\ S[X[x].task] = T[X[x].task]
                          /\ Y[x] = X[x] /\ x # n
  BY <1>0 DEF ExchangesOK, Changes
<1>3. ExchangesOK(S, Y, L \ {id})
  <2>1. \A i \in DOMAIN S \ (L \ {id}) : i # id => i \in DOMAIN T \ L /\ S[i] = T[i]
    BY ZenonT(40) DEF Changes
  <2>2. \A i \in DOMAIN S \ (L \ {id}) :
            /\ S[i].tx \in DOMAIN Y
            /\ Y[S[i].tx].task = i
            /\ S[i].attempt = S[i].failures + 1
    BY <1>0, <1>2, <2>1 DEF ExchangesOK
  <2>3. \A i \in DOMAIN S : S[i].attempt <= MAX_ATTEMPTS
    BY ZenonT(40) DEF ExchangesOK, Changes
  <2>4. \A i \in L \ {id} : i \in DOMAIN S /\ S[i].tx = NoTx
    BY ZenonT(60) DEF ExchangesOK, Changes
  <2>5. \A x \in DOMAIN Y : Y[x].task \in DOMAIN S \ (L \ {id}) /\ S[Y[x].task].tx = x
    <3>1. ASSUME NEW x \in DOMAIN X
          PROVE  Y[x].task \in DOMAIN S \ (L \ {id}) /\ S[Y[x].task].tx = x
      <4>1. X[x].task \in DOMAIN T \ L /\ S[X[x].task] = T[X[x].task] /\ Y[x] = X[x]
        BY ZenonT(40), <1>2
      <4>2. T[X[x].task].tx = x
        BY ZenonT(40) DEF ExchangesOK
      <4>3. DOMAIN S = DOMAIN T
        BY ZenonT(40) DEF Changes
      <4> QED BY ZenonT(40), <4>1, <4>2, <4>3
    <3>2. Y[n].task \in DOMAIN S \ (L \ {id}) /\ S[Y[n].task].tx = n
      BY ZenonT(40), <1>0 DEF Changes
    <3> QED BY ZenonT(40), <3>1, <3>2
  <2> QED BY ZenonT(40), <2>2, <2>3, <2>4, <2>5 DEF ExchangesOK
<1>4. FreshOK(S, Y)
  BY ZenonT(40), <1>2 DEF FreshOK
<1>5. FlightOK(Y)
  <2>1. IsFiniteSet(DOMAIN X)
    BY ZenonT(40) DEF FlightOK
  <2>2. /\ IsFiniteSet(DOMAIN X \cup {n})
        /\ Cardinality(DOMAIN X \cup {n}) = Cardinality(DOMAIN X) + 1
    BY ZenonT(40), <1>0, <2>1, CountAdd
  <2>3. Cardinality(DOMAIN X) \in Nat /\ MAX_IN_FLIGHT \in Nat
    BY ZenonT(40), <2>1, CountType, EngineConstants
  <2> QED BY <2>2, <2>3 DEF FlightOK
<1> QED BY ZenonT(40), <1>1, <1>3, <1>4, <1>5

(* e1 is e but for the fields of the loose task id. *)
Adjusted(e, e1, id) ==
    /\ IsRecord(e1)
    /\ Changes(e.tasks, e1.tasks, id)
    /\ e1.cache = e.cache /\ e1.txs = e.txs /\ e1.lookups = e.lookups
    /\ e1.next_id = e.next_id /\ e1.done = e.done /\ e1.demoted = e.demoted

(* A loose task of the engine may change its fields. *)
LEMMA AdjustLoose ==
    ASSUME NEW e, NEW L, NEW W, Good(e, L, W), NEW id \in L, NEW t \in Task,
           t.owner = e.tasks[id].owner, t.tx = NoTx, t.attempt <= MAX_ATTEMPTS,
           NEW e1, e1 = [e EXCEPT !.tasks[id] = t]
    PROVE  Good(e1, L, W) /\ Adjusted(e, e1, id) /\ e1.tasks[id] = t
<1>1. id \in DOMAIN e.tasks /\ IsRecord(e)
  BY ZenonT(40), LooseTask
<1>2. /\ IsRecord(e1) /\ e1.tasks = [e.tasks EXCEPT ![id] = t]
      /\ e1.cache = e.cache /\ e1.txs = e.txs /\ e1.lookups = e.lookups
      /\ e1.next_id = e.next_id /\ e1.done = e.done /\ e1.demoted = e.demoted
  BY ZenonT(40), <1>1 DEF IsRecord
<1>3. Changes(e.tasks, e1.tasks, id) /\ e1.tasks[id] = t
  BY <1>1, <1>2 DEF Changes
<1>4. FieldsOK(e1)
  BY ZenonT(40), <1>2, <1>3 DEF Good, FieldsOK, Changes
<1>5. /\ IdsOK(e.tasks, e.txs, e.next_id) /\ ExchangesOK(e.tasks, e.txs, L)
      /\ FreshOK(e.tasks, e.txs) /\ OwnersOK(e.tasks, e.lookups, e.done, W)
  BY ZenonT(40) DEF Good
<1>6. /\ IdsOK(e1.tasks, e.txs, e.next_id) /\ ExchangesOK(e1.tasks, e.txs, L)
      /\ FreshOK(e1.tasks, e.txs)
  BY ZenonT(40), <1>3, <1>5, ChangeLoose
<1>7. OwnersOK(e1.tasks, e.lookups, e.done, W)
  BY ZenonT(40), <1>1, <1>3, <1>5, ChangeOwned
<1> QED BY ZenonT(40), <1>2, <1>3, <1>4, <1>6, <1>7 DEF Good, Adjusted

(* Tying up an adjusted task ties it up. *)
LEMMA AdjustedTies ==
    ASSUME NEW e, NEW L, NEW W, Good(e, L, W), NEW id \in L, NEW e1, NEW f,
           Adjusted(e, e1, id), Tied(e1, f, L, W, id),
           NEW a, NEW c, Follows(e1, f, id, a, c)
    PROVE  Tied(e, f, L, W, id) /\ Follows(e, f, id, a, c)
<1>1. \A i \in L \ {id} : e1.tasks[i] = e.tasks[i]
  BY ZenonT(40) DEF Good, ExchangesOK, Adjusted, Changes
<1>2. e1.tasks[id].owner = e.tasks[id].owner /\ e1.done = e.done
  BY ZenonT(40) DEF Adjusted, Changes
<1>3. Tied(e, f, L, W, id)
  BY ZenonT(40), <1>1, <1>2 DEF Tied
<1>4. /\ DOMAIN e1.tasks = DOMAIN e.tasks /\ \A i \in DOMAIN e.tasks \ {id} : e1.tasks[i] = e.tasks[i]
      /\ e1.txs = e.txs /\ e1.next_id = e.next_id /\ e1.demoted = e.demoted
  BY ZenonT(40) DEF Adjusted, Changes
<1>5. Settled(e1, f, id) => Settled(e, f, id)
  BY ZenonT(40), <1>4 DEF Settled, Drops
<1>6. Sent(e1, f, id, a, c) => Sent(e, f, id, a, c)
  BY ZenonT(40), <1>2, <1>4 DEF Sent, Changes
<1> QED BY ZenonT(40), <1>3, <1>5, <1>6 DEF Follows

(* server may be asked for task: it is one of its scope, or the task will  *)
(* teach the cache nothing.                                                *)
MayAsk(task, server) ==
    /\ server \in Server
    /\ \/ task.cache_invalidated
       \/ server \in Range(Configured(scopes, fallback, task.scope))

(* send ties up a loose task that was charged for its failures only. *)
LEMMA SendTies ==
    ASSUME Facts,
           NEW e, NEW L, NEW W, Good(e, L, W), NEW id \in L,
           NEW server, NEW tcp \in BOOLEAN, NEW entropy,
           MayAsk(e.tasks[id], server), e.tasks[id].attempt = e.tasks[id].failures,
           tcp \/ InTurn(e.tasks[id], server, e.demoted)
    PROVE  LET f == send(e, id, server, tcp, entropy)
           IN  /\ Tied(e, f, L, W, id)
               /\ Follows(e, f, id, e.tasks[id].attempt + 1, Len(e.tasks[id].candidates))
<1> DEFINE task == e.tasks[id]
           x == e.next_id
           tx == [task |-> id, server |-> server, tcp |-> tcp, stale |-> FALSE]
           t == [task EXCEPT !.attempt = @ + 1, !.tx = x]
           f == send(e, id, server, tcp, entropy)
<1>1. /\ id \in DOMAIN e.tasks /\ task \in Task /\ task.tx = NoTx /\ IsRecord(e)
      /\ x \in Nat /\ DOMAIN e.tasks \subseteq Nat /\ DOMAIN e.txs \subseteq Nat
  BY ZenonT(40), LooseTask
<1>2. CASE Refused(e, id, entropy)
  <2>1. f = settle(e, id, "unavailable")
    BY ZenonT(40), <1>1, <1>2 DEF send
  <2> QED BY ZenonT(40), <2>1, SettleTies DEF Outcome, Follows
<1>3. CASE ~Refused(e, id, entropy)
  <2>1. f = [e EXCEPT !.next_id = x + 1, !.txs = Put(@, x, tx), !.tasks[id] = t]
    BY ZenonT(40), <1>1, <1>3 DEF send
  <2>2. /\ t \in Task /\ t.owner = task.owner /\ t.tx = x /\ t.attempt = task.attempt + 1
        /\ t.failures = task.failures /\ t.cache_invalidated = task.cache_invalidated
        /\ t.scope = task.scope /\ t.tried = task.tried /\ t.candidates = task.candidates
    <3>1. t = [task EXCEPT !.attempt = @ + 1, !.tx = x]
      BY ZenonT(40)
    <3> HIDE DEF t, task, x
    <3>2. task.attempt + 1 \in Nat
      BY <1>1 DEF Task
    <3>3. t \in Task
      BY ZenonT(40), <1>1, <3>1, <3>2 DEF Task
    <3>4. t.owner = task.owner /\ t.tx = x /\ t.attempt = task.attempt + 1
      BY ZenonT(40), <1>1, <3>1 DEF Task
    <3>5. /\ t.failures = task.failures /\ t.cache_invalidated = task.cache_invalidated
          /\ t.scope = task.scope /\ t.tried = task.tried /\ t.candidates = task.candidates
      BY ZenonT(40), <1>1, <3>1 DEF Task
    <3> QED BY ZenonT(40), <3>3, <3>4, <3>5
  <2>3. tx \in Tx /\ tx.task = id /\ ~tx.stale /\ tx.server = server /\ tx.tcp = tcp
    BY ZenonT(40), <1>1 DEF Tx, MayAsk
  <2>a. task = e.tasks[id] /\ x = e.next_id
    BY ZenonT(40)
  <2> HIDE DEF t, tx, f, task, x
  <2>4. /\ IsRecord(f) /\ f.tasks = [e.tasks EXCEPT ![id] = t] /\ f.txs = Put(e.txs, x, tx)
        /\ f.cache = e.cache /\ f.lookups = e.lookups
        /\ f.next_id = x + 1 /\ f.done = e.done /\ f.demoted = e.demoted
    BY ZenonT(40), <1>1, <2>1 DEF IsRecord
  <2>5. Changes(e.tasks, f.tasks, id) /\ f.tasks[id] = t
    BY ZenonT(40), <2>a, <1>1, <2>2, <2>4 DEF Changes
  <2>6. DOMAIN f.txs = DOMAIN e.txs \cup {x} /\ f.txs[x] = tx
    BY ZenonT(40), <2>4 DEF Put
  <2>7. \A y \in DOMAIN e.txs : f.txs[y] = e.txs[y]
    <3>1. x \notin DOMAIN e.txs
      BY ZenonT(40), <2>a, <1>1, NotBelow DEF Good, IdsOK
    <3> QED BY ZenonT(40), <2>4, <3>1 DEF Put
  <2>8. FieldsOK(f)
    <3>1. FieldsOK(e)
      BY ZenonT(40), <2>a DEF Good
    <3>2. DOMAIN f.tasks \subseteq Nat /\ \A i \in DOMAIN f.tasks : f.tasks[i] \in Task
      BY ZenonT(40), <2>2, <2>5, <3>1 DEF Changes, FieldsOK
    <3>3. DOMAIN f.txs \subseteq Nat /\ \A y \in DOMAIN f.txs : f.txs[y] \in Tx
      BY ZenonT(40), <1>1, <2>3, <2>6, <2>7, <3>1 DEF FieldsOK
    <3> QED BY SMTT(30), <1>1, <2>4, <3>1, <3>2, <3>3 DEF FieldsOK
  <2>9. /\ IdsOK(e.tasks, e.txs, x) /\ ExchangesOK(e.tasks, e.txs, L)
        /\ FreshOK(e.tasks, e.txs) /\ OwnersOK(e.tasks, e.lookups, e.done, W)
        /\ FlightOK(e.txs)
    BY ZenonT(40), <2>a DEF Good
  <2>10. t.attempt <= MAX_ATTEMPTS /\ t.attempt = t.failures + 1
    <3> DEFINE a == task.attempt
    <3>1. a \in Nat /\ MAX_ATTEMPTS \in Nat
      BY ZenonT(40), <1>1, TaskFields, EngineConstants
    <3>2. ~(a >= MAX_ATTEMPTS) /\ t.attempt = a + 1 /\ t.failures = a
      BY ZenonT(40), <2>a, <1>3, <2>2 DEF Refused
    <3> HIDE DEF a
    <3> QED BY <3>1, <3>2
  <2>11. Cardinality(DOMAIN e.txs) < MAX_IN_FLIGHT
    <3>1. Cardinality(DOMAIN e.txs) \in Nat
      BY ZenonT(40), <2>9, CountType DEF FlightOK
    <3> QED BY <1>3, <3>1, EngineConstants DEF Refused
  <2>12. \/ t.cache_invalidated
         \/ tx.server \in Range(Configured(scopes, fallback, t.scope))
    BY ZenonT(40), <2>a, <2>2, <2>3 DEF MayAsk
  <2>13. /\ IdsOK(f.tasks, f.txs, x + 1) /\ ExchangesOK(f.tasks, f.txs, L \ {id})
         /\ FreshOK(f.tasks, f.txs) /\ FlightOK(f.txs)
    <3>1. /\ f.tasks[id].tx = x /\ f.tasks[id].attempt <= MAX_ATTEMPTS
          /\ f.tasks[id].attempt = f.tasks[id].failures + 1
          /\ f.txs[x].task = id /\ ~f.txs[x].stale
          /\ \/ f.tasks[id].cache_invalidated
             \/ f.txs[x].server \in Range(Configured(scopes, fallback, f.tasks[id].scope))
      BY ZenonT(40), <2>2, <2>3, <2>5, <2>6, <2>10, <2>12
    <3>2. Launches(e.tasks, f.tasks, e.txs, f.txs, x, id)
      BY ZenonT(40), <2>5, <2>6, <2>7, <2>11, <3>1 DEF Launches
    <3> QED BY ZenonT(40), <1>1, <2>9, <3>2, Launch
  <2>14. OwnersOK(f.tasks, e.lookups, e.done, W)
    BY ZenonT(40), <1>1, <2>5, <2>9, ChangeOwned
  <2>15. Good(f, L \ {id}, W) /\ f.done = e.done
    BY ZenonT(40), <2>4, <2>8, <2>13, <2>14 DEF Good
  <2>16. \A i \in L \ {id} : f.tasks[i] = e.tasks[i]
    BY ZenonT(40), <2>5, <2>9 DEF Changes, ExchangesOK
  <2>17. f.txs[x].tcp \/ InTurn(f.tasks[id], f.txs[x].server, f.demoted)
    BY ZenonT(40), <2>a, <2>2, <2>3, <2>4, <2>5, <2>6 DEF InTurn
  <2>18. Len(t.candidates) \in 0..Len(task.candidates)
    <3>1. task.candidates \in Seq(Name)
      BY ZenonT(40), <1>1, TaskFields
    <3> QED BY <2>2, <3>1
  <2>19. Sent(e, f, id, task.attempt + 1, Len(task.candidates))
    BY ZenonT(40), <2>a, <2>2, <2>3, <2>4, <2>5, <2>6, <2>7, <2>17, <2>18 DEF Sent
  <2> QED BY ZenonT(40), <2>a, <2>15, <2>16, <2>19 DEF Tied, Follows, f
<1> QED BY ZenonT(40), <1>2, <1>3

(* next_attempt ties up a loose task that was charged for its failures     *)
(* only.                                                                   *)
LEMMA NextAttemptTies ==
    ASSUME Facts,
           NEW e, NEW L, NEW W, Good(e, L, W), NEW id \in L, NEW entropy,
           scopes \in Seq(Scope), fallback \in Fallback,
           e.tasks[id].attempt = e.tasks[id].failures
    PROVE  LET f == next_attempt(e, id, entropy)
           IN  /\ Tied(e, f, L, W, id)
               /\ Follows(e, f, id, e.tasks[id].attempt + 1, Len(e.tasks[id].candidates))
<1> DEFINE task == e.tasks[id]
           servers == servers_of(scopes, fallback, e.demoted, task.scope)
           untried == {k \in DOMAIN servers : servers[k] \notin Range(task.tried)}
           n == IF untried # {} THEN Min(untried) ELSE (Len(task.tried) % Len(servers)) + 1
           f == next_attempt(e, id, entropy)
<1>1. id \in DOMAIN e.tasks /\ task \in Task /\ task.tx = NoTx /\ task.attempt <= MAX_ATTEMPTS
  BY ZenonT(40), LooseTask
<1>2. CASE task.attempt >= MAX_ATTEMPTS \/ servers = <<>>
  <2>1. f = settle(e, id, "unavailable")
    BY ZenonT(40), <1>1, <1>2 DEF next_attempt
  <2> QED BY ZenonT(40), <2>1, SettleTies DEF Outcome, Follows
<1>3. CASE ~(task.attempt >= MAX_ATTEMPTS \/ servers = <<>>)
  <2> DEFINE server == servers[n]
             t == [task EXCEPT !.tried = Append(@, server)]
             e1 == [e EXCEPT !.tasks[id].tried = Append(@, server)]
  <2>1. f = send(e1, id, server, FALSE, entropy)
    BY ZenonT(40), <1>1, <1>3 DEF next_attempt
  <2>2. /\ servers \in Seq(Server)
        /\ Range(servers) \subseteq Range(Configured(scopes, fallback, task.scope))
        /\ \A s \in Range(Configured(scopes, fallback, task.scope)) :
               \E k \in DOMAIN servers : servers[k] = s
        /\ \A j, k \in DOMAIN servers :
               /\ server_key(servers[j], task.scope) \notin e.demoted
               /\ server_key(servers[k], task.scope) \in e.demoted
               => j < k
    BY ZenonT(40), ServersAre
  <2>3. server \in Server /\ server \in Range(Configured(scopes, fallback, task.scope))
    <3>1. task.tried \in Seq(Server)
      BY ZenonT(40), <1>1, TaskFields
    <3>2. servers # <<>>
      BY ZenonT(40), <1>3
    <3>3. untried \subseteq DOMAIN servers
      BY ZenonT(40)
    <3> HIDE DEF task, servers, untried
    <3>4. DOMAIN servers = 1..Len(servers) /\ Len(servers) \in Nat \ {0}
      BY SMTT(30), <2>2, <3>2
    <3>5. untried # {} => Min(untried) \in untried
      BY SMTT(30), <3>3, <3>4, LeastMember
    <3> DEFINE a == Len(task.tried)
               b == Len(servers)
    <3>6. (a % b) + 1 \in 1..b
      <4>1. a \in Nat /\ b \in Nat \ {0}
        BY SMTT(30), <3>1, <3>4
      <4> HIDE DEF a, b
      <4>2. a % b \in 0..(b - 1)
        BY <4>1
      <4> QED BY SMTT(30), <4>1, <4>2
    <3>7. n \in DOMAIN servers
      <4>1. CASE untried # {}
        BY ZenonT(40), <3>3, <3>5, <4>1
      <4>2. CASE untried = {}
        BY ZenonT(40), <3>4, <3>6, <4>2
      <4> QED BY ZenonT(40), <4>1, <4>2
    <3> HIDE DEF n
    <3>8. servers[n] \in Range(servers)
      BY ZenonT(40), <3>7 DEF Range
    <3>9. servers[n] \in Server
      BY ZenonT(40), <2>2, <3>7, MemberTyped
    <3> QED BY ZenonT(40), <2>2, <3>8, <3>9
  <2>4. e1 = [e EXCEPT !.tasks[id] = t]
    BY ZenonT(40)
  <2>5. /\ t \in Task /\ t.owner = task.owner /\ t.tx = task.tx /\ t.attempt = task.attempt
        /\ t.failures = task.failures /\ t.cache_invalidated = task.cache_invalidated
        /\ t.scope = task.scope /\ t.candidates = task.candidates
        /\ t.tried = Append(task.tried, server)
    <3> HIDE DEF task, server
    <3>1. Append(task.tried, server) \in Seq(Server)
      BY <1>1, <2>3 DEF Task
    <3>2. t \in Task
      BY ZenonT(40), <1>1, <3>1 DEF Task
    <3>3. t.owner = task.owner /\ t.tx = task.tx /\ t.attempt = task.attempt
      BY ZenonT(40), <1>1 DEF Task
    <3>4. /\ t.failures = task.failures /\ t.cache_invalidated = task.cache_invalidated
          /\ t.scope = task.scope /\ t.candidates = task.candidates
          /\ t.tried = Append(task.tried, server)
      BY ZenonT(40), <1>1 DEF Task
    <3> QED BY ZenonT(40), <3>2, <3>3, <3>4
  <2>a. InTurn(t, server, e.demoted)
    <3>1. task.tried \in Seq(Server)
      BY ZenonT(40), <1>1, TaskFields
    <3> DEFINE before == Range(SubSeq(t.tried, 1, Len(t.tried) - 1))
               all == Range(Configured(scopes, fallback, task.scope))
               sick(s) == server_key(s, task.scope) \in e.demoted
    <3>2. before = Range(task.tried)
      <4> DEFINE old == task.tried
      <4>1. t.tried = Append(old, server)
        BY ZenonT(40), <2>5
      <4> HIDE DEF old, t, server
      <4>2. SubSeq(t.tried, 1, Len(t.tried) - 1) = old
        BY <2>3, <3>1, <4>1 DEF old
      <4> QED BY ZenonT(40), <4>2 DEF old
    <3>3. ASSUME NEW s \in all, s \notin before
          PROVE  server \notin before /\ (sick(server) => sick(s))
      <4>1. PICK k \in DOMAIN servers : servers[k] = s
        BY ZenonT(40), <2>2, <3>3
      <4>2. k \in untried /\ untried \subseteq DOMAIN servers /\ n = Min(untried)
        BY ZenonT(40), <3>2, <3>3, <4>1
      <4>3. DOMAIN servers \subseteq Nat
        <5> HIDE DEF servers
        <5> QED BY <2>2
      <4>4. Min(untried) \in untried /\ Min(untried) <= k
        <5> HIDE DEF servers, untried
        <5> QED BY ZenonT(40), <4>2, <4>3, LeastMember
      <4>5. n \in DOMAIN servers /\ servers[n] \notin Range(task.tried)
        BY ZenonT(40), <4>2, <4>4
      <4>6. sick(servers[n]) /\ ~sick(servers[k]) => k < n
        BY ZenonT(40), <2>2, <4>5
      <4>7. ~(k < n)
        <5> HIDE DEF n, servers, untried
        <5> QED BY SMTT(30), <4>2, <4>3, <4>4, <4>5
      <4> HIDE DEF n, servers, before
      <4> QED BY ZenonT(40), <3>2, <4>1, <4>5, <4>6, <4>7
    <3>4. t.scope = task.scope
      BY ZenonT(40), <2>5
    <3> HIDE DEF t, server, task
    <3> QED BY ZenonT(40), <3>3, <3>4 DEF InTurn
  <2> HIDE DEF t, e1, server, n, untried, servers, f
  <2>6. Good(e1, L, W) /\ Adjusted(e, e1, id) /\ e1.tasks[id] = t
    BY <1>1, <2>4, <2>5, AdjustLoose
  <2>7. MayAsk(e1.tasks[id], server) /\ e1.tasks[id].attempt = e1.tasks[id].failures
    BY ZenonT(40), <2>3, <2>5, <2>6 DEF MayAsk
  <2>b. InTurn(e1.tasks[id], server, e1.demoted)
    BY ZenonT(40), <2>6, <2>a DEF Adjusted
  <2>8. /\ Tied(e1, f, L, W, id)
        /\ Follows(e1, f, id, task.attempt + 1, Len(task.candidates))
    <3>1. e1.tasks[id].attempt = task.attempt /\ e1.tasks[id].candidates = task.candidates
      BY ZenonT(40), <2>5, <2>6
    <3>2. /\ Tied(e1, f, L, W, id)
          /\ Follows(e1, f, id, e1.tasks[id].attempt + 1, Len(e1.tasks[id].candidates))
      BY ZenonT(40), <2>1, <2>6, <2>7, <2>b, SendTies
    <3> QED BY ZenonT(40), <3>1, <3>2
  <2> DEFINE a == task.attempt + 1
             c == Len(task.candidates)
  <2>9. Follows(e1, f, id, a, c)
    BY ZenonT(40), <2>8
  <2> HIDE DEF a, c
  <2>10. Tied(e, f, L, W, id) /\ Follows(e, f, id, a, c)
    BY ZenonT(40), <2>6, <2>8, <2>9, AdjustedTies
  <2> QED BY ZenonT(40), <2>10 DEF f, a, c
<1> QED BY ZenonT(40), <1>2, <1>3

(* A name is routed to a scope that tasks may hold. *)
LEMMA RouteScope ==
    ASSUME Facts,
           scopes \in Seq(Scope), NEW name
    PROVE  route(scopes, fallback, name) \in AnyScope
<1>1. ASSUME NEW i \in up_scopes(scopes) PROVE scopes[i].id \in AnyScope
  <2>1. scopes[i] \in Scope
    BY DEF up_scopes
  <2> QED BY ZenonT(40), <2>1 DEF Scope, AnyScope
<1> QED BY ZenonT(40), <1>1, RouteIs DEF AnyScope

(* A bound on the names left may be relaxed. *)
LEMMA FewerLeft ==
    ASSUME NEW e, NEW f, NEW id, NEW a, NEW c \in Int, NEW d \in Int, c <= d,
           Follows(e, f, id, a, c)
    PROVE  Follows(e, f, id, a, d)
<1>1. \A n \in 0..c : n \in 0..d
  OBVIOUS
<1> QED BY ZenonT(40), <1>1 DEF Follows, Sent

(* next_candidate ties up a loose task that was charged for its failures   *)
(* only.                                                                   *)
LEMMA NextCandidateTies ==
    ASSUME Facts,
           NEW e, NEW L, NEW W, Good(e, L, W), NEW id \in L, NEW entropy,
           scopes \in Seq(Scope), fallback \in Fallback,
           e.tasks[id].attempt = e.tasks[id].failures
    PROVE  LET f == next_candidate(e, id, entropy)
           IN  /\ Tied(e, f, L, W, id)
               /\ Follows(e, f, id, e.tasks[id].attempt + 1, Len(e.tasks[id].candidates) - 1)
<1> DEFINE task == e.tasks[id]
           c == task.candidates
           via(i) == route(scopes, fallback, c[i])
           key(i) == <<c[i], task.rtype, via(i)>>
           hit(i) == ~task.no_cache /\ via(i) # NoScope /\ key(i) \in DOMAIN e.cache
           I == {i \in DOMAIN c :
                    i < Len(c) => ~(hit(i) /\ e.cache[key(i)].outcome = "notfound")}
           k == Min(I)
           t == [task EXCEPT !.candidates = SubSeq(c, k + 1, Len(c)),
                             !.current = c[k], !.tried = <<>>, !.scope = via(k)]
           e1 == [e EXCEPT !.tasks[id] = t]
           f == next_candidate(e, id, entropy)
<1>1. id \in DOMAIN e.tasks /\ task \in Task /\ task.tx = NoTx /\ task.attempt <= MAX_ATTEMPTS
  BY ZenonT(40), LooseTask
<1>2. CASE c = <<>>
  <2>1. f = settle(e, id, "notfound")
    BY ZenonT(40), <1>1, <1>2 DEF next_candidate
  <2> QED BY ZenonT(40), <2>1, SettleTies DEF Outcome, Follows
<1>3. CASE c # <<>>
  <2>1. c \in Seq(Name)
    BY ZenonT(40), <1>1, TaskFields
  <2>2. k \in DOMAIN c
    <3>1. Len(c) \in I /\ I \subseteq DOMAIN c /\ DOMAIN c \subseteq Nat
      <4> HIDE DEF c, hit
      <4> QED BY <1>3, <2>1
    <3> HIDE DEF I
    <3>2. k \in I
      BY ZenonT(40), <3>1, LeastMember
    <3> QED BY ZenonT(40), <3>1, <3>2
  <2>3. via(k) \in AnyScope
    BY ZenonT(40), RouteScope
  <2>4. /\ t \in Task /\ t.owner = task.owner /\ t.tx = task.tx /\ t.attempt = task.attempt
        /\ t.failures = task.failures /\ Len(t.candidates) <= Len(c) - 1
    <3> DEFINE rest == SubSeq(c, k + 1, Len(c))
               v == via(k)
    <3>1. /\ rest \in Seq(Name) /\ c[k] \in Name /\ v \in AnyScope /\ <<>> \in Seq(Server)
          /\ Len(rest) <= Len(c) - 1
      <4> HIDE DEF c, k
      <4> QED BY <2>1, <2>2, <2>3
    <3>2. t = [task EXCEPT !.candidates = rest, !.current = c[k], !.tried = <<>>, !.scope = v]
      BY ZenonT(40)
    <3> HIDE DEF rest, v, c, k, t, task
    <3>3. t \in Task
      BY ZenonT(40), <1>1, <3>1, <3>2 DEF Task
    <3>4. /\ t.owner = task.owner /\ t.tx = task.tx /\ t.attempt = task.attempt
          /\ t.failures = task.failures /\ t.candidates = rest
      BY ZenonT(40), <1>1, <3>2 DEF Task
    <3> QED BY ZenonT(40), <3>1, <3>3, <3>4
  <2>5. e1 = [e EXCEPT !.tasks[id] = t]
    BY ZenonT(40)
  <2>6. \/ f = settle(e1, id, "unavailable")
        \/ hit(k) /\ f = settle(e1, id, e.cache[key(k)].outcome)
        \/ f = next_attempt(e1, id, entropy)
    BY ZenonT(30), <1>1, <1>3 DEF next_candidate
  <2>7. hit(k) => e.cache[key(k)].outcome \in Outcome
    <3> DEFINE y == key(k)
    <3>1. hit(k) => y \in DOMAIN e.cache
      BY ZenonT(30)
    <3> HIDE DEF y
    <3>2. y \in DOMAIN e.cache => e.cache[y].outcome \in Outcome
      BY ZenonT(40) DEF Good, FieldsOK, Entry, Outcome
    <3> QED BY ZenonT(40), <3>1, <3>2 DEF y
  <2> DEFINE o == e.cache[key(k)].outcome
  <2>8. \/ f = settle(e1, id, "unavailable")
        \/ o \in Outcome /\ f = settle(e1, id, o)
        \/ f = next_attempt(e1, id, entropy)
    BY ZenonT(40), <2>6, <2>7
  <2> HIDE DEF o, f, e1, t
  <2>9. Good(e1, L, W) /\ Adjusted(e, e1, id) /\ e1.tasks[id] = t
    BY SMTT(30), <1>1, <2>4, <2>5, AdjustLoose
  <2>10. e1.tasks[id].attempt = e1.tasks[id].failures
    BY ZenonT(40), <2>4, <2>9
  <2> DEFINE a == task.attempt + 1
             d == Len(c) - 1
  <2>11. Tied(e1, f, L, W, id) /\ Follows(e1, f, id, a, d)
    <3>1. "unavailable" \in Outcome
      BY ZenonT(40) DEF Outcome
    <3>2. CASE f = settle(e1, id, "unavailable")
      BY ZenonT(40), <2>9, <3>1, <3>2, SettleTies DEF Follows
    <3>3. CASE o \in Outcome /\ f = settle(e1, id, o)
      BY ZenonT(40), <2>9, <3>3, SettleTies DEF Follows
    <3>4. CASE f = next_attempt(e1, id, entropy)
      <4>1. /\ Tied(e1, f, L, W, id)
            /\ Follows(e1, f, id, e1.tasks[id].attempt + 1, Len(e1.tasks[id].candidates))
        BY ZenonT(40), <2>9, <2>10, <3>4, NextAttemptTies
      <4>2. e1.tasks[id].attempt + 1 = a /\ e1.tasks[id].candidates = t.candidates
        BY ZenonT(40), <2>4, <2>9
      <4>3. Follows(e1, f, id, a, Len(t.candidates))
        BY ZenonT(40), <4>1, <4>2
      <4> QED BY SMTT(30), <2>1, <2>4, <4>1, <4>3, FewerLeft
    <3> QED BY ZenonT(40), <2>8, <3>2, <3>3, <3>4
  <2> HIDE DEF a, d
  <2>12. Tied(e, f, L, W, id) /\ Follows(e, f, id, a, d)
    BY <2>9, <2>11, AdjustedTies
  <2> QED BY ZenonT(40), <2>12 DEF f, a, d
<1> QED BY ZenonT(40), <1>2, <1>3

(* What synthetic answers is an outcome, or none. *)
LEMMA SyntheticType ==
    ASSUME NEW S, NEW h, NEW host, NEW name, NEW rtype
    PROVE  synthetic(S, h, host, name, rtype).outcome \in Outcome \cup {"none"}
BY ZenonT(40) DEF synthetic, Outcome

(* advance ties up a loose task that was charged for its failures only. *)
LEMMA AdvanceTies ==
    ASSUME Facts,
           NEW e, NEW L, NEW W, Good(e, L, W), NEW id \in L, NEW entropy,
           scopes \in Seq(Scope), fallback \in Fallback,
           e.tasks[id].attempt = e.tasks[id].failures
    PROVE  LET f == advance(e, id, entropy)
               c == candidates(scopes, fallback, e.tasks[id].original)
           IN  Tied(e, f, L, W, id) /\ Follows(e, f, id, e.tasks[id].attempt + 1, Len(c) - 1)
<1> DEFINE task == e.tasks[id]
           local == synthetic(scopes, hosts, hostname, task.original, task.rtype)
           o == local.outcome
           cands == candidates(scopes, fallback, task.original)
           t == [task EXCEPT !.candidates = cands]
           e1 == [e EXCEPT !.tasks[id].candidates = cands]
           f == advance(e, id, entropy)
<1>1. id \in DOMAIN e.tasks /\ task \in Task /\ task.tx = NoTx /\ task.attempt <= MAX_ATTEMPTS
  BY ZenonT(40), LooseTask
<1>2. CASE o # "none"
  <2>1. f = settle(e, id, o)
    BY ZenonT(40), <1>1, <1>2 DEF advance
  <2>2. o \in Outcome
    BY <1>2, SyntheticType
  <2> HIDE DEF o
  <2> QED BY ZenonT(40), <2>1, <2>2, SettleTies DEF Follows
<1>3. CASE o = "none"
  <2>1. f = next_candidate(e1, id, entropy)
    BY ZenonT(40), <1>1, <1>3 DEF advance
  <2>2. cands \in Seq(Name)
    BY ZenonT(40), <1>1, TaskFields, CandidatesTyped
  <2>3. e1 = [e EXCEPT !.tasks[id] = t]
    BY ZenonT(40)
  <2>4. /\ t \in Task /\ t.owner = task.owner /\ t.tx = task.tx /\ t.attempt = task.attempt
        /\ t.failures = task.failures /\ t.candidates = cands
    <3> HIDE DEF task, cands
    <3>1. t \in Task
      BY ZenonT(40), <1>1, <2>2 DEF Task
    <3>2. /\ t.owner = task.owner /\ t.tx = task.tx /\ t.attempt = task.attempt
          /\ t.failures = task.failures /\ t.candidates = cands
      BY ZenonT(40), <1>1 DEF Task
    <3> QED BY ZenonT(40), <3>1, <3>2
  <2> DEFINE a == task.attempt + 1
             d == Len(cands) - 1
  <2> HIDE DEF t, e1, f, o, local, cands
  <2>5. Good(e1, L, W) /\ Adjusted(e, e1, id) /\ e1.tasks[id] = t
    BY SMTT(30), <1>1, <2>3, <2>4, AdjustLoose
  <2>6. e1.tasks[id].attempt = e1.tasks[id].failures
    BY SMTT(30), <2>4, <2>5
  <2>7. Tied(e1, f, L, W, id) /\ Follows(e1, f, id, a, d)
    <3>1. /\ Tied(e1, f, L, W, id)
          /\ Follows(e1, f, id, e1.tasks[id].attempt + 1, Len(e1.tasks[id].candidates) - 1)
      BY ZenonT(40), <2>1, <2>5, <2>6, NextCandidateTies
    <3>2. e1.tasks[id].attempt + 1 = a /\ Len(e1.tasks[id].candidates) - 1 = d
      BY ZenonT(40), <2>4, <2>5
    <3> QED BY ZenonT(40), <3>1, <3>2
  <2> HIDE DEF a, d
  <2>8. Tied(e, f, L, W, id) /\ Follows(e, f, id, a, d)
    BY <2>5, <2>7, AdjustedTies
  <2> QED BY ZenonT(40), <2>8 DEF f, a, d, cands
<1> QED BY ZenonT(40), <1>2, <1>3

-----------------------------------------------------------------------------
(* Replies, failures, timeouts and abandoned questions. *)

(* The fields of a record made of seven values. *)
LEMMA RecordFields ==
    ASSUME NEW c, NEW m, NEW t, NEW x, NEW k, NEW n, NEW d, NEW r,
           r = [cache |-> c, demoted |-> m, tasks |-> t, txs |-> x, lookups |-> k,
                next_id |-> n, done |-> d]
    PROVE  /\ IsRecord(r)
           /\ r.cache = c /\ r.demoted = m /\ r.tasks = t /\ r.txs = x
           /\ r.lookups = k /\ r.next_id = n /\ r.done = d
BY ZenonT(40) DEF IsRecord

(* The engine's variables as a record. *)
LEMMA EFields ==
    /\ IsRecord(E)
    /\ E.cache = cache /\ E.demoted = demoted /\ E.tasks = tasks /\ E.txs = txs
    /\ E.lookups = lookups /\ E.next_id = next_id /\ E.done = done
<1>1. E = [cache |-> cache, demoted |-> demoted, tasks |-> tasks, txs |-> txs,
           lookups |-> lookups, next_id |-> next_id, done |-> done]
  BY ZenonT(40) DEF E
<1> QED BY <1>1, RecordFields

(* The engine becomes f. *)
LEMMA BecomeE ==
    ASSUME NEW f, IsRecord(f), Become(f)
    PROVE  E' = f
<1>1. E' = [cache |-> f.cache, demoted |-> f.demoted, tasks |-> f.tasks, txs |-> f.txs,
            lookups |-> f.lookups, next_id |-> f.next_id, done |-> f.done]
  BY ZenonT(40) DEF E, Become
<1> QED BY ZenonT(40), <1>1 DEF IsRecord

(* A good record, installed, leaves the invariant true. *)
LEMMA Install ==
    ASSUME NEW f, TypeOK, Good(f, {}, Waiting'), Become(f), UNCHANGED config,
           asked' \subseteq Qid, gone' \subseteq asked',
           \A q \in Qid : q \notin asked' => done'[q] = <<>>
    PROVE  IInv'
<1>1. E' = f
  BY ZenonT(40), BecomeE DEF Good, FieldsOK
<1>2. FieldsOK(E')
  BY ZenonT(40), <1>1 DEF Good
<1>3. TypeOK'
  <2>1. /\ DOMAIN cache' \subseteq Key /\ \A k \in DOMAIN cache' : cache'[k] \in Entry
        /\ demoted' \subseteq Server \X AnyScope
        /\ DOMAIN tasks' \subseteq Nat /\ \A id \in DOMAIN tasks' : tasks'[id] \in Task
        /\ DOMAIN txs' \subseteq Nat /\ \A x \in DOMAIN txs' : txs'[x] \in Tx
        /\ DOMAIN lookups' \subseteq Qid /\ \A q \in DOMAIN lookups' : lookups'[q] \in Lookup
        /\ next_id' \in Nat
        /\ done' \in [Qid -> Seq(Outcome)]
    BY ZenonT(40) DEF Good, FieldsOK, Become
  <2> QED BY ZenonT(40), <2>1 DEF TypeOK, config
<1>4. Good(E, {}, Waiting)'
  <2>1. scopes' = scopes /\ fallback' = fallback
    BY ZenonT(40) DEF config
  <2>2. FreshOK(E.tasks, E.txs)' /\ CacheOK(E.cache)'
    BY ZenonT(40), <1>1, <2>1 DEF Good, FreshOK, CacheOK
  <2> QED BY ZenonT(40), <1>1, <2>2 DEF Good
<1> QED BY ZenonT(40), <1>3, <1>4 DEF IInv

(* Tying up the task of a waiting question is a step of the promise. *)
LEMMA TiedStep ==
    ASSUME IInv, NEW e, NEW id, NEW f, e.done = done, Good(e, {id}, Waiting),
           Tied(e, f, {id}, Waiting, id), Become(f), UNCHANGED <<config, asked, gone>>, Moves
    PROVE  Keeps
<1> DEFINE q == e.tasks[id].owner.qid
<1>1. q \in Waiting /\ q \in Qid /\ done \in [Qid -> Seq(Outcome)]
  BY ZenonT(40) DEF Good, ExchangesOK, OwnersOK, IInv, TypeOK
<1>2. {id} \ {id} = {}
  BY ZenonT(40)
<1>3. /\ TypeOK /\ UNCHANGED config /\ asked' \subseteq Qid /\ gone' \subseteq asked'
      /\ done' = f.done
  BY ZenonT(40) DEF IInv, TypeOK, Become
<1>4. CASE Good(f, {}, Waiting) /\ f.done = e.done
  <2>1. done' = done
    BY ZenonT(40), <1>3, <1>4
  <2>2. Waiting' = Waiting
    BY ZenonT(40), <2>1 DEF Waiting
  <2>3. \A r \in Qid : r \notin asked' => done'[r] = <<>>
    BY ZenonT(40), <2>1 DEF IInv
  <2>4. IInv'
    BY ZenonT(40), <1>3, <1>4, <2>2, <2>3, Install
  <2> QED BY ZenonT(40), <2>1, <2>4 DEF Keeps, Promise!vars
<1>5. ASSUME Good(f, {}, Waiting \ {q}), NEW o \in Outcome, f.done = [e.done EXCEPT ![q] = <<o>>]
      PROVE  Keeps
  <2>1. done' = [done EXCEPT ![q] = <<o>>]
    BY ZenonT(40), <1>3, <1>5
  <2>2. Waiting' = Waiting \ {q}
    <3>1. ASSUME NEW r \in Waiting \ {q} PROVE r \in Waiting'
      BY ZenonT(40), <1>1, <2>1 DEF Waiting, IInv, TypeOK
    <3>2. ASSUME NEW r \in Waiting' PROVE r \in Waiting \ {q}
      <4>1. r \in asked \ gone /\ done'[r] = <<>> /\ r \in Qid
        BY ZenonT(40) DEF Waiting, IInv, TypeOK
      <4>2. done'[q] = <<o>>
        BY ZenonT(40), <1>1, <2>1
      <4>3. r # q => done'[r] = done[r]
        BY ZenonT(40), <1>1, <2>1, <4>1
      <4>4. <<o>> # <<>>
        BY ZenonT(40)
      <4>5. r # q
        BY ZenonT(40), <4>1, <4>2, <4>4
      <4> QED BY ZenonT(40), <4>1, <4>3, <4>5 DEF Waiting
    <3> QED BY ZenonT(40), <3>1, <3>2
  <2>3. \A r \in Qid : r \notin asked' => done'[r] = <<>>
    BY ZenonT(40), <1>1, <2>1 DEF IInv, Waiting
  <2>4. IInv'
    BY ZenonT(40), <1>3, <1>5, <2>2, <2>3, Install
  <2>5. Promise!Answer(q, o)
    BY ZenonT(40), <1>1, <2>1 DEF Promise!Answer, Promise!Waiting, Waiting
  <2>6. Promise!Next
    BY ZenonT(40), <1>1, <1>5, <2>5 DEF Promise!Next, Promise!Outcome, Outcome
  <2> QED BY ZenonT(40), <2>4, <2>6 DEF Keeps
<1> QED BY ZenonT(30), <1>2, <1>4, <1>5 DEF Tied

(* Forgetting exchanges keeps their number bounded. *)
LEMMA FewerInFlight ==
    ASSUME Facts,
           NEW X, NEW Y, FlightOK(X), DOMAIN Y \subseteq DOMAIN X
    PROVE  FlightOK(Y)
<1>1. IsFiniteSet(DOMAIN X) /\ Cardinality(DOMAIN X) <= MAX_IN_FLIGHT
  BY ZenonT(40) DEF FlightOK
<1>2. IsFiniteSet(DOMAIN Y) /\ Cardinality(DOMAIN Y) <= Cardinality(DOMAIN X)
  BY ZenonT(40), <1>1, CountSubset
<1>3. Cardinality(DOMAIN X) \in Nat /\ Cardinality(DOMAIN Y) \in Nat /\ MAX_IN_FLIGHT \in Nat
  <2>1. MAX_IN_FLIGHT \in Nat
    BY ZenonT(40), EngineConstants
  <2> QED BY ZenonT(40), <1>1, <1>2, <2>1, CountType
<1>4. Cardinality(DOMAIN Y) <= MAX_IN_FLIGHT
  BY <1>1, <1>2, <1>3
<1> QED BY ZenonT(40), <1>2, <1>4 DEF FlightOK

(* The end of exchange x makes its task loose. *)
LEMMA Land ==
    ASSUME Facts,
           NEW T, NEW X, NEW n, NEW x \in DOMAIN X, NEW S, NEW Y,
           IdsOK(T, X, n), ExchangesOK(T, X, {}), FreshOK(T, X), FlightOK(X),
           Drops(X, Y, x), Changes(T, S, X[x].task), S[X[x].task].tx = NoTx,
           S[X[x].task].attempt <= MAX_ATTEMPTS
    PROVE  /\ IdsOK(S, Y, n) /\ ExchangesOK(S, Y, {X[x].task})
           /\ FreshOK(S, Y) /\ FlightOK(Y)
<1> DEFINE id == X[x].task
<1>1. IdsOK(S, Y, n)
  BY ZenonT(40) DEF IdsOK, Changes, Drops
<1>2. \A y \in DOMAIN Y : /\ y \in DOMAIN X /\ Y[y] = X[y] /\ X[y].task # id
                          /\ X[y].task \in DOMAIN T /\ S[X[y].task] = T[X[y].task]
  BY DEF ExchangesOK, Changes, Drops
<1>3. id \in DOMAIN T
  BY ZenonT(40) DEF ExchangesOK
<1>4. \A i \in DOMAIN S \ {id} : i \in DOMAIN T /\ S[i] = T[i] /\ T[i].tx # x
  BY ZenonT(40) DEF ExchangesOK, Changes
<1>5. ExchangesOK(S, Y, {id})
  <2>1. {id} \subseteq DOMAIN S
    BY ZenonT(40), <1>3 DEF Changes
  <2>2. \A i \in DOMAIN S \ {id} :
            /\ S[i].tx \in DOMAIN Y
            /\ Y[S[i].tx].task = i
            /\ S[i].attempt = S[i].failures + 1
    BY <1>4 DEF ExchangesOK, Drops
  <2>3. \A i \in DOMAIN S : S[i].attempt <= MAX_ATTEMPTS
    BY ZenonT(40), <1>4 DEF ExchangesOK
  <2>4. ASSUME NEW y \in DOMAIN Y PROVE Y[y].task \in DOMAIN S \ {id} /\ S[Y[y].task].tx = y
    <3>1. /\ y \in DOMAIN X /\ Y[y] = X[y] /\ X[y].task # id
          /\ X[y].task \in DOMAIN T /\ S[X[y].task] = T[X[y].task]
      BY ZenonT(40), <1>2
    <3>2. T[X[y].task].tx = y
      BY ZenonT(40), <3>1 DEF ExchangesOK
    <3>3. DOMAIN S = DOMAIN T
      BY ZenonT(40) DEF Changes
    <3> QED BY ZenonT(40), <3>1, <3>2, <3>3
  <2> QED BY ZenonT(40), <2>1, <2>2, <2>3, <2>4 DEF ExchangesOK
<1>6. FreshOK(S, Y)
  BY <1>2 DEF FreshOK
<1>7. FlightOK(Y)
  <2>1. DOMAIN Y \subseteq DOMAIN X
    BY ZenonT(40) DEF Drops
  <2> QED BY ZenonT(40), <2>1, FewerInFlight
<1> QED BY ZenonT(40), <1>1, <1>5, <1>6, <1>7

(* e is the engine after the exchange x, whose task is loose. *)
Lands(e, x) ==
    /\ Drops(txs, e.txs, x) /\ Changes(tasks, e.tasks, txs[x].task)
    /\ e.next_id = next_id

(* The a attempts and c names bound what is left of task t. *)
Less(t, a, c) ==
    \/ a = t.attempt + 1 /\ c = Len(t.candidates)
    \/ a = t.attempt /\ c = Len(t.candidates) - 1

(* What follows the end of an exchange replaces it. *)
LEMMA LandedMoves ==
    ASSUME IInv, NEW x \in DOMAIN txs, NEW e, NEW f, NEW a, NEW c, Lands(e, x), Become(f),
           Follows(e, f, txs[x].task, a, c), Less(tasks[txs[x].task], a, c),
           tasks[txs[x].task] \in Task
    PROVE  Moves
<1> DEFINE id == txs[x].task
           n == next_id
<1>1. /\ tasks' = f.tasks /\ txs' = f.txs /\ next_id' = f.next_id /\ demoted' = f.demoted
      /\ e.next_id = n
  BY ZenonT(40) DEF Become, Lands
<1>2. /\ DOMAIN e.tasks = DOMAIN tasks /\ \A i \in DOMAIN tasks \ {id} : e.tasks[i] = tasks[i]
      /\ e.tasks[id].owner = tasks[id].owner
      /\ DOMAIN e.txs = DOMAIN txs \ {x} /\ \A y \in DOMAIN e.txs : e.txs[y] = txs[y]
  BY ZenonT(40) DEF Lands, Changes, Drops
<1>3. CASE Settled(e, f, id)
  <2>1. /\ DOMAIN f.tasks = DOMAIN e.tasks \ {id} /\ \A i \in DOMAIN f.tasks : f.tasks[i] = e.tasks[i]
        /\ DOMAIN f.txs = DOMAIN e.txs /\ \A y \in DOMAIN f.txs : f.txs[y] = e.txs[y]
        /\ f.next_id = e.next_id
    BY ZenonT(40), <1>3 DEF Settled, Drops, Same
  <2>2. Drops(tasks, tasks', id) /\ Drops(txs, txs', x) /\ next_id' = n
    BY ZenonT(40), <1>1, <1>2, <2>1 DEF Drops
  <2> QED BY ZenonT(40), <2>2 DEF Moves, Replaces
<1>4. CASE Sent(e, f, id, a, c)
  <2>1. /\ Changes(e.tasks, f.tasks, id) /\ f.next_id = n + 1 /\ f.txs[n].task = id
        /\ DOMAIN f.txs = DOMAIN e.txs \cup {n} /\ \A y \in DOMAIN e.txs : f.txs[y] = e.txs[y]
        /\ f.tasks[id].attempt = a /\ Len(f.tasks[id].candidates) \in 0..c
        /\ f.txs[n].tcp \/ InTurn(f.tasks[id], f.txs[n].server, f.demoted)
    BY ZenonT(40), <1>1, <1>4 DEF Sent
  <2>2. Changes(tasks, tasks', id)
    BY ZenonT(40), <1>1, <1>2, <2>1 DEF Changes
  <2>3. DOMAIN txs' = (DOMAIN txs \ {x}) \cup {n} /\ \A y \in DOMAIN txs \ {x} : txs'[y] = txs[y]
    BY ZenonT(40), <1>1, <1>2, <2>1
  <2>4. Spends(tasks[id], tasks'[id])
    <3> DEFINE t == tasks[id]
               u == tasks'[id]
    <3>1. t.candidates \in Seq(Name) /\ Less(t, a, c)
      BY ZenonT(40), TaskFields
    <3>2. u.attempt = a /\ Len(u.candidates) \in 0..c
      BY ZenonT(40), <1>1, <2>1
    <3> HIDE DEF t, u
    <3>3. Spends(t, u)
      BY <3>1, <3>2 DEF Less, Spends
    <3> QED BY ZenonT(40), <3>3 DEF t, u
  <2>5. txs'[n].task = id /\ next_id' = n + 1
        /\ (txs'[n].tcp \/ InTurn(tasks'[id], txs'[n].server, demoted'))
    BY ZenonT(40), <1>1, <2>1
  <2>6. Replaces(x)
    BY ZenonT(40), <2>2, <2>3, <2>4, <2>5 DEF Replaces
  <2> QED BY ZenonT(40), <2>6 DEF Moves
<1> QED BY ZenonT(40), <1>3, <1>4 DEF Follows

(* What is known of the task of a live exchange. *)
LEMMA LiveTask ==
    ASSUME IInv, NEW x \in DOMAIN txs
    PROVE  LET id == txs[x].task
           IN  /\ id \in DOMAIN tasks /\ tasks[id] \in Task /\ txs[x] \in Tx
               /\ tasks[id].attempt = tasks[id].failures + 1
               /\ tasks[id].attempt <= MAX_ATTEMPTS
               /\ \/ tasks[id].cache_invalidated
                  \/ /\ ~txs[x].stale
                     /\ txs[x].server \in Range(Configured(scopes, fallback, tasks[id].scope))
<1>1. ExchangesOK(tasks, txs, {}) /\ FreshOK(tasks, txs)
  BY ZenonT(40), EFields DEF IInv, Good
<1>2. txs[x].task \in DOMAIN tasks
  BY ZenonT(40), <1>1 DEF ExchangesOK
<1>3. tasks[txs[x].task] \in Task /\ txs[x] \in Tx
  BY ZenonT(40), <1>2 DEF IInv, TypeOK
<1> QED BY ZenonT(40), <1>1, <1>2, <1>3 DEF ExchangesOK, FreshOK

(* End makes the task of the exchange loose. *)
LEMMA EndLoose ==
    ASSUME Facts,
           IInv, NEW x \in DOMAIN txs, NEW fails \in {0, 1}, NEW e, e = End(x, fails)
    PROVE  LET id == txs[x].task
           IN  /\ Good(e, {id}, Waiting) /\ IsRecord(e)
               /\ e.done = done /\ e.cache = cache /\ e.demoted = demoted
               /\ e.tasks[id].attempt = tasks[id].attempt
               /\ e.tasks[id].failures = tasks[id].failures + fails
               /\ e.tasks[id].cache_invalidated = tasks[id].cache_invalidated
               /\ e.tasks[id].scope = tasks[id].scope
               /\ e.tasks[id].candidates = tasks[id].candidates
               /\ Lands(e, x)
<1> DEFINE id == txs[x].task
           task == tasks[id]
           t == [task EXCEPT !.tx = NoTx, !.failures = @ + fails]
<1>1. /\ id \in DOMAIN tasks /\ task \in Task /\ task.attempt <= MAX_ATTEMPTS
  BY ZenonT(40), LiveTask
<1>2. e = [E EXCEPT !.txs = Without(txs, x), !.tasks = [tasks EXCEPT ![id] = t]]
  BY ZenonT(40), <1>1 DEF End
<1>3. /\ t \in Task /\ t.owner = task.owner /\ t.tx = NoTx /\ t.attempt = task.attempt
      /\ t.failures = task.failures + fails
      /\ t.cache_invalidated = task.cache_invalidated /\ t.scope = task.scope
      /\ t.candidates = task.candidates
  <2> HIDE DEF task
  <2>1. task.failures + fails \in Nat /\ NoTx \in Nat
    BY <1>1 DEF Task, NoTx
  <2>2. t \in Task
    BY ZenonT(40), <1>1, <2>1 DEF Task
  <2>3. t.owner = task.owner /\ t.tx = NoTx /\ t.attempt = task.attempt
    BY ZenonT(40), <1>1 DEF Task
  <2>4. /\ t.failures = task.failures + fails
        /\ t.cache_invalidated = task.cache_invalidated /\ t.scope = task.scope
        /\ t.candidates = task.candidates
    BY ZenonT(40), <1>1 DEF Task
  <2> QED BY ZenonT(40), <2>2, <2>3, <2>4
<1> HIDE DEF t
<1>4. /\ IsRecord(e) /\ e.done = done /\ e.cache = cache /\ e.demoted = demoted
      /\ e.lookups = lookups /\ e.next_id = next_id
      /\ e.txs = Without(txs, x) /\ e.tasks = [tasks EXCEPT ![id] = t]
  BY ZenonT(40), <1>2, EFields DEF IsRecord
<1>5. Drops(txs, e.txs, x)
  BY <1>4, WithoutDrops
<1>6. Changes(tasks, e.tasks, id) /\ e.tasks[id] = t
  BY ZenonT(40), <1>1, <1>3, <1>4 DEF Changes
<1>7. /\ IdsOK(tasks, txs, next_id) /\ ExchangesOK(tasks, txs, {}) /\ FreshOK(tasks, txs)
      /\ FlightOK(txs) /\ OwnersOK(tasks, lookups, done, Waiting) /\ CacheOK(cache)
      /\ FieldsOK(E)
  BY ZenonT(40), EFields DEF IInv, Good
<1>8. /\ IdsOK(e.tasks, e.txs, next_id) /\ ExchangesOK(e.tasks, e.txs, {id})
      /\ FreshOK(e.tasks, e.txs) /\ FlightOK(e.txs)
  <2>1. e.tasks[id].tx = NoTx /\ e.tasks[id].attempt <= MAX_ATTEMPTS
    BY ZenonT(40), <1>1, <1>3, <1>6
  <2> QED BY ZenonT(40), <1>5, <1>6, <1>7, <2>1, Land
<1>9. OwnersOK(e.tasks, lookups, done, Waiting)
  BY ZenonT(40), <1>1, <1>6, <1>7, ChangeOwned
<1>10. FieldsOK(e)
  <2>1. FieldsOK(E)
    BY ZenonT(40) DEF IInv, Good
  <2>2. DOMAIN e.tasks \subseteq Nat /\ \A i \in DOMAIN e.tasks : e.tasks[i] \in Task
    BY ZenonT(40), <1>3, <1>6, <2>1, EFields DEF FieldsOK, Changes
  <2>3. DOMAIN e.txs \subseteq Nat /\ \A y \in DOMAIN e.txs : e.txs[y] \in Tx
    BY SMTT(30), <1>5, <2>1, EFields DEF FieldsOK, Drops
  <2> QED BY ZenonT(40), <1>4, <2>1, <2>2, <2>3, EFields DEF FieldsOK
<1>11. Good(e, {id}, Waiting)
  BY ZenonT(40), <1>4, <1>7, <1>8, <1>9, <1>10 DEF Good
<1>12. Lands(e, x)
  BY ZenonT(40), <1>4, <1>5, <1>6 DEF Lands
<1> QED BY ZenonT(40), <1>3, <1>4, <1>6, <1>11, <1>12

(* What is remembered of servers and answers may change. *)
LEMMA Remember ==
    ASSUME NEW e, NEW L, NEW W, Good(e, L, W), NEW f, IsRecord(f),
           f.tasks = e.tasks, f.txs = e.txs, f.lookups = e.lookups,
           f.next_id = e.next_id, f.done = e.done,
           f.demoted \subseteq Server \X AnyScope,
           DOMAIN f.cache \subseteq Key, \A k \in DOMAIN f.cache : f.cache[k] \in Entry,
           CacheOK(f.cache)
    PROVE  Good(f, L, W)
<1>1. FieldsOK(f)
  BY ZenonT(40) DEF Good, FieldsOK
<1> QED BY ZenonT(40), <1>1 DEF Good

(* A server key has its type. *)
LEMMA ServerKeyType ==
    ASSUME NEW server \in Server, NEW scope \in AnyScope
    PROVE  server_key(server, scope) \in Server \X AnyScope
BY ZenonT(40) DEF server_key, AnyScope

(* Failure makes the task of the exchange loose, charged for its failures. *)
LEMMA FailureLoose ==
    ASSUME Facts,
           IInv, NEW x \in DOMAIN txs, NEW f, f = Failure(x)
    PROVE  LET id == txs[x].task
           IN  /\ Good(f, {id}, Waiting) /\ f.done = done
               /\ f.tasks[id].attempt = f.tasks[id].failures
               /\ f.tasks[id].attempt = tasks[id].attempt
               /\ f.tasks[id].candidates = tasks[id].candidates
               /\ Lands(f, x)
<1> DEFINE id == txs[x].task
           e == End(x, 1)
           k == server_key(txs[x].server, tasks[id].scope)
<1>1. /\ Good(e, {id}, Waiting) /\ IsRecord(e)
      /\ e.done = done /\ e.cache = cache /\ e.demoted = demoted
      /\ e.tasks[id].attempt = tasks[id].attempt
      /\ e.tasks[id].failures = tasks[id].failures + 1
      /\ e.tasks[id].candidates = tasks[id].candidates /\ Lands(e, x)
  <2>1. 1 \in {0, 1} /\ e = End(x, 1)
    BY ZenonT(40)
  <2> HIDE DEF e
  <2> QED BY ZenonT(40), <2>1, EndLoose
<1>2. f = [e EXCEPT !.demoted = @ \cup {k}]
  BY ZenonT(40) DEF Failure
<1>3. k \in Server \X AnyScope
  <2>1. txs[x].server \in Server /\ tasks[id].scope \in AnyScope
    BY ZenonT(40), LiveTask, TaskFields DEF Tx
  <2> QED BY ZenonT(40), <2>1, ServerKeyType
<1>4. tasks[id].attempt = tasks[id].failures + 1
  BY ZenonT(40), LiveTask
<1> HIDE DEF e, k
<1>5. /\ IsRecord(f) /\ f.tasks = e.tasks /\ f.txs = e.txs /\ f.lookups = e.lookups
      /\ f.next_id = e.next_id /\ f.done = e.done /\ f.cache = e.cache
      /\ f.demoted = e.demoted \cup {k}
  BY ZenonT(40), <1>1, <1>2 DEF IsRecord
<1>6. /\ f.demoted \subseteq Server \X AnyScope
      /\ DOMAIN f.cache \subseteq Key /\ \A y \in DOMAIN f.cache : f.cache[y] \in Entry
      /\ CacheOK(f.cache)
  BY ZenonT(40), <1>1, <1>3, <1>5 DEF Good, FieldsOK
<1>7. Good(f, {id}, Waiting)
  BY SMTT(30), <1>1, <1>5, <1>6, Remember
<1>8. Lands(f, x)
  BY ZenonT(40), <1>1, <1>5 DEF Lands
<1> QED BY ZenonT(40), <1>1, <1>4, <1>5, <1>7, <1>8

(* received, a truncated datagram. *)
LEMMA TruncatedKeeps ==
    ASSUME Facts,
           IInv, NEW x \in DOMAIN txs, NEW r \in BOOLEAN, received_truncated(x, r)
    PROVE  Keeps
<1> DEFINE id == txs[x].task
           e == End(x, 1)
           f == send(e, id, txs[x].server, TRUE, r)
<1>1. /\ Good(e, {id}, Waiting) /\ e.done = done
      /\ e.tasks[id].attempt = tasks[id].attempt
      /\ e.tasks[id].failures = tasks[id].failures + 1
      /\ e.tasks[id].cache_invalidated = tasks[id].cache_invalidated
      /\ e.tasks[id].scope = tasks[id].scope
      /\ e.tasks[id].candidates = tasks[id].candidates /\ Lands(e, x)
  <2>1. 1 \in {0, 1} /\ e = End(x, 1)
    BY ZenonT(40)
  <2> HIDE DEF e
  <2> QED BY ZenonT(40), <2>1, EndLoose
<1>2. Become(f) /\ UNCHANGED <<config, asked, gone>>
  BY ZenonT(30) DEF received_truncated
<1>3. MayAsk(e.tasks[id], txs[x].server) /\ e.tasks[id].attempt = e.tasks[id].failures
  BY ZenonT(40), <1>1, LiveTask DEF MayAsk, Tx
<1> HIDE DEF e
<1>4. /\ Tied(e, f, {id}, Waiting, id)
      /\ Follows(e, f, id, e.tasks[id].attempt + 1, Len(e.tasks[id].candidates))
  BY ZenonT(40), <1>1, <1>3, SendTies
<1> HIDE DEF f
<1>5. Moves
  BY ZenonT(40), <1>1, <1>2, <1>4, LiveTask, LandedMoves DEF Less
<1> HIDE DEF id
<1> QED BY ZenonT(40), <1>1, <1>2, <1>4, <1>5, TiedStep

(* received, an error code; failed; tick: the next attempt. *)
LEMMA FailureKeeps ==
    ASSUME Facts,
           IInv, NEW x \in DOMAIN txs, NEW r \in BOOLEAN,
           received_error(x, r) \/ failed(x, r)
    PROVE  Keeps
<1> DEFINE id == txs[x].task
           e == Failure(x)
           f == next_attempt(e, id, r)
<1>1. /\ Good(e, {id}, Waiting) /\ e.done = done /\ e.tasks[id].attempt = e.tasks[id].failures
      /\ e.tasks[id].attempt = tasks[id].attempt
      /\ e.tasks[id].candidates = tasks[id].candidates /\ Lands(e, x)
  <2>1. e = Failure(x)
    BY ZenonT(40)
  <2> HIDE DEF e
  <2> QED BY ZenonT(40), <2>1, FailureLoose
<1>2. Become(f) /\ UNCHANGED <<config, asked, gone>>
  BY ZenonT(40) DEF received_error, failed
<1>3. scopes \in Seq(Scope) /\ fallback \in Fallback
  BY ZenonT(40) DEF IInv, TypeOK
<1> HIDE DEF e
<1>4. /\ Tied(e, f, {id}, Waiting, id)
      /\ Follows(e, f, id, e.tasks[id].attempt + 1, Len(e.tasks[id].candidates))
  BY ZenonT(40), <1>1, <1>3, NextAttemptTies
<1> HIDE DEF f
<1>5. Moves
  BY ZenonT(40), <1>1, <1>2, <1>4, LiveTask, LandedMoves DEF Less
<1> HIDE DEF id
<1> QED BY ZenonT(40), <1>1, <1>2, <1>4, <1>5, TiedStep

(* failed for a local reason: the next attempt. *)
LEMMA LocalFailureKeeps ==
    ASSUME Facts,
           IInv, NEW x \in DOMAIN txs, NEW r \in BOOLEAN, local_failed(x, r)
    PROVE  Keeps
<1> DEFINE id == txs[x].task
           e == End(x, 1)
           f == next_attempt(e, id, r)
<1>1. /\ Good(e, {id}, Waiting) /\ e.done = done
      /\ e.tasks[id].attempt = tasks[id].attempt
      /\ e.tasks[id].failures = tasks[id].failures + 1
      /\ e.tasks[id].candidates = tasks[id].candidates /\ Lands(e, x)
  <2>1. 1 \in {0, 1} /\ e = End(x, 1)
    OBVIOUS
  <2> HIDE DEF e
  <2> QED BY ZenonT(40), <2>1, EndLoose
<1>2. Become(f) /\ UNCHANGED <<config, asked, gone>>
  BY ZenonT(40) DEF local_failed
<1>3. scopes \in Seq(Scope) /\ fallback \in Fallback
  BY ZenonT(40) DEF IInv, TypeOK
<1>4. e.tasks[id].attempt = e.tasks[id].failures
  BY ZenonT(40), <1>1, LiveTask
<1> HIDE DEF e
<1>5. /\ Tied(e, f, {id}, Waiting, id)
      /\ Follows(e, f, id, e.tasks[id].attempt + 1, Len(e.tasks[id].candidates))
  BY ZenonT(40), <1>1, <1>3, <1>4, NextAttemptTies
<1> HIDE DEF f
<1>6. Moves
  BY ZenonT(40), <1>1, <1>2, <1>5, LiveTask, LandedMoves DEF Less
<1> HIDE DEF id
<1> QED BY ZenonT(40), <1>1, <1>2, <1>5, <1>6, TiedStep

(* The engine after an answer was remembered: the task is loose and has    *)
(* been charged for the exchange.                                          *)
LEMMA AnswerLoose ==
    ASSUME Facts,
           IInv, NEW x \in DOMAIN txs, NEW outcome \in {"found", "notfound"},
           NEW cacheable \in BOOLEAN, NEW f,
           f = Answered(x, outcome, cacheable)
    PROVE  LET id == txs[x].task
           IN  /\ Good(f, {id}, Waiting) /\ f.done = done
               /\ f.tasks[id].attempt = f.tasks[id].failures + 1
               /\ f.tasks[id].attempt = tasks[id].attempt
               /\ f.tasks[id].candidates = tasks[id].candidates
               /\ Lands(f, x)
<1> DEFINE id == txs[x].task
           task == tasks[id]
           e == End(x, 0)
           k == server_key(txs[x].server, task.scope)
           key == <<task.current, task.rtype, task.scope>>
           entry == [outcome |-> outcome, server |-> txs[x].server, stale |-> txs[x].stale]
           C == IF cacheable /\ ~task.cache_invalidated THEN Put(cache, key, entry) ELSE cache
<1>1. /\ Good(e, {id}, Waiting) /\ IsRecord(e)
      /\ e.done = done /\ e.cache = cache /\ e.demoted = demoted
      /\ e.tasks[id].attempt = task.attempt
      /\ e.tasks[id].failures = task.failures + 0
      /\ e.tasks[id].candidates = task.candidates /\ Lands(e, x)
  <2>1. 0 \in {0, 1} /\ e = End(x, 0)
    BY ZenonT(40)
  <2> HIDE DEF e
  <2> QED BY ZenonT(40), <2>1, EndLoose
<1>2. /\ task \in Task /\ txs[x] \in Tx /\ task.attempt = task.failures + 1
      /\ \/ task.cache_invalidated
         \/ /\ ~txs[x].stale
            /\ txs[x].server \in Range(Configured(scopes, fallback, task.scope))
  BY ZenonT(40), LiveTask
<1>3. f = [e EXCEPT !.demoted = @ \ {k},
                    !.cache = IF cacheable /\ ~task.cache_invalidated
                              THEN Put(@, key, entry) ELSE @]
  BY ZenonT(40) DEF Answered
<1>4. f.cache = C
  <2> HIDE DEF e, k, key, entry
  <2> QED BY ZenonT(40), <1>1, <1>3 DEF IsRecord
<1>5. /\ IsRecord(f) /\ f.tasks = e.tasks /\ f.txs = e.txs /\ f.lookups = e.lookups
      /\ f.next_id = e.next_id /\ f.done = e.done /\ f.demoted = e.demoted \ {k}
  <2> HIDE DEF e, k, key, entry
  <2> QED BY ZenonT(40), <1>1, <1>3 DEF IsRecord
<1>6. DOMAIN cache \subseteq Key /\ (\A y \in DOMAIN cache : cache[y] \in Entry) /\ CacheOK(cache)
  BY ZenonT(40), EFields DEF IInv, TypeOK, Good
<1>7. key \in Key /\ entry \in Entry /\ key[3] = task.scope
      /\ entry.server = txs[x].server /\ entry.stale = txs[x].stale
  <2>1. /\ task.current \in Name /\ task.rtype \in RType /\ task.scope \in AnyScope
        /\ txs[x].server \in Server /\ txs[x].stale \in BOOLEAN
    <3> DEFINE y == txs[x]
    <3> HIDE DEF y, task
    <3>1. y.server \in Server /\ y.stale \in BOOLEAN
      BY ZenonT(40), <1>2 DEF Tx, y
    <3>2. task.current \in Name /\ task.rtype \in RType /\ task.scope \in AnyScope
      BY ZenonT(40), <1>2, TaskFields
    <3> QED BY ZenonT(40), <3>1, <3>2 DEF y
  <2>2. key \in Key /\ key[3] = task.scope
    <3> HIDE DEF task
    <3> QED BY <2>1 DEF Key
  <2>3. entry \in Entry /\ entry.server = txs[x].server /\ entry.stale = txs[x].stale
    BY ZenonT(40), <2>1 DEF Entry
  <2> QED BY ZenonT(40), <2>2, <2>3
<1>8. DOMAIN C \subseteq Key /\ (\A y \in DOMAIN C : C[y] \in Entry) /\ CacheOK(C)
  <2>1. CASE cacheable /\ ~task.cache_invalidated
    <3>1. ~txs[x].stale /\ txs[x].server \in Range(Configured(scopes, fallback, task.scope))
      BY ZenonT(40), <1>2, <2>1
    <3> HIDE DEF key, entry, task
    <3>2. /\ DOMAIN C = DOMAIN cache \cup {key} /\ C[key] = entry
          /\ \A y \in DOMAIN cache \ {key} : C[y] = cache[y]
      BY ZenonT(40), <2>1 DEF Put
    <3> HIDE DEF C
    <3>3. DOMAIN C \subseteq Key /\ \A y \in DOMAIN C : C[y] \in Entry
      BY ZenonT(40), <1>6, <1>7, <3>2
    <3>4. CacheOK(C)
      <4>1. ~entry.stale /\ entry.server \in Range(Configured(scopes, fallback, key[3]))
        BY ZenonT(40), <1>7, <3>1
      <4> QED BY ZenonT(40), <1>6, <3>2, <4>1 DEF CacheOK
    <3> QED BY ZenonT(40), <3>3, <3>4
  <2>2. CASE ~(cacheable /\ ~task.cache_invalidated)
    <3>1. C = cache
      BY ZenonT(40), <2>2
    <3> HIDE DEF C
    <3> QED BY ZenonT(40), <1>6, <3>1
  <2> QED BY ZenonT(40), <2>1, <2>2
<1> HIDE DEF C, e, k, key, entry
<1>9. f.demoted \subseteq Server \X AnyScope
  <2>1. e.demoted \subseteq Server \X AnyScope
    BY ZenonT(40), <1>1 DEF Good, FieldsOK
  <2> QED BY ZenonT(40), <1>5, <2>1
<1>10. Good(f, {id}, Waiting)
  <2>1. /\ DOMAIN f.cache \subseteq Key /\ CacheOK(f.cache)
        /\ \A y \in DOMAIN f.cache : f.cache[y] \in Entry
    BY ZenonT(40), <1>4, <1>8
  <2> QED BY ZenonT(40), <1>1, <1>5, <1>9, <2>1, Remember
<1>11. task.failures \in Nat
  BY ZenonT(40), <1>2, TaskFields
<1>12. Lands(f, x)
  BY ZenonT(40), <1>1, <1>5 DEF Lands
<1>13. /\ f.tasks[id].attempt = task.attempt /\ f.tasks[id].failures = task.failures
       /\ f.tasks[id].candidates = task.candidates
  <2>1. e.tasks[id].failures = task.failures
    BY ZenonT(40), <1>1, <1>11, NothingAdded
  <2> QED BY ZenonT(40), <1>1, <1>5, <2>1
<1> QED BY ZenonT(40), <1>1, <1>2, <1>5, <1>10, <1>12, <1>13

(* refund leaves the task charged for its failures only. *)
LEMMA RefundLoose ==
    ASSUME NEW e, NEW L, NEW W, Good(e, L, W), NEW id \in L, NEW f, f = refund(e, id),
           e.tasks[id].attempt = e.tasks[id].failures + 1
    PROVE  /\ Good(f, L, W) /\ f.tasks[id].attempt = f.tasks[id].failures
           /\ f.tasks[id].attempt + 1 = e.tasks[id].attempt
           /\ f.tasks[id].candidates = e.tasks[id].candidates
           /\ Adjusted(e, f, id)
<1> DEFINE task == e.tasks[id]
           a == IF task.attempt = 0 THEN 0 ELSE task.attempt - 1
           t == [task EXCEPT !.attempt = a]
<1>1. id \in DOMAIN e.tasks /\ task \in Task /\ task.tx = NoTx /\ task.attempt <= MAX_ATTEMPTS
  BY ZenonT(40), LooseTask
<1>2. task.attempt \in Nat /\ task.failures \in Nat /\ MAX_ATTEMPTS \in Nat
  BY ZenonT(40), <1>1, TaskFields, EngineConstants
<1>3. a = task.failures /\ a \in Nat /\ a <= MAX_ATTEMPTS
  <2> HIDE DEF task
  <2>1. task.attempt = task.failures + 1
    BY ZenonT(40) DEF task
  <2> QED BY <1>1, <1>2, <2>1
<1>4. f = [e EXCEPT !.tasks[id] = t]
  BY ZenonT(40) DEF refund
<1>5. t \in Task /\ t.owner = task.owner /\ t.tx = task.tx /\ t.attempt = a
      /\ t.failures = task.failures /\ t.candidates = task.candidates
  <2> HIDE DEF task, a
  <2>1. t \in Task
    BY ZenonT(40), <1>1, <1>3 DEF Task
  <2>2. t.owner = task.owner /\ t.tx = task.tx /\ t.attempt = a /\ t.failures = task.failures
        /\ t.candidates = task.candidates
    BY ZenonT(40), <1>1 DEF Task
  <2> QED BY ZenonT(40), <2>1, <2>2
<1> HIDE DEF t, a
<1>6. Good(f, L, W) /\ Adjusted(e, f, id) /\ f.tasks[id] = t
  BY SMTT(30), <1>1, <1>3, <1>4, <1>5, AdjustLoose
<1>7. a + 1 = task.attempt
  <2> HIDE DEF task
  <2>1. task.attempt = task.failures + 1
    BY ZenonT(40) DEF task
  <2> QED BY ZenonT(40), <1>2, <1>3, <2>1
<1> QED BY ZenonT(40), <1>3, <1>5, <1>6, <1>7

(* received, an answer: remembered, and handed over or the next candidate. *)
LEMMA AnswerKeeps ==
    ASSUME Facts,
           IInv, NEW x \in DOMAIN txs, NEW r \in BOOLEAN, NEW outcome \in {"found", "notfound"},
           NEW cacheable \in BOOLEAN, received_answer(x, outcome, cacheable, r)
    PROVE  Keeps
<1> DEFINE id == txs[x].task
           e == Answered(x, outcome, cacheable)
           more == outcome = "notfound" /\ tasks[id].candidates # <<>>
           f == IF more THEN next_candidate(refund(e, id), id, r) ELSE settle(e, id, outcome)
<1>1. /\ Good(e, {id}, Waiting) /\ e.done = done
      /\ e.tasks[id].attempt = e.tasks[id].failures + 1
      /\ e.tasks[id].attempt = tasks[id].attempt
      /\ e.tasks[id].candidates = tasks[id].candidates /\ Lands(e, x)
  <2>1. e = Answered(x, outcome, cacheable)
    BY ZenonT(40)
  <2> HIDE DEF e
  <2> QED BY ZenonT(90), <2>1, AnswerLoose
<1>2. Become(f) /\ UNCHANGED <<config, asked, gone>>
  BY ZenonT(40) DEF received_answer
<1>3. scopes \in Seq(Scope) /\ fallback \in Fallback /\ id \in {id}
  BY ZenonT(40) DEF IInv, TypeOK
<1> DEFINE a == tasks[id].attempt
           c == Len(tasks[id].candidates) - 1
<1>a. id = txs[x].task /\ a = tasks[id].attempt /\ c = Len(tasks[id].candidates) - 1
  BY ZenonT(40)
<1> HIDE DEF e, more, id, a, c
<1>4. Tied(e, f, {id}, Waiting, id) /\ Follows(e, f, id, a, c)
  <2>1. CASE more
    <3> DEFINE e2 == refund(e, id)
    <3>1. f = next_candidate(e2, id, r)
      BY ZenonT(40), <2>1
    <3>2. e2 = refund(e, id)
      BY ZenonT(40)
    <3> HIDE DEF e2, f
    <3>3. /\ Good(e2, {id}, Waiting) /\ e2.tasks[id].attempt = e2.tasks[id].failures
          /\ e2.tasks[id].attempt + 1 = a /\ Len(e2.tasks[id].candidates) - 1 = c
          /\ Adjusted(e, e2, id)
      <4>1. /\ Good(e2, {id}, Waiting) /\ e2.tasks[id].attempt = e2.tasks[id].failures
            /\ e2.tasks[id].attempt + 1 = e.tasks[id].attempt
            /\ e2.tasks[id].candidates = e.tasks[id].candidates
            /\ Adjusted(e, e2, id)
        BY SMTT(30), <1>1, <1>3, <3>2, RefundLoose
      <4> QED BY ZenonT(40), <1>a, <1>1, <4>1
    <3>4. Tied(e2, f, {id}, Waiting, id) /\ Follows(e2, f, id, a, c)
      <4>1. /\ Tied(e2, f, {id}, Waiting, id)
            /\ Follows(e2, f, id, e2.tasks[id].attempt + 1, Len(e2.tasks[id].candidates) - 1)
        BY ZenonT(40), <1>3, <3>1, <3>3, NextCandidateTies
      <4> QED BY ZenonT(40), <3>3, <4>1
    <3> QED BY <1>1, <1>3, <3>3, <3>4, AdjustedTies
  <2>2. CASE ~more
    <3>1. f = settle(e, id, outcome)
      BY ZenonT(40), <2>2
    <3> HIDE DEF f
    <3>2. outcome \in Outcome
      BY ZenonT(40) DEF Outcome
    <3> QED BY ZenonT(40), <1>1, <1>3, <3>1, <3>2, SettleTies DEF Follows
  <2> QED BY ZenonT(40), <2>1, <2>2
<1> HIDE DEF f
<1>5. Moves
  BY ZenonT(40), <1>a, <1>1, <1>2, <1>4, LiveTask, LandedMoves DEF Less
<1> QED BY ZenonT(40), <1>1, <1>2, <1>4, <1>5, TiedStep

(* The parts of the invariant, for an action that sets variables itself. *)
LEMMA Assemble ==
    ASSUME TypeOK', IdsOK(tasks', txs', next_id'), ExchangesOK(tasks', txs', {}),
           OwnersOK(tasks', lookups', done', Waiting'), FreshOK(tasks, txs)', CacheOK(cache)',
           FlightOK(txs'), gone' \subseteq asked',
           \A q \in Qid : q \notin asked' => done'[q] = <<>>
    PROVE  IInv'
<1>1. /\ IsRecord(E)'
      /\ E.cache' = cache' /\ E.demoted' = demoted' /\ E.tasks' = tasks' /\ E.txs' = txs'
      /\ E.lookups' = lookups' /\ E.next_id' = next_id' /\ E.done' = done'
  <2>1. E' = [cache |-> cache', demoted |-> demoted', tasks |-> tasks', txs |-> txs',
              lookups |-> lookups', next_id |-> next_id', done |-> done']
    BY ZenonT(40) DEF E
  <2>2. IsRecord(E')
    BY SMTT(30), <2>1, RecordFields
  <2>3. /\ (E').cache = cache' /\ (E').demoted = demoted' /\ (E').tasks = tasks' /\ (E').txs = txs'
        /\ (E').lookups = lookups' /\ (E').next_id = next_id' /\ (E').done = done'
    BY ZenonT(40), <2>1, RecordFields
  <2> QED BY ZenonT(40), <2>2, <2>3 DEF IsRecord
<1>2. FieldsOK(E)'
  <2>1. /\ DOMAIN cache' \subseteq Key /\ \A k \in DOMAIN cache' : cache'[k] \in Entry
        /\ demoted' \subseteq Server \X AnyScope
        /\ DOMAIN tasks' \subseteq Nat /\ \A i \in DOMAIN tasks' : tasks'[i] \in Task
        /\ DOMAIN txs' \subseteq Nat /\ \A x \in DOMAIN txs' : txs'[x] \in Tx
        /\ DOMAIN lookups' \subseteq Qid /\ \A q \in DOMAIN lookups' : lookups'[q] \in Lookup
        /\ next_id' \in Nat /\ done' \in [Qid -> Seq(Outcome)]
    BY ZenonT(40) DEF TypeOK
  <2> QED BY ZenonT(40), <1>1, <2>1 DEF FieldsOK
<1>3. FreshOK(E.tasks, E.txs)' /\ CacheOK(E.cache)'
  BY ZenonT(40), <1>1
<1> QED BY ZenonT(40), <1>1, <1>2, <1>3 DEF IInv, Good

(* The parts of the invariant. *)
LEMMA Parts ==
    ASSUME IInv
    PROVE  /\ IdsOK(tasks, txs, next_id) /\ ExchangesOK(tasks, txs, {}) /\ FreshOK(tasks, txs)
           /\ FlightOK(txs) /\ OwnersOK(tasks, lookups, done, Waiting) /\ CacheOK(cache)
           /\ TypeOK /\ gone \subseteq asked /\ \A q \in Qid : q \notin asked => done[q] = <<>>
BY ZenonT(40), EFields DEF IInv, Good

(* Forgetting a question: its tasks, their exchanges and its lookup go. *)
LEMMA AbandonKeeps ==
    ASSUME Facts,
           IInv, NEW q \in Qid, abandon(q)
    PROVE  Keeps
<1> DEFINE Q == TasksOf(q)
           mine == {tasks[i].tx : i \in Q}
<1>1. /\ IdsOK(tasks, txs, next_id) /\ ExchangesOK(tasks, txs, {}) /\ FreshOK(tasks, txs)
      /\ FlightOK(txs) /\ OwnersOK(tasks, lookups, done, Waiting) /\ CacheOK(cache)
      /\ TypeOK /\ gone \subseteq asked /\ \A r \in Qid : r \notin asked => done[r] = <<>>
  BY ZenonT(40), Parts
<1>2. /\ q \in Waiting /\ gone' = gone \cup {q}
      /\ UNCHANGED <<config, cache, demoted, next_id, asked, done>>
      /\ DOMAIN tasks' = DOMAIN tasks \ Q /\ (\A i \in DOMAIN tasks' : tasks'[i] = tasks[i])
      /\ DOMAIN txs' = DOMAIN txs \ mine /\ (\A x \in DOMAIN txs' : txs'[x] = txs[x])
  BY ZenonT(40) DEF abandon, Restrict
<1>3. Drops(lookups, lookups', q)
  BY ZenonT(40), WithoutDrops DEF abandon
<1>4. \A i \in DOMAIN tasks : i \in Q <=> tasks[i].owner.qid = q
  BY ZenonT(40) DEF TasksOf
<1>5. \A x \in DOMAIN txs : x \in mine <=> txs[x].task \in Q
  <2>1. \A i \in DOMAIN tasks : tasks[i].tx \in DOMAIN txs /\ txs[tasks[i].tx].task = i
    BY ZenonT(40), <1>1 DEF ExchangesOK
  <2>2. \A x \in DOMAIN txs : txs[x].task \in DOMAIN tasks /\ tasks[txs[x].task].tx = x
    BY ZenonT(40), <1>1 DEF ExchangesOK
  <2>3. Q \subseteq DOMAIN tasks
    BY ZenonT(40) DEF TasksOf
  <2> HIDE DEF Q
  <2> QED BY ZenonT(40), <2>1, <2>2, <2>3
<1> HIDE DEF Q, mine
<1>6. Waiting' = Waiting \ {q}
  BY ZenonT(40), <1>2 DEF Waiting
<1>7. IdsOK(tasks', txs', next_id')
  BY ZenonT(40), <1>1, <1>2 DEF IdsOK
<1>8. \A i \in DOMAIN tasks' : i \in DOMAIN tasks /\ tasks'[i] = tasks[i] /\ tasks[i].owner.qid # q
  BY ZenonT(40), <1>2, <1>4
<1>9. \A x \in DOMAIN txs' : /\ x \in DOMAIN txs /\ txs'[x] = txs[x]
                             /\ txs[x].task \in DOMAIN tasks'
                             /\ tasks'[txs[x].task] = tasks[txs[x].task]
  BY ZenonT(40), <1>1, <1>2, <1>5 DEF ExchangesOK
<1>10. ExchangesOK(tasks', txs', {})
  <2>1. ASSUME NEW i \in DOMAIN tasks'
        PROVE  /\ tasks'[i].tx \in DOMAIN txs' /\ txs'[tasks'[i].tx].task = i
               /\ tasks'[i].attempt = tasks'[i].failures + 1
               /\ tasks'[i].attempt <= MAX_ATTEMPTS
    <3>1. i \in DOMAIN tasks \ {} /\ i \notin Q /\ tasks'[i] = tasks[i]
      BY ZenonT(40), <1>2, <1>8
    <3>2. /\ tasks[i].tx \in DOMAIN txs /\ txs[tasks[i].tx].task = i
          /\ tasks[i].attempt = tasks[i].failures + 1 /\ tasks[i].attempt <= MAX_ATTEMPTS
      BY ZenonT(40), <1>1, <3>1 DEF ExchangesOK
    <3>3. tasks[i].tx \in DOMAIN txs'
      <4>1. tasks[i].tx \notin mine
        BY ZenonT(40), <1>5, <3>1, <3>2
      <4> QED BY ZenonT(40), <1>2, <3>2, <4>1
    <3> QED BY ZenonT(40), <1>2, <3>1, <3>2, <3>3
  <2>2. ASSUME NEW x \in DOMAIN txs'
        PROVE  txs'[x].task \in DOMAIN tasks' /\ tasks'[txs'[x].task].tx = x
    BY <1>1, <1>9 DEF ExchangesOK
  <2> QED BY ZenonT(40), <2>1, <2>2 DEF ExchangesOK
<1>11. OwnersOK(tasks', lookups', done', Waiting')
  <2>1. ASSUME NEW r \in Waiting \ {q}
        PROVE  r \in Qid /\ done'[r] = <<>> /\ \E i \in DOMAIN tasks' : tasks'[i].owner.qid = r
    <3>1. PICK i \in DOMAIN tasks : tasks[i].owner.qid = r
      BY ZenonT(40), <1>1 DEF OwnersOK
    <3>2. i \in DOMAIN tasks' /\ tasks'[i] = tasks[i]
      BY ZenonT(40), <1>2, <1>4, <3>1
    <3>3. r \in Qid /\ done[r] = <<>>
      BY ZenonT(40), <1>1 DEF OwnersOK
    <3>4. done' = done /\ tasks'[i].owner.qid = r
      BY ZenonT(40), <1>2, <3>1, <3>2
    <3> QED BY ZenonT(40), <3>2, <3>3, <3>4
  <2>2. ASSUME NEW i \in DOMAIN tasks'
        PROVE  /\ tasks'[i].owner.qid \in Waiting \ {q}
               /\ tasks'[i].owner.kind = "lookup" <=> tasks'[i].owner.qid \in DOMAIN lookups'
    BY ZenonT(30), <1>1, <1>3, <1>8 DEF OwnersOK, Drops
  <2>3. ASSUME NEW r \in DOMAIN lookups'
        PROVE  /\ r \in Waiting \ {q}
               /\ lookups'[r].pending = {i \in DOMAIN tasks' : tasks'[i].owner.qid = r}
    <3>1. r \in DOMAIN lookups /\ r # q /\ lookups'[r] = lookups[r]
      BY ZenonT(40), <1>3 DEF Drops
    <3>2. r \in Waiting /\ lookups[r].pending = {i \in DOMAIN tasks : tasks[i].owner.qid = r}
      BY ZenonT(40), <1>1, <3>1 DEF OwnersOK
    <3>3. {i \in DOMAIN tasks : tasks[i].owner.qid = r}
              = {i \in DOMAIN tasks' : tasks'[i].owner.qid = r}
      BY ZenonT(40), <1>2, <1>4, <3>1
    <3> QED BY ZenonT(40), <3>1, <3>2, <3>3
  <2>4. \A i, j \in DOMAIN tasks' :
            tasks'[i].owner.qid = tasks'[j].owner.qid /\ tasks'[i].owner.kind = "resolve" => i = j
    BY ZenonT(40), <1>1, <1>8 DEF OwnersOK
  <2> QED BY ZenonT(40), <1>6, <2>1, <2>2, <2>3, <2>4 DEF OwnersOK
<1>12. FreshOK(tasks, txs)' /\ CacheOK(cache)'
  <2>1. scopes' = scopes /\ fallback' = fallback /\ cache' = cache
    BY ZenonT(40), <1>2 DEF config
  <2> QED BY ZenonT(30), <1>1, <1>9, <2>1 DEF FreshOK, CacheOK
<1>13. FlightOK(txs')
  <2>1. DOMAIN txs' \subseteq DOMAIN txs
    BY ZenonT(40), <1>9
  <2> QED BY ZenonT(40), <1>1, <2>1, FewerInFlight
<1>14. TypeOK'
  <2>1. /\ DOMAIN tasks' \subseteq Nat /\ \A i \in DOMAIN tasks' : tasks'[i] \in Task
        /\ DOMAIN txs' \subseteq Nat /\ \A x \in DOMAIN txs' : txs'[x] \in Tx
        /\ DOMAIN lookups' \subseteq Qid /\ \A r \in DOMAIN lookups' : lookups'[r] \in Lookup
        /\ gone' \subseteq Qid
    <3>1. /\ DOMAIN tasks \subseteq Nat /\ \A i \in DOMAIN tasks : tasks[i] \in Task
          /\ DOMAIN txs \subseteq Nat /\ \A x \in DOMAIN txs : txs[x] \in Tx
          /\ DOMAIN lookups \subseteq Qid /\ \A r \in DOMAIN lookups : lookups[r] \in Lookup
          /\ gone \subseteq Qid
      BY ZenonT(40), <1>1 DEF TypeOK
    <3>2. DOMAIN tasks' \subseteq Nat /\ \A i \in DOMAIN tasks' : tasks'[i] \in Task
      BY ZenonT(40), <1>8, <3>1
    <3>3. DOMAIN txs' \subseteq Nat /\ \A x \in DOMAIN txs' : txs'[x] \in Tx
      BY ZenonT(40), <1>9, <3>1
    <3>4. DOMAIN lookups' \subseteq Qid /\ \A r \in DOMAIN lookups' : lookups'[r] \in Lookup
      BY ZenonT(40), <1>3, <3>1 DEF Drops
    <3>5. gone' \subseteq Qid
      BY ZenonT(40), <1>2, <3>1
    <3> QED BY ZenonT(40), <3>2, <3>3, <3>4, <3>5
  <2> QED BY ZenonT(30), <1>1, <1>2, <2>1 DEF TypeOK, config
<1>15. IInv'
  <2>1. gone' \subseteq asked' /\ \A r \in Qid : r \notin asked' => done'[r] = <<>>
    BY ZenonT(30), <1>1, <1>2 DEF Waiting
  <2> QED BY ZenonT(30), <1>7, <1>10, <1>11, <1>12, <1>13, <1>14, <2>1, Assemble
<1>16. Promise!Abandon(q)
  BY ZenonT(40), <1>2 DEF Promise!Abandon, Promise!Waiting, Waiting
<1>17. Forgets(q)
  <2>1. DOMAIN txs' = {x \in DOMAIN txs : tasks[txs[x].task].owner.qid # q}
    BY ZenonT(40), <1>1, <1>2, <1>4, <1>5 DEF ExchangesOK
  <2>2. \A i \in DOMAIN tasks : i \in DOMAIN tasks' <=> tasks[i].owner.qid # q
    BY ZenonT(40), <1>2, <1>4
  <2> QED BY ZenonT(40), <1>2, <1>8, <2>1, <2>2 DEF Forgets
<1>18. Moves
  BY ZenonT(40), <1>17 DEF Moves
<1> QED BY ZenonT(40), <1>15, <1>16, <1>18 DEF Keeps, Promise!Next

=============================================================================
