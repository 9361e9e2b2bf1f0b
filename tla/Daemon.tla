------------------------------- MODULE Daemon -------------------------------
(***************************************************************************)
(* The daemon's event loop (resolvd/src/main.rs): one thread that polls,   *)
(* visits what is ready in a fixed order, calls the engine (Exchanges) and *)
(* carries out the actions each call returns before it goes on.            *)
(*                                                                         *)
(* A connection or datagram carries one request, so it is identified with  *)
(* its question.  What a request asks and what the reply says are left     *)
(* out; so are the reply queues (NativeDoor) and the two configuration     *)
(* sources (Inputs), which touch none of the state below.  What is ready   *)
(* is decided when it is visited, and each polled entry is visited at most *)
(* once.                                                                   *)
(***************************************************************************)
EXTENDS Exchanges, FiniteSets

CONSTANTS
    Door,                       \* Qid -> "native", "tcp" or "udp"
    Peer,                       \* Qid -> the sender of the datagram
    Starts,                     \* the fuels of the exchanges a question starts with
    MAX_PENDING_CLIENTS,        \* readers and waiters of each stream door
    MAX_PENDING_UDP,
    MAX_PENDING_UDP_PER_PEER,
    IO_BATCH_LIMIT              \* datagrams or connections taken per turn

ASSUME DaemonConstants ==
    /\ Door \in [Qid -> {"native", "tcp", "udp"}]
    /\ DOMAIN Peer = Qid
    /\ Starts \subseteq Fuels
    /\ {MAX_PENDING_CLIENTS, MAX_PENDING_UDP, MAX_PENDING_UDP_PER_PEER} \subseteq Nat

VARIABLES
    sockets,    \* the exchanges with an open upstream socket
    waiters,    \* the askers to be answered
    clients,    \* the stream connections still sending their request
    phase,      \* the part of the loop's body being run
    polled,     \* the entries of the last poll not yet visited
    mark,       \* the engine's next id at that poll
    batch,      \* datagrams or connections taken in this phase
    todo,       \* actions to carry out
    follow,     \* actions that failed sends led to, to carry out after those
    seen,       \* history: the connections and datagrams that came
    unserved    \* history: those neither replied to nor gone away

loopVars == <<phase, polled, mark, batch>>
tables == <<sockets, waiters, clients>>
history == <<seen, unserved>>
daemonVars == <<exchangeVars, loopVars, tables, todo, follow, history>>

(* The order of the loop's body. *)
Rank == [poll |-> 0, hangups |-> 1, upstream |-> 2, udp |-> 3, tcp_accept |-> 4, tcp |-> 5,
         native_accept |-> 6, native |-> 7, tick |-> 8, expire |-> 9]

Send(x) == [do |-> "send", id |-> x]
Cancel(x) == [do |-> "cancel", id |-> x]
Done(q) == [do |-> "done", id |-> q]

AtDoor(S, door) == {q \in S : Door[q] = door}

(* The loop is between two calls of the engine: nothing is left to perform. *)
Idle == todo = <<>> /\ follow = <<>>

DaemonInit ==
    /\ ExchangesInit
    /\ sockets = {} /\ waiters = {} /\ clients = {}
    /\ phase = "poll"
    /\ polled = [waiters |-> {}, upstream |-> {}, clients |-> {}]
    /\ mark = 0
    /\ batch = 0
    /\ todo = <<>> /\ follow = <<>>
    /\ seen = {} /\ unserved = {}

-----------------------------------------------------------------------------
(* The loop *)

(* poll: stream waiters are watched for hangups, sockets and clients for   *)
(* data.  The clock read after it serves until the next one, so what is    *)
(* made in between is not late before.                                     *)
Poll ==
    /\ phase = "poll"
    /\ phase' = "hangups"
    /\ polled' = [waiters  |-> {q \in waiters : Door[q] # "udp"},
                  upstream |-> sockets, clients |-> clients]
    /\ mark' = next
    /\ UNCHANGED <<exchangeVars, batch, tables, todo, follow, history>>

(* The loop visits an entry in phase p, of which left remain; what earlier *)
(* phases have not visited was not ready.                                  *)
Visit(p, left) ==
    /\ Idle
    /\ phase \notin {"poll", "tick"}
    /\ Rank[phase] <= Rank[p]
    /\ phase' = p
    /\ polled' = [waiters  |-> IF p = "hangups" THEN left.waiters ELSE {},
                  upstream |-> IF p \in {"hangups", "upstream"} THEN left.upstream ELSE {},
                  clients  |-> left.clients]
    /\ UNCHANGED mark

-----------------------------------------------------------------------------
(* Calls of the engine.  o is what follows the end of an exchange: <<fuel>> *)
(* for another attempt, <<>> for the end of its task.                       *)

After == {<<>>} \cup {<<f>> : f \in Fuel}

(* received, failed and local_failed: an exchange the engine does not know *)
(* changes nothing.                                                        *)
Ends(x, o) ==
    IF x \notin DOMAIN owner THEN UNCHANGED exchangeVars
    ELSE IF o = <<>> THEN over(x) ELSE retry(x, o[1])

(* The actions that call returns. *)
Asked(x, o) ==
    IF x \notin DOMAIN owner THEN <<>>
    ELSE IF o # <<>> THEN <<Send(next)>>
    ELSE IF ExchangesOf(owner[x].qid) = {x} THEN <<Done(owner[x].qid)>> ELSE <<>>

(* Fault: an asker answered at once is not kept for the answer. *)
Put_unlessAnswered(q, fuels) ==
    /\ ask(q, Len(fuels), fuels)
    /\ waiters' = IF fuels = <<>> THEN waiters ELSE waiters \cup {q}
    /\ todo' = IF fuels = <<>> THEN <<Done(q)>>
               ELSE [i \in DOMAIN fuels |-> Send(next + Len(fuels) + i - 1)]

(* handle_request, handle_stub: the asker waits, the engine is asked, and  *)
(* its actions are performed.                                              *)
Put(q, fuels) ==
    /\ ask(q, Len(fuels), fuels)
    /\ waiters' = waiters \cup {q}
    /\ todo' = IF fuels = <<>> THEN <<Done(q)>>
               ELSE [i \in DOMAIN fuels |-> Send(next + Len(fuels) + i - 1)]

-----------------------------------------------------------------------------
(* perform: the actions in order; what failed sends lead to comes after. *)

(* Fault: what a failed send leads to is dropped. *)
FailedSend_dropped(x, o) == Ends(x, o) /\ UNCHANGED follow

(* The engine hears at once of a send that failed. *)
FailedSend(x, o) == Ends(x, o) /\ follow' = follow \o Asked(x, o)

PerformSend ==
    /\ Head(todo).do = "send"
    /\ \/ /\ sockets' = sockets \cup {Head(todo).id}
          /\ UNCHANGED <<exchangeVars, follow>>
       \/ /\ \E o \in After : FailedSend(Head(todo).id, o)
          /\ UNCHANGED sockets
    /\ UNCHANGED <<waiters, unserved>>

PerformCancel ==
    /\ Head(todo).do = "cancel"
    /\ sockets' = sockets \ {Head(todo).id}
    /\ UNCHANGED <<exchangeVars, follow, waiters, unserved>>

(* Fault: an asker that was answered stays in the table. *)
deliver_keeps(q) == unserved' = unserved \ {q} /\ UNCHANGED waiters

(* The asker, if it still waits, gets its reply. *)
deliver(q) ==
    /\ waiters' = waiters \ {q}
    /\ unserved' = unserved \ (waiters \cap {q})

PerformDone ==
    /\ Head(todo).do = "done"
    /\ deliver(Head(todo).id)
    /\ UNCHANGED <<exchangeVars, follow, sockets>>

Perform ==
    /\ phase # "tick"
    /\ todo # <<>>
    /\ PerformSend \/ PerformCancel \/ PerformDone
    /\ todo' = Tail(todo)
    /\ UNCHANGED <<loopVars, clients, seen>>

FollowUps ==
    /\ todo = <<>> /\ follow # <<>>
    /\ todo' = follow /\ follow' = <<>>
    /\ UNCHANGED <<exchangeVars, loopVars, tables, history>>

-----------------------------------------------------------------------------
(* What is ready *)

(* A waiting peer hung up: its question is abandoned, its exchanges in whatever
   order the map of them yields. *)
Hangup(q) ==
    /\ q \in polled.waiters \cap waiters
    /\ Visit("hangups", [polled EXCEPT !.waiters = @ \ {q}])
    /\ batch' = 0
    /\ waiters' = waiters \ {q}
    /\ unserved' = unserved \ {q}
    /\ abandon(q)
    /\ \E order \in Bijection(1..Cardinality(ExchangesOf(q)), ExchangesOf(q)) :
           todo' = [i \in DOMAIN order |-> Cancel(order[i])]
    /\ UNCHANGED <<sockets, clients, follow, seen>>

(* A socket brought the reply or an error: it is closed and the engine     *)
(* told.  (Replies that are not the exchange's leave everything as it is.) *)
Service(x, o) ==
    /\ x \in polled.upstream \cap sockets
    /\ Visit("upstream", [polled EXCEPT !.upstream = @ \ {x}])
    /\ batch' = 0
    /\ sockets' = sockets \ {x}
    /\ Ends(x, o)
    /\ todo' = Asked(x, o)
    /\ UNCHANGED <<waiters, clients, follow, history>>

(* Fault: the budget of the peer is not looked at. *)
udp_has_capacity_total(q) == Cardinality(AtDoor(waiters, "udp")) < MAX_PENDING_UDP

udp_has_capacity(q) ==
    LET pending == AtDoor(waiters, "udp")
    IN  /\ Cardinality(pending) < MAX_PENDING_UDP
        /\ Cardinality({w \in pending : Peer[w] = Peer[q]}) < MAX_PENDING_UDP_PER_PEER

Arrives(q, door) ==
    /\ q \notin seen
    /\ Visit(door, polled)
    /\ phase = door => batch < IO_BATCH_LIMIT
    /\ batch' = IF phase = door THEN batch + 1 ELSE 1
    /\ seen' = seen \cup {q}

(* A datagram: dealt with at once (not a query, malformed, or refused for  *)
(* want of room), or put to the engine.                                    *)
ReceiveUdp(q) ==
    /\ Door[q] = "udp" /\ Arrives(q, "udp")
    /\ \/ UNCHANGED <<exchangeVars, waiters, todo, unserved>>
       \/ /\ udp_has_capacity(q)
          /\ \E fuels \in Starts : Len(fuels) <= 1 /\ Put(q, fuels)
          /\ unserved' = unserved \cup {q}
    /\ UNCHANGED <<sockets, clients, follow>>

HasRoom(door) ==
    Cardinality(AtDoor(clients, door)) + Cardinality(AtDoor(waiters, door)) < MAX_PENDING_CLIENTS

(* A connection, closed at once when its door is full. *)
Accept(q) ==
    /\ Door[q] # "udp"
    /\ Arrives(q, IF Door[q] = "tcp" THEN "tcp_accept" ELSE "native_accept")
    /\ IF HasRoom(Door[q]) THEN clients' = clients \cup {q} /\ unserved' = unserved \cup {q}
       ELSE UNCHANGED <<clients, unserved>>
    /\ UNCHANGED <<exchangeVars, sockets, waiters, todo, follow>>

(* A connection ended or sent what is answered at once (a malformed        *)
(* request, one that is not permitted, status, flush), or asked something. *)
Read(q) ==
    /\ q \in polled.clients \cap clients
    /\ Visit(Door[q], [polled EXCEPT !.clients = @ \ {q}])
    /\ batch' = 0
    /\ clients' = clients \ {q}
    /\ \/ /\ unserved' = unserved \ {q}
          /\ UNCHANGED <<exchangeVars, waiters, todo>>
       \/ /\ \E fuels \in Starts : (Door[q] = "tcp" => Len(fuels) <= 1) /\ Put(q, fuels)
          /\ UNCHANGED unserved
    /\ UNCHANGED <<sockets, follow, seen>>

-----------------------------------------------------------------------------
(* Timers *)

TickActions(x, o) == <<Cancel(x)>> \o Asked(x, o)

(* tick: the exchanges that are late fail, one after the other; the        *)
(* actions of all of them are performed after that.                        *)
Tick(x, o) ==
    /\ x \in DOMAIN owner /\ x < mark
    /\ \/ phase = "tick" /\ UNCHANGED <<phase, polled, mark>>
       \/ Visit("tick", polled)
    /\ batch' = 0
    /\ Ends(x, o)
    /\ todo' = todo \o TickActions(x, o)
    /\ UNCHANGED <<tables, follow, history>>

TickEnds ==
    /\ phase = "tick"
    /\ phase' = "expire"
    /\ UNCHANGED <<exchangeVars, polled, mark, batch, tables, todo, follow, history>>

(* Fault: a client that sends nothing is never dropped. *)
Expire_keeps(late) ==
    /\ Idle /\ phase \notin {"poll", "tick"}
    /\ phase' = "poll"
    /\ polled' = [waiters |-> {}, upstream |-> {}, clients |-> {}]
    /\ mark' = 0 /\ batch' = 0
    /\ UNCHANGED <<exchangeVars, tables, todo, follow, history>>

(* The clients that are late are dropped, and the loop starts again. *)
Expire(late) ==
    /\ Idle /\ phase \notin {"poll", "tick"}
    /\ phase' = "poll"
    /\ clients' = clients \ late
    /\ unserved' = unserved \ late
    /\ polled' = [waiters |-> {}, upstream |-> {}, clients |-> {}]
    /\ mark' = 0 /\ batch' = 0
    /\ UNCHANGED <<exchangeVars, sockets, waiters, todo, follow, seen>>

-----------------------------------------------------------------------------
ExpireSome == \E late \in SUBSET (polled.clients \cap clients) : Expire(late)

Loop == Perform \/ FollowUps \/ TickEnds \/ ExpireSome

TickOf(q) == \E x \in ExchangesOf(q), o \in After : Tick(x, o)

Ready ==
    \/ \E q \in Qid : Hangup(q) \/ ReceiveUdp(q) \/ Accept(q) \/ Read(q)
    \/ \E x \in sockets, o \in After : Service(x, o)

DaemonNext == Poll \/ Loop \/ Ready \/ \E q \in Qid : TickOf(q)

DaemonSpec == DaemonInit /\ [][DaemonNext]_daemonVars

ExpiryOf(q) == \E late \in SUBSET (polled.clients \cap clients) : q \in late /\ Expire(late)

(* The thread keeps running, and poll returns no later than the earliest   *)
(* deadline, so the loop goes round while anything waits.  The deadline of *)
(* an exchange or a client is fixed when it is made, so as the loop goes   *)
(* round what waits becomes late.                                          *)
DaemonFairness ==
    /\ WF_daemonVars(Poll \/ Loop)
    /\ \A q \in Qid : SF_daemonVars(TickOf(q) \/ ExpiryOf(q))

FairDaemonSpec == DaemonSpec /\ DaemonFairness

-----------------------------------------------------------------------------
(* Whenever the loop polls, the open sockets are exactly the exchanges the *)
(* engine has outstanding, and the askers kept are exactly the questions   *)
(* it has not answered: no socket leaks and no asker is forgotten, with    *)
(* sends that fail, hangups, timeouts and replies in any order (perform,   *)
(* deliver, upstream send and cancel).                                     *)
TablesAgree == phase = "poll" => sockets = DOMAIN owner /\ waiters = waiting

(* An action that waits its turn in perform is still right when it comes:  *)
(* a send is of an exchange that is outstanding, a cancel is of one that   *)
(* is over and not about to be sent, an answer finds its asker.            *)
PendingActionsCurrent ==
    LET pending == todo \o follow
    IN  \A i \in DOMAIN pending :
            CASE pending[i].do = "send"   -> pending[i].id \in DOMAIN owner
              [] pending[i].do = "cancel" -> /\ pending[i].id \notin DOMAIN owner
                                             /\ Send(pending[i].id) \notin Range(pending)
              [] pending[i].do = "done"   -> pending[i].id \in waiters

(* Between two calls, those who came and were neither replied to nor went  *)
(* away are exactly those being served: nobody accepted is left without a  *)
(* reply, and nobody who had one is still there to get another.            *)
RepliedOnce == Idle => unserved = clients \cup waiters

(* The doors' budgets hold although a connection is counted first as a     *)
(* reader and then as a waiter, in different phases of the loop.           *)
AdmissionBounded ==
    /\ \A door \in {"tcp", "native"} :
          Cardinality(AtDoor(clients \cup waiters, door)) <= MAX_PENDING_CLIENTS
    /\ Cardinality(AtDoor(waiters, "udp")) <= MAX_PENDING_UDP
    /\ \A p \in Range(Peer) :
          Cardinality({q \in AtDoor(waiters, "udp") : Peer[q] = p}) <= MAX_PENDING_UDP_PER_PEER

(* Nobody is kept waiting for ever: a connection that was accepted, or a   *)
(* datagram that was taken, is answered or dropped, whatever the servers   *)
(* and the peer do.                                                        *)
EveryRequestEnds ==
    \A q \in Qid : (q \in clients \cup waiters) ~> (q \notin clients \cup waiters)
=============================================================================
