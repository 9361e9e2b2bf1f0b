----------------------------- MODULE Exchanges -----------------------------
(***************************************************************************)
(* The engine as the daemon sees it: questions that wait for an answer and *)
(* upstream exchanges made for them.  Each call to the engine starts, ends *)
(* or replaces exchanges as below; module Engine is checked to implement   *)
(* this (EngineExchanges), and module Daemon is built on it.               *)
(*                                                                         *)
(* fuel bounds what may follow an exchange: the attempts and candidate     *)
(* names its task has left.                                                *)
(***************************************************************************)
EXTENDS Naturals, Sequences, Functions

CONSTANTS Qid, MaxFuel

VARIABLES
    owner,      \* exchange -> the question it is for, and its fuel
    waiting,    \* the questions without an answer yet
    next        \* the next id

exchangeVars == <<owner, waiting, next>>

Fuel == 0..MaxFuel

ExchangesOf(q) == {x \in DOMAIN owner : owner[x].qid = q}

ExchangesInit == owner = <<>> /\ waiting = {} /\ next = 1

(* A question of n tasks; those the engine cannot answer by itself are     *)
(* sent, with the given fuels.  Task ids come first.                       *)
ask(q, n, fuels) ==
    LET first == next + n
        new   == first..(first + Len(fuels) - 1)
    IN  /\ q \notin waiting
        /\ owner' = [x \in DOMAIN owner \cup new |->
                        IF x \in new THEN [qid |-> q, fuel |-> fuels[x - first + 1]]
                        ELSE owner[x]]
        /\ waiting' = IF fuels = <<>> THEN waiting ELSE waiting \cup {q}
        /\ next' = first + Len(fuels)

(* An exchange is over, and another one follows for the same task. *)
retry(x, fuel) ==
    /\ fuel < owner[x].fuel
    /\ owner' = [y \in (DOMAIN owner \cup {next}) \ {x} |->
                    IF y = next THEN [qid |-> owner[x].qid, fuel |-> fuel] ELSE owner[y]]
    /\ next' = next + 1
    /\ UNCHANGED waiting

(* An exchange is over and so is its task: the question is answered once   *)
(* none of its tasks is left.                                              *)
over(x) ==
    /\ owner' = Restrict(owner, DOMAIN owner \ {x})
    /\ waiting' = IF ExchangesOf(owner[x].qid) = {x} THEN waiting \ {owner[x].qid} ELSE waiting
    /\ UNCHANGED next

abandon(q) ==
    /\ owner' = Restrict(owner, DOMAIN owner \ ExchangesOf(q))
    /\ waiting' = waiting \ {q}
    /\ UNCHANGED next

Fuels == {<<>>} \cup {<<f>> : f \in Fuel} \cup (Fuel \X Fuel)

ExchangesNext ==
    \/ \E q \in Qid :
          \/ \E n \in 0..2, fuels \in Fuels : Len(fuels) <= n /\ ask(q, n, fuels)
          \/ abandon(q)
    \/ \E x \in DOMAIN owner : over(x) \/ \E f \in Fuel : retry(x, f)

ExchangesSpec == ExchangesInit /\ [][ExchangesNext]_exchangeVars
=============================================================================
