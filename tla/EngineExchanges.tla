-------------------------- MODULE EngineExchanges --------------------------
(* The engine implements the view of it that the daemon relies on. *)
EXTENDS EngineInv

CONSTANT MaxCandidates  \* no question has more candidate names than this

ASSUME ExchangesConstants ==
    /\ MaxCandidates \in Nat
    /\ \A s \in Snapshots, f \in Fallbacks, u \in Resolves \cup Lookups :
           Len(candidates(s, f, u.name)) <= MaxCandidates

(* The exchanges, with the question each is for and what may still follow  *)
(* it: attempts and candidate names.                                       *)
Outstanding ==
    [x \in DOMAIN txs |->
        LET task == tasks[txs[x].task]
        IN  [qid |-> task.owner.qid,
             fuel |-> MAX_ATTEMPTS - task.attempt + Len(task.candidates)]]

View == INSTANCE Exchanges WITH
    MaxFuel <- MAX_ATTEMPTS + MaxCandidates,
    owner   <- Outstanding,
    waiting <- Waiting,
    next    <- next_id

(* What the refinement needs besides IInv: the configuration is one that   *)
(* was set, and no exchange has more to follow it than its question had.   *)
Fueled ==
    /\ scopes \in Snapshots /\ fallback \in Fallbacks
    /\ \A x \in DOMAIN txs : Outstanding[x].fuel \in View!Fuel

(* The engine implements Exchanges: every call starts, replaces or ends    *)
(* exchanges only of the question it is about, a question is finished      *)
(* exactly when its last exchange ends, ids are never used twice, and what *)
(* may follow an exchange shrinks with every attempt and candidate name    *)
(* (resolve, lookup, received, failed, local_failed, tick, abandon).       *)
ImplementsExchanges == View!ExchangesSpec
=============================================================================
