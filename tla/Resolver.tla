------------------------------ MODULE Resolver ------------------------------
(***************************************************************************)
(* What the engine promises its callers, whatever the network and the      *)
(* configuration do: a question put to it is answered at most once, with   *)
(* one outcome, and never after its asker has gone.                        *)
(***************************************************************************)
EXTENDS Sequences

CONSTANT Qid

VARIABLES
    asked,   \* the questions put so far
    gone,    \* the questions their asker abandoned while they waited
    done     \* question -> the outcomes delivered for it, in order

vars == <<asked, gone, done>>

Outcome == {"found", "notfound", "unavailable"}

Waiting == {q \in asked \ gone : done[q] = <<>>}

Init ==
    /\ asked = {}
    /\ gone = {}
    /\ done = [q \in Qid |-> <<>>]

(* A question is put, and left waiting. *)
Ask(q) ==
    /\ q \notin asked
    /\ asked' = asked \cup {q}
    /\ UNCHANGED <<gone, done>>

(* A question is put and answered within the call: from a local name, the  *)
(* cache, or because nothing can be asked.                                 *)
AskAndAnswer(q, outcome) ==
    /\ q \notin asked
    /\ asked' = asked \cup {q}
    /\ done' = [done EXCEPT ![q] = <<outcome>>]
    /\ UNCHANGED gone

Answer(q, outcome) ==
    /\ q \in Waiting
    /\ done' = [done EXCEPT ![q] = <<outcome>>]
    /\ UNCHANGED <<asked, gone>>

Abandon(q) ==
    /\ q \in Waiting
    /\ gone' = gone \cup {q}
    /\ UNCHANGED <<asked, done>>

Next ==
    \E q \in Qid :
        \/ Ask(q)
        \/ Abandon(q)
        \/ \E o \in Outcome : AskAndAnswer(q, o) \/ Answer(q, o)

Spec == Init /\ [][Next]_vars
=============================================================================
