------------------------------ MODULE MCDaemon ------------------------------
(* Small instances of Daemon. *)
EXTENDS Daemon

mcDoor == [q \in Qid |-> CASE q \in {"n1", "n2"} -> "native"
                           [] q \in {"t1", "t2"} -> "tcp"
                           [] OTHER -> "udp"]
mcPeer == [q \in Qid |-> IF q \in {"u1", "u2"} THEN "p" ELSE "r"]

(* Answered at once, one exchange, a lookup of two of which one may retry. *)
mcStarts == {<<>>, <<0>>, <<0, 1>>}
=============================================================================
