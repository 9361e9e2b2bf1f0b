---------------------------- MODULE MCNativeDoor ----------------------------
(* A small instance of NativeDoor: a caller whose socket takes a reply     *)
(* whole, one that needs several writes, and a peer that never reads.      *)
EXTENDS NativeDoor

mcROOM == [c \in Conn |-> IF c = "wide" THEN FRAME ELSE 2]
=============================================================================
