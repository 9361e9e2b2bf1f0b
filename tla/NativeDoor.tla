----------------------------- MODULE NativeDoor -----------------------------
(***************************************************************************)
(* One request over the native socket, from the caller in libresolvd       *)
(* (channel.rs, lib.rs) to the accept loop, the reader of requests         *)
(* (control.rs), the queue of replies (reply_queue.rs) and back.  A reply  *)
(* is FRAME bytes; the socket of connection c holds ROOM[c] of them until  *)
(* the caller reads, so a reply may have to be written in pieces.  Time is *)
(* abstract: a deadline may pass whenever something waits for it.          *)
(* Callers in Stalled (programs of their own, not libresolvd) never read.  *)
(***************************************************************************)
EXTENDS Naturals, Sequences, FiniteSets

CONSTANTS Conn, Stalled, FRAME, ROOM, MAX_PENDING_REPLIES

ASSUME DoorConstants ==
    /\ FRAME \in Nat \ {0}
    /\ ROOM \in [Conn -> Nat \ {0}]
    /\ Stalled \subseteq Conn
    /\ MAX_PENDING_REPLIES \in Nat

VARIABLES
    call,       \* the caller: "idle", "calling", "answered" or "failed"
    stage,      \* the daemon's end: "none", "backlog", "reading", "waiting",
                \* "pending" (in the reply queue) or "closed"
    sent,       \* the bytes of the reply written so far
    wire,       \* the bytes in the socket, each by its place in the frame
    got,        \* the bytes the caller has read
    paused,     \* the listener is not polled until the retry delay is over
    refused     \* history: replies dropped because the queue was full

doorVars == <<call, stage, sent, wire, got, paused, refused>>

Frame == [i \in 1..FRAME |-> i]

Pending == {c \in Conn : stage[c] = "pending"}

(* The caller no longer reads: it closed its end. *)
HungUp(c) == call[c] \in {"answered", "failed"}

DoorInit ==
    /\ call = [c \in Conn |-> "idle"]
    /\ stage = [c \in Conn |-> "none"]
    /\ sent = [c \in Conn |-> 0]
    /\ wire = [c \in Conn |-> <<>>]
    /\ got = [c \in Conn |-> <<>>]
    /\ paused = FALSE
    /\ refused = {}

-----------------------------------------------------------------------------
(* The caller *)

(* connect and send; a full backlog is an error, not a wait. *)
connect(c) ==
    /\ call[c] = "idle"
    /\ \/ call' = [call EXCEPT ![c] = "calling"] /\ stage' = [stage EXCEPT ![c] = "backlog"]
       \/ call' = [call EXCEPT ![c] = "failed"] /\ UNCHANGED stage
    /\ UNCHANGED <<sent, wire, got, paused, refused>>

(* Read no further than the end of the frame, and decode it when whole. *)
receive(c) ==
    LET read == got[c] \o wire[c]
    IN  /\ call[c] = "calling" /\ c \notin Stalled
        /\ wire[c] # <<>>
        /\ got' = [got EXCEPT ![c] = read]
        /\ wire' = [wire EXCEPT ![c] = <<>>]
        /\ call' = [call EXCEPT ![c] = IF Len(read) = FRAME THEN "answered" ELSE @]
        /\ UNCHANGED <<stage, sent, paused, refused>>

(* The daemon closed before the frame was whole. *)
receive_eof(c) ==
    /\ call[c] = "calling" /\ c \notin Stalled
    /\ wire[c] = <<>> /\ stage[c] = "closed"
    /\ call' = [call EXCEPT ![c] = "failed"]
    /\ UNCHANGED <<stage, sent, wire, got, paused, refused>>

(* The deadline of the whole exchange passes; or the program goes away. *)
timeout(c) ==
    /\ call[c] = "calling"
    /\ call' = [call EXCEPT ![c] = "failed"]
    /\ UNCHANGED <<stage, sent, wire, got, paused, refused>>

-----------------------------------------------------------------------------
(* The listener *)

(* A connection is taken, or closed at once because the door is full. *)
accept(c) ==
    /\ stage[c] = "backlog" /\ ~paused
    /\ \E s \in {"reading", "closed"} : stage' = [stage EXCEPT ![c] = s]
    /\ UNCHANGED <<call, sent, wire, got, paused, refused>>

(* accept failed: the readable listener is left alone for RETRY_DELAY. *)
accept_failed ==
    /\ \E c \in Conn : stage[c] = "backlog"
    /\ ~paused
    /\ paused' = TRUE
    /\ UNCHANGED <<call, stage, sent, wire, got, refused>>

(* Fault: the pause is never over. *)
RetryDelayEnds_never ==
    /\ paused
    /\ UNCHANGED doorVars

RetryDelayEnds ==
    /\ paused
    /\ paused' = FALSE
    /\ UNCHANGED <<call, stage, sent, wire, got, refused>>

-----------------------------------------------------------------------------
(* The queue of replies *)

(* write_once: what there is room for, nothing when there is none.  The    *)
(* sockets do not block, so no write sleeps and none is interrupted.       *)
Written(c) ==
    LET room == ROOM[c] - Len(wire[c])
        left == FRAME - sent[c]
    IN  IF room < left THEN room ELSE left

(* Fault: the place in the frame is not moved on by what was written. *)
Write_again(c, to) ==
    /\ wire' = [wire EXCEPT ![c] = @ \o SubSeq(Frame, 1, Written(c))]
    /\ sent' = [sent EXCEPT ![c] = @ + Written(c)]
    /\ stage' = [stage EXCEPT ![c] = IF sent[c] + Written(c) = FRAME THEN "closed" ELSE to]

(* Write on from where the last write ended; the connection is closed      *)
(* with the last byte, and otherwise goes to the stage to.                 *)
Write(c, to) ==
    /\ wire' = [wire EXCEPT ![c] = @ \o SubSeq(Frame, sent[c] + 1, sent[c] + Written(c))]
    /\ sent' = [sent EXCEPT ![c] = @ + Written(c)]
    /\ stage' = [stage EXCEPT ![c] = IF sent[c] + Written(c) = FRAME THEN "closed" ELSE to]

Close(c) == stage' = [stage EXCEPT ![c] = "closed"] /\ UNCHANGED <<sent, wire>>

(* Fault: a full queue turns replies away untried. *)
enqueue_fullFirst(c) ==
    /\ IF HungUp(c) THEN Close(c) /\ UNCHANGED refused
       ELSE IF Cardinality(Pending) >= MAX_PENDING_REPLIES
            THEN Close(c) /\ refused' = refused \cup {c}
       ELSE Write(c, "pending") /\ UNCHANGED refused
    /\ UNCHANGED <<call, got, paused>>

(* Try once even when the queue is full; then wait in it, or be dropped. *)
enqueue(c) ==
    /\ IF HungUp(c) THEN Close(c) /\ UNCHANGED refused
       ELSE IF Cardinality(Pending) < MAX_PENDING_REPLIES
            THEN Write(c, "pending") /\ UNCHANGED refused
       ELSE /\ Write(c, "closed")
            /\ refused' = IF Written(c) = FRAME THEN refused ELSE refused \cup {c}
    /\ UNCHANGED <<call, got, paused>>

(* The socket is ready: an error or the last byte ends it. *)
service_replies(c) ==
    /\ stage[c] = "pending"
    /\ IF HungUp(c) THEN Close(c) ELSE Write(c, "pending")
    /\ UNCHANGED <<call, got, paused, refused>>

(* The write deadline has passed: the reply is dropped where it stands. *)
expire(c) ==
    /\ stage[c] = "pending"
    /\ Close(c)
    /\ UNCHANGED <<call, got, paused, refused>>

-----------------------------------------------------------------------------
(* The reader of requests *)

(* A whole request: a question that has to wait, or one answered at once. *)
read_request(c) ==
    /\ stage[c] = "reading"
    /\ ~HungUp(c)
    /\ stage' = [stage EXCEPT ![c] = "waiting"]
    /\ UNCHANGED <<call, sent, wire, got, paused, refused>>

reply_at_once(c) == stage[c] = "reading" /\ enqueue(c)

(* End of file before a whole request, or CLIENT_TIMEOUT. *)
read_closed(c) ==
    /\ stage[c] = "reading"
    /\ Close(c)
    /\ UNCHANGED <<call, got, paused, refused>>

(* The engine has answered. *)
reply(c) == stage[c] = "waiting" /\ enqueue(c)

(* A waiting peer hung up, and its question is abandoned. *)
hangup(c) ==
    /\ stage[c] = "waiting" /\ HungUp(c)
    /\ Close(c)
    /\ UNCHANGED <<call, got, paused, refused>>

-----------------------------------------------------------------------------
Serve(c) == read_closed(c) \/ reply(c) \/ hangup(c) \/ expire(c)

DoorNext ==
    \/ accept_failed \/ RetryDelayEnds
    \/ \E c \in Conn :
          \/ connect(c) \/ receive(c) \/ receive_eof(c) \/ timeout(c)
          \/ accept(c) \/ read_request(c) \/ reply_at_once(c) \/ service_replies(c)
          \/ Serve(c)

(* Every wait of the daemon has a deadline that its loop wakes for: the    *)
(* request's, the question's (Daemon!EveryRequestEnds), the write's, the   *)
(* retry delay.  accept does not fail for ever.  A library caller reads    *)
(* what arrives.                                                           *)
DoorFairness ==
    /\ WF_doorVars(RetryDelayEnds)
    /\ \A c \in Conn :
          /\ SF_doorVars(accept(c))
          /\ WF_doorVars(Serve(c))
          /\ WF_doorVars(receive(c) \/ receive_eof(c))

DoorSpec == DoorInit /\ [][DoorNext]_doorVars /\ DoorFairness

-----------------------------------------------------------------------------
(* Whatever pieces a reply is written and read in, and wherever a timeout, *)
(* a hangup or a full queue cuts it off, the caller sees a prefix of the   *)
(* frame, and reports an answer only when it has all of it.                *)
RepliesWhole ==
    \A c \in Conn :
        /\ \E n \in 0..FRAME : got[c] \o wire[c] = SubSeq(Frame, 1, n)
        /\ call[c] = "answered" => got[c] = Frame

(* The queue is bounded, and peers that do not drain their socket cannot   *)
(* exclude one that does: a reply is dropped for want of a place only when *)
(* the peer's own socket could not take it.                                *)
QueueFair ==
    /\ Cardinality(Pending) <= MAX_PENDING_REPLIES
    /\ \A c \in refused : ROOM[c] < FRAME

(* Every connection is closed in the end, also those whose peer stalls,    *)
(* and every call of the library returns.                                  *)
EveryCallEnds ==
    \A c \in Conn :
        /\ stage[c] # "none" ~> stage[c] = "closed"
        /\ (call[c] = "calling" /\ c \notin Stalled) ~> HungUp(c)
=============================================================================
