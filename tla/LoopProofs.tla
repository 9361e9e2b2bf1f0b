----------------------------- MODULE LoopProofs -----------------------------
(***************************************************************************)
(* What the daemon's loop exchanges with the world.  Replies over the      *)
(* native socket, for any callers, socket buffers, size of frame and       *)
(* length of the queue: what is written and read in pieces is the frame up *)
(* to some place, and the queue is bounded and fair.  And the engine's     *)
(* configuration, for any number of views, faults, values and edits:       *)
(* behind a live stream the scopes are netd's, behind an armed watch the   *)
(* configuration is the registry's, and the delay between attempts counts  *)
(* the failures.                                                           *)
(***************************************************************************)
EXTENDS NativeDoor, Inputs, FiniteSetTheorems, SequenceTheorems, TLAPS

-----------------------------------------------------------------------------
(* Replies over the native socket *)

(* The bytes of the frame after the first a, up to the first b. *)
Piece(a, b) == SubSeq(Frame, a + 1, b)

DoorTypeOK ==
    /\ call \in [Conn -> {"idle", "calling", "answered", "failed"}]
    /\ stage \in [Conn -> {"none", "backlog", "reading", "waiting", "pending", "closed"}]
    /\ sent \in [Conn -> Nat]
    /\ wire \in [Conn -> Seq(Nat)]
    /\ got \in [Conn -> Seq(Nat)]
    /\ refused \subseteq Conn

(* What the caller has read is the frame as far as it goes, and what is in *)
(* the socket goes on from there to what was written.  Nothing is written  *)
(* before the reply is in the queue, so a reply that finds the queue full  *)
(* has its socket to itself.                                               *)
Whole(c) ==
    /\ Len(got[c]) <= sent[c] /\ sent[c] <= FRAME
    /\ got[c] = Piece(0, Len(got[c]))
    /\ wire[c] = Piece(Len(got[c]), sent[c])
    /\ Len(wire[c]) <= ROOM[c]
    /\ stage[c] \in {"none", "backlog", "reading", "waiting"} => sent[c] = 0
    /\ call[c] = "idle" => stage[c] = "none"
    /\ call[c] = "answered" => Len(got[c]) = FRAME

Bounded == IsFiniteSet(Pending) /\ Cardinality(Pending) <= MAX_PENDING_REPLIES

Roomless == \A c \in refused : ROOM[c] < FRAME

(* The inductive invariant. *)
DoorInv == DoorTypeOK /\ (\A c \in Conn : Whole(c)) /\ Bounded /\ Roomless

-----------------------------------------------------------------------------
(* Pieces of the frame *)

(* The frame is a sequence of FRAME bytes. *)
LEMMA FrameSeq == Frame \in Seq(Nat) /\ Len(Frame) = FRAME /\ FRAME \in Nat \ {0}
BY DoorConstants DEF Frame

(* A piece is as long as what it spans. *)
LEMMA PieceSeq ==
    ASSUME NEW a \in Nat, NEW b \in Nat, a <= b, b <= FRAME
    PROVE  Piece(a, b) \in Seq(Nat) /\ Len(Piece(a, b)) = b - a
BY DoorConstants DEF Frame, Piece

(* Pieces that meet make one: no gap, no repeat. *)
LEMMA PiecesMeet ==
    ASSUME NEW a \in Nat, NEW b \in Nat, NEW c \in Nat, a <= b, b <= c, c <= FRAME
    PROVE  Piece(a, b) \o Piece(b, c) = Piece(a, c)
<1>1. a + 1 \in 1..(Len(Frame) + 1) /\ b \in ((a + 1) - 1)..Len(Frame) /\ c \in b..Len(Frame)
  BY FrameSeq
<1> QED BY ZenonT(40), <1>1, FrameSeq, ConcatAdjacentSubSeq DEF Piece

(* A piece from the start is a prefix, and the longest one is the frame. *)
LEMMA PiecePrefix ==
    ASSUME NEW b \in Nat, b <= FRAME
    PROVE  /\ \E n \in 0..FRAME : Piece(0, b) = SubSeq(Frame, 1, n)
           /\ Piece(0, FRAME) = Frame /\ Piece(0, 0) = <<>>
<1>1. b \in 0..FRAME /\ Piece(0, b) = SubSeq(Frame, 1, b)
  BY DoorConstants DEF Piece
<1>2. Piece(0, FRAME) = Frame /\ Piece(0, 0) = <<>>
  BY DoorConstants DEF Frame, Piece
<1> QED BY ZenonT(40), <1>1, <1>2

-----------------------------------------------------------------------------
(* What a step may change *)

Stages == {"none", "backlog", "reading", "waiting", "pending", "closed"}

(* The connections other than c are left alone. *)
Only(c) ==
    \A d \in Conn \ {c} :
        /\ call'[d] = call[d] /\ stage'[d] = stage[d] /\ sent'[d] = sent[d]
        /\ wire'[d] = wire[d] /\ got'[d] = got[d]

(* A step at c alone has to keep only c's reply whole. *)
LEMMA OnlyOne ==
    ASSUME DoorInv, NEW c \in Conn, Only(c), Whole(c)'
    PROVE  \A d \in Conn : Whole(d)'
<1>1. ASSUME NEW d \in Conn \ {c} PROVE Whole(d)'
  <2>1. Whole(d) /\ call'[d] = call[d] /\ stage'[d] = stage[d] /\ sent'[d] = sent[d]
        /\ wire'[d] = wire[d] /\ got'[d] = got[d]
    BY ZenonT(40) DEF DoorInv, Only
  <2> QED BY ZenonT(40), <2>1 DEF Whole
<1> QED BY ZenonT(40), <1>1

(* The queue does not grow unless there is a place in it. *)
LEMMA QueueKept ==
    ASSUME Bounded, Pending' \subseteq Pending
    PROVE  Bounded'
<1> DEFINE P == Pending
           Q == Pending'
<1>1. IsFiniteSet(P) /\ Cardinality(P) <= MAX_PENDING_REPLIES /\ Q \subseteq P
  BY DEF Bounded
<1> HIDE DEF P, Q
<1>2. IsFiniteSet(Q) /\ Cardinality(Q) <= Cardinality(P)
  BY <1>1, FS_Subset
<1>3. Cardinality(P) \in Nat /\ Cardinality(Q) \in Nat
  BY <1>1, <1>2, FS_CardinalityType
<1>4. IsFiniteSet(Q) /\ Cardinality(Q) <= MAX_PENDING_REPLIES
  BY <1>1, <1>2, <1>3, DoorConstants
<1> QED BY <1>4 DEF Bounded, Q

(* A reply that joins when there is a place finds the queue bounded after. *)
LEMMA QueueGrows ==
    ASSUME Bounded, NEW c, Cardinality(Pending) < MAX_PENDING_REPLIES,
           Pending' \subseteq Pending \cup {c}
    PROVE  Bounded'
<1> DEFINE P == Pending
           Q == Pending'
<1>1. IsFiniteSet(P) /\ Cardinality(P) < MAX_PENDING_REPLIES /\ Q \subseteq P \cup {c}
  BY DEF Bounded
<1> HIDE DEF P, Q
<1>2. /\ IsFiniteSet(P \cup {c}) /\ Cardinality(P) \in Nat
      /\ Cardinality(P \cup {c}) \in {Cardinality(P), Cardinality(P) + 1}
  BY <1>1, FS_AddElement, FS_CardinalityType
<1>3. IsFiniteSet(Q) /\ Cardinality(Q) <= Cardinality(P \cup {c})
  BY <1>1, <1>2, FS_Subset
<1>4. Cardinality(Q) \in Nat
  BY <1>3, FS_CardinalityType
<1>5. IsFiniteSet(Q) /\ Cardinality(Q) <= MAX_PENDING_REPLIES
  BY SMTT(30), <1>1, <1>2, <1>3, <1>4, DoorConstants
<1> QED BY <1>5 DEF Bounded, Q

(* write_once: what is written goes on from what was, and there is room    *)
(* for it.                                                                 *)
LEMMA WriteKeeps ==
    ASSUME DoorInv, NEW c \in Conn, NEW to \in {"pending", "closed"}, Write(c, to),
           UNCHANGED <<call, got>>, stage[c] \in {"reading", "waiting", "pending"}
    PROVE  /\ sent' \in [Conn -> Nat] /\ wire' \in [Conn -> Seq(Nat)] /\ stage' \in [Conn -> Stages]
           /\ Only(c) /\ Whole(c)'
           /\ stage'[c] \in {"closed", to}
<1> DEFINE s == sent[c]
           g == Len(got[c])
           w == Written(c)
<1>1. /\ s \in Nat /\ g \in Nat /\ g <= s /\ s <= FRAME /\ got[c] = Piece(0, g)
      /\ wire[c] = Piece(g, s) /\ Len(wire[c]) <= ROOM[c] /\ call[c] # "idle"
      /\ call[c] = "answered" => g = FRAME
  BY DEF DoorInv, DoorTypeOK, Whole
<1>2. FRAME \in Nat /\ ROOM[c] \in Nat
  BY DoorConstants
<1>3. Len(wire[c]) = s - g
  BY ZenonT(40), <1>1, PieceSeq, <1>2
<1>4. w \in Nat /\ s + w <= FRAME /\ w <= ROOM[c] - (s - g)
  BY SMTT(30), <1>1, <1>2, <1>3 DEF Written
<1>5. Piece(g, s) \o Piece(s, s + w) = Piece(g, s + w)
  <2> HIDE DEF s, g, w
  <2>1. s + w \in Nat /\ s <= s + w
    BY <1>1, <1>4
  <2> QED BY ZenonT(40), <1>1, <1>2, <1>4, <2>1, PiecesMeet
<1>6. Piece(g, s + w) \in Seq(Nat) /\ Len(Piece(g, s + w)) = (s + w) - g
  <2> HIDE DEF s, g, w
  <2>1. s + w \in Nat /\ g <= s + w
    BY <1>1, <1>4
  <2> QED BY ZenonT(40), <1>1, <1>2, <1>4, <2>1, PieceSeq
<1>7. /\ wire' = [wire EXCEPT ![c] = Piece(g, s + w)]
      /\ sent' = [sent EXCEPT ![c] = s + w]
      /\ stage' = [stage EXCEPT ![c] = IF s + w = FRAME THEN "closed" ELSE to]
  <2>1. wire' = [wire EXCEPT ![c] = wire[c] \o Piece(s, s + w)]
    BY DEF Write, Piece
  <2> QED BY ZenonT(40), <1>1, <1>5, <2>1 DEF Write
<1> HIDE DEF w
<1>8. /\ sent' \in [Conn -> Nat] /\ wire' \in [Conn -> Seq(Nat)] /\ stage' \in [Conn -> Stages]
      /\ sent'[c] = s + w /\ wire'[c] = Piece(g, s + w) /\ stage'[c] \in {"closed", to}
  BY SMTT(30), <1>1, <1>4, <1>6, <1>7 DEF DoorInv, DoorTypeOK, Stages
<1>9. Only(c)
  BY <1>7 DEF Only, DoorInv, DoorTypeOK
<1>10. Whole(c)'
  <2>1. /\ got'[c] = got[c] /\ Len(got'[c]) = g /\ call'[c] = call[c]
        /\ stage'[c] \notin {"none", "backlog", "reading", "waiting"}
    BY <1>8
  <2> HIDE DEF s, g
  <2>2. g <= s + w /\ Len(wire'[c]) <= ROOM[c]
    BY SMTT(30), <1>1, <1>2, <1>4, <1>6, <1>8
  <2> QED BY ZenonT(40), <1>1, <1>4, <1>8, <2>1, <2>2 DEF Whole
<1> QED BY <1>8, <1>9, <1>10

(* The queue after a step at c alone. *)
LEMMA PendingAfter ==
    ASSUME DoorInv, NEW c \in Conn, Only(c)
    PROVE  /\ Pending' \subseteq Pending \cup {c}
           /\ stage'[c] # "pending" \/ stage[c] = "pending" => Pending' \subseteq Pending
BY DEF Only, Pending

(* A reply that is dropped leaves a prefix behind. *)
LEMMA CloseKeeps ==
    ASSUME DoorInv, NEW c \in Conn, stage[c] # "none", Close(c), UNCHANGED <<call, got, refused>>
    PROVE  DoorInv'
<1>1. /\ stage' \in [Conn -> Stages] /\ stage'[c] = "closed" /\ Only(c)
  BY DEF Close, Only, DoorInv, DoorTypeOK, Stages
<1>2. DoorTypeOK'
  BY <1>1 DEF DoorInv, DoorTypeOK, Stages, Close
<1>3. Whole(c)'
  BY <1>1 DEF DoorInv, Whole, Close
<1>4. Bounded'
  BY <1>1, PendingAfter, QueueKept DEF DoorInv
<1>5. Roomless'
  BY ZenonT(40) DEF DoorInv, Roomless
<1> QED BY ZenonT(40), <1>1, <1>2, <1>3, <1>4, <1>5, OnlyOne DEF DoorInv

(* A reply that finds the queue full and does not fit its empty socket is  *)
(* larger than the socket.                                                 *)
LEMMA RefusedForRoom ==
    ASSUME DoorInv, NEW c \in Conn, sent[c] = 0, Written(c) # FRAME
    PROVE  ROOM[c] < FRAME
<1>1. Len(got[c]) \in Nat /\ Len(got[c]) <= 0 /\ wire[c] = Piece(Len(got[c]), 0)
  BY DEF DoorInv, DoorTypeOK, Whole
<1>2. Len(got[c]) = 0 /\ wire[c] = Piece(0, 0)
  BY <1>1
<1>3. Len(wire[c]) = 0
  BY <1>2, FrameSeq, PieceSeq
<1> QED BY <1>3, DoorConstants DEF Written

(* A first write: the rest is queued, or dropped if the queue is full. *)
LEMMA EnqueueKeeps ==
    ASSUME DoorInv, NEW c \in Conn, stage[c] \in {"reading", "waiting"}, enqueue(c)
    PROVE  DoorInv'
<1>1. CASE HungUp(c)
  BY <1>1, CloseKeeps DEF enqueue
<1>2. CASE ~HungUp(c) /\ Cardinality(Pending) < MAX_PENDING_REPLIES
  <2>1. Write(c, "pending") /\ UNCHANGED <<call, got, refused>>
    BY <1>2 DEF enqueue
  <2>2. /\ sent' \in [Conn -> Nat] /\ wire' \in [Conn -> Seq(Nat)] /\ stage' \in [Conn -> Stages]
        /\ Only(c) /\ Whole(c)'
    BY <2>1, WriteKeeps
  <2>3. DoorTypeOK'
    BY <2>1, <2>2 DEF DoorInv, DoorTypeOK, Stages
  <2>4. Bounded'
    BY ZenonT(40), <1>2, <2>2, PendingAfter, QueueGrows DEF DoorInv
  <2>5. Roomless'
    BY ZenonT(40), <2>1 DEF DoorInv, Roomless
  <2> QED BY ZenonT(40), <2>2, <2>3, <2>4, <2>5, OnlyOne DEF DoorInv
<1>3. CASE ~HungUp(c) /\ ~(Cardinality(Pending) < MAX_PENDING_REPLIES)
  <2>1. /\ Write(c, "closed") /\ UNCHANGED <<call, got>>
        /\ refused' = IF Written(c) = FRAME THEN refused ELSE refused \cup {c}
    BY <1>3 DEF enqueue
  <2>2. /\ sent' \in [Conn -> Nat] /\ wire' \in [Conn -> Seq(Nat)] /\ stage' \in [Conn -> Stages]
        /\ Only(c) /\ Whole(c)' /\ stage'[c] = "closed"
    BY <2>1, WriteKeeps
  <2>3. DoorTypeOK'
    BY <2>1, <2>2 DEF DoorInv, DoorTypeOK, Stages
  <2>4. Bounded'
    BY ZenonT(40), <2>2, PendingAfter, QueueKept DEF DoorInv
  <2>5. Roomless'
    <3>1. sent[c] = 0
      BY DEF DoorInv, Whole
    <3> QED BY SMTT(30), <2>1, <3>1, RefusedForRoom DEF DoorInv, Roomless
  <2> QED BY ZenonT(40), <2>2, <2>3, <2>4, <2>5, OnlyOne DEF DoorInv
<1> QED BY <1>1, <1>2, <1>3

(* A further write. *)
LEMMA ServiceRepliesKeeps ==
    ASSUME DoorInv, NEW c \in Conn, service_replies(c)
    PROVE  DoorInv'
<1>1. stage[c] = "pending" /\ UNCHANGED <<call, got, refused>>
  BY DEF service_replies
<1>2. CASE HungUp(c)
  BY <1>1, <1>2, CloseKeeps DEF service_replies
<1>3. CASE ~HungUp(c)
  <2>1. Write(c, "pending")
    BY <1>3 DEF service_replies
  <2>2. /\ sent' \in [Conn -> Nat] /\ wire' \in [Conn -> Seq(Nat)] /\ stage' \in [Conn -> Stages]
        /\ Only(c) /\ Whole(c)'
    BY SMTT(30), <1>1, <2>1, WriteKeeps
  <2>3. DoorTypeOK'
    BY <1>1, <2>2 DEF DoorInv, DoorTypeOK, Stages
  <2>4. Bounded'
    BY SMTT(30), <1>1, <2>2, PendingAfter, QueueKept DEF DoorInv
  <2>5. Roomless'
    BY ZenonT(40), <1>1 DEF DoorInv, Roomless
  <2> QED BY ZenonT(40), <2>2, <2>3, <2>4, <2>5, OnlyOne DEF DoorInv
<1> QED BY <1>2, <1>3

-----------------------------------------------------------------------------
(* The caller *)

(* What was read is the frame as far as it was written. *)
LEMMA ReceiveKeeps ==
    ASSUME DoorInv, NEW c \in Conn, receive(c)
    PROVE  DoorInv'
<1> DEFINE s == sent[c]
           g == Len(got[c])
           read == got[c] \o wire[c]
<1>1. /\ s \in Nat /\ g \in Nat /\ g <= s /\ s <= FRAME /\ got[c] = Piece(0, g)
      /\ wire[c] = Piece(g, s) /\ FRAME \in Nat /\ ROOM[c] \in Nat
      /\ stage[c] \in {"none", "backlog", "reading", "waiting"} => s = 0
  BY DoorConstants DEF DoorInv, DoorTypeOK, Whole
<1>2. read = Piece(0, s) /\ read \in Seq(Nat) /\ Len(read) = s
  <2> HIDE DEF s, g
  <2>1. 0 \in Nat /\ 0 <= g /\ 0 <= s /\ s - 0 = s
    BY <1>1
  <2>2. Piece(0, g) \o Piece(g, s) = Piece(0, s)
    BY ZenonT(40), <1>1, <2>1, PiecesMeet
  <2>3. Piece(0, s) \in Seq(Nat) /\ Len(Piece(0, s)) = s
    BY <1>1, <2>1, PieceSeq
  <2> QED BY ZenonT(40), <1>1, <2>2, <2>3
<1>3. Piece(s, s) = <<>>
  <2> HIDE DEF s
  <2>1. s + 1 \in Int /\ s \in Int /\ s < s + 1
    BY <1>1
  <2> QED BY ZenonT(40), <2>1, SubSeqEmpty DEF Piece
<1>4. /\ got' = [got EXCEPT ![c] = read] /\ wire' = [wire EXCEPT ![c] = <<>>]
      /\ call' = [call EXCEPT ![c] = IF Len(read) = FRAME THEN "answered" ELSE call[c]]
      /\ call[c] = "calling" /\ UNCHANGED <<stage, sent, refused>>
  BY DEF receive
<1> HIDE DEF read
<1>5. /\ got' \in [Conn -> Seq(Nat)] /\ wire' \in [Conn -> Seq(Nat)]
      /\ call' \in [Conn -> {"idle", "calling", "answered", "failed"}]
      /\ got'[c] = read /\ wire'[c] = <<>> /\ Only(c)
      /\ call'[c] = IF s = FRAME THEN "answered" ELSE "calling"
  BY <1>2, <1>4 DEF DoorInv, DoorTypeOK, Only
<1>6. DoorTypeOK'
  BY <1>4, <1>5 DEF DoorInv, DoorTypeOK
<1>7. Whole(c)'
  <2>1. /\ sent'[c] = s /\ stage'[c] = stage[c] /\ Len(got'[c]) = s /\ got'[c] = Piece(0, s)
        /\ wire'[c] = Piece(s, s) /\ Len(wire'[c]) = 0
    BY SMTT(30), <1>2, <1>3, <1>4, <1>5
  <2> HIDE DEF s
  <2>2. s <= s /\ 0 <= ROOM[c] /\ call'[c] # "idle" /\ (call'[c] = "answered" => s = FRAME)
    BY <1>1, <1>5
  <2> QED BY ZenonT(40), <1>1, <2>1, <2>2 DEF Whole
<1>8. Bounded' /\ Roomless'
  BY <1>4 DEF DoorInv, Bounded, Pending, Roomless
<1> QED BY ZenonT(40), <1>5, <1>6, <1>7, <1>8, OnlyOne DEF DoorInv

(* Steps that change how far c has come, and nothing of its reply. *)
LEMMA MoveKeeps ==
    ASSUME DoorInv, NEW c \in Conn, UNCHANGED <<sent, wire, got, refused>>,
           call' \in [Conn -> {"idle", "calling", "answered", "failed"}],
           stage' \in [Conn -> Stages], Only(c), call'[c] = call[c] \/ call'[c] \in {"calling", "failed"},
           \/ stage'[c] = stage[c]
           \/ /\ stage[c] \in {"none", "backlog", "reading"}
              /\ stage'[c] \in {"backlog", "reading", "waiting", "closed"}
              /\ call'[c] # "idle"
    PROVE  DoorInv'
<1>1. DoorTypeOK'
  BY DEF DoorInv, DoorTypeOK, Stages
<1>2. Whole(c)'
  BY DEF DoorInv, Whole
<1>3. Bounded'
  BY PendingAfter, QueueKept DEF DoorInv
<1>4. Roomless'
  BY ZenonT(40) DEF DoorInv, Roomless
<1> QED BY ZenonT(40), <1>1, <1>2, <1>3, <1>4, OnlyOne DEF DoorInv

(* The caller connects, sees the end of the stream, or gives up. *)
LEMMA CallerKeeps ==
    ASSUME DoorInv, NEW c \in Conn, connect(c) \/ receive_eof(c) \/ timeout(c)
    PROVE  DoorInv'
<1>1. /\ call' \in [Conn -> {"idle", "calling", "answered", "failed"}] /\ stage' \in [Conn -> Stages]
      /\ call'[c] \in {"calling", "failed"} /\ Only(c) /\ UNCHANGED <<sent, wire, got, refused>>
      /\ stage'[c] = stage[c] \/ (stage[c] = "none" /\ stage'[c] = "backlog")
  BY ZenonT(40) DEF connect, receive_eof, timeout, Only, DoorInv, DoorTypeOK, Stages, Whole
<1> QED BY SMTT(30), <1>1, MoveKeeps

(* A connection is accepted and its request read. *)
LEMMA ListenerKeeps ==
    ASSUME DoorInv, NEW c \in Conn, accept(c) \/ read_request(c)
    PROVE  DoorInv'
<1>1. /\ stage' \in [Conn -> Stages] /\ Only(c) /\ UNCHANGED <<call, sent, wire, got, refused>>
      /\ stage[c] \in {"backlog", "reading"} /\ stage'[c] \in {"reading", "waiting", "closed"}
  BY ZenonT(40) DEF accept, read_request, Only, DoorInv, DoorTypeOK, Stages
<1>2. call' \in [Conn -> {"idle", "calling", "answered", "failed"}] /\ call'[c] # "idle"
  BY <1>1 DEF DoorInv, DoorTypeOK, Whole
<1> QED BY <1>1, <1>2, MoveKeeps

-----------------------------------------------------------------------------
(* Nothing is connected at first. *)
LEMMA DoorInitInv == DoorInit => DoorInv
<1> SUFFICES ASSUME DoorInit PROVE DoorInv
  OBVIOUS
<1>1. DoorTypeOK
  BY DEF DoorInit, DoorTypeOK
<1>2. ASSUME NEW c \in Conn PROVE Whole(c)
  <2>1. Piece(0, 0) = <<>> /\ FRAME \in Nat /\ ROOM[c] \in Nat /\ Len(<<>>) = 0
    BY PiecePrefix, FrameSeq, DoorConstants
  <2> QED BY <2>1 DEF DoorInit, Whole
<1>3. Bounded
  <2>1. Pending = {}
    BY DEF DoorInit, Pending
  <2> QED BY <2>1, FS_EmptySet, DoorConstants DEF Bounded
<1> QED BY ZenonT(40), <1>1, <1>2, <1>3 DEF DoorInit, DoorInv, Roomless

(* Every step keeps the invariant. *)
LEMMA DoorStep == DoorInv /\ [DoorNext]_doorVars => DoorInv'
<1> SUFFICES ASSUME DoorInv, [DoorNext]_doorVars PROVE DoorInv'
  BY SMTT(30)
<1>1. CASE accept_failed \/ RetryDelayEnds \/ UNCHANGED doorVars
  <2>1. UNCHANGED <<call, stage, sent, wire, got, refused>>
    BY <1>1 DEF accept_failed, RetryDelayEnds, doorVars
  <2> QED BY <2>1 DEF DoorInv, DoorTypeOK, Whole, Bounded, Pending, Roomless
<1>2. ASSUME NEW c \in Conn, Serve(c) PROVE DoorInv'
  <2>1. CASE reply(c)
    BY SMTT(30), <2>1, EnqueueKeeps DEF reply
  <2>2. CASE read_closed(c) \/ hangup(c) \/ expire(c)
    BY SMTT(30), <2>2, CloseKeeps DEF read_closed, hangup, expire
  <2> QED BY SMTT(30), <1>2, <2>1, <2>2 DEF Serve
<1>3. ASSUME NEW c \in Conn, reply_at_once(c) PROVE DoorInv'
  BY <1>3, EnqueueKeeps DEF reply_at_once
<1> QED BY ZenonT(40), <1>1, <1>2, <1>3, ReceiveKeeps, CallerKeeps, ListenerKeeps,
           ServiceRepliesKeeps DEF DoorNext

(* Every connection's reply is in one piece, and the queue is bounded,     *)
(* whatever is read, written, dropped, timed out or closed when.           *)
THEOREM DoorInvariance == DoorSpec => []DoorInv
<1> QED BY DoorInitInv, DoorStep, PTL DEF DoorSpec

(* The caller sees a prefix of the frame and reports an answer only when   *)
(* it has all of it, for every size of frame and of socket buffers         *)
(* (write_once, Channel::receive).                                         *)
THEOREM RepliesAreWhole == DoorSpec => []RepliesWhole
<1>1. DoorInv => RepliesWhole
  <2> SUFFICES ASSUME DoorInv, NEW c \in Conn
               PROVE  /\ \E n \in 0..FRAME : got[c] \o wire[c] = SubSeq(Frame, 1, n)
                      /\ call[c] = "answered" => got[c] = Frame
    BY ZenonT(40) DEF RepliesWhole
  <2> DEFINE s == sent[c]
             g == Len(got[c])
  <2>1. /\ s \in Nat /\ g \in Nat /\ 0 \in Nat /\ 0 <= g /\ g <= s /\ s <= FRAME
        /\ got[c] = Piece(0, g) /\ wire[c] = Piece(g, s)
        /\ call[c] = "answered" => g = FRAME
    BY DEF DoorInv, DoorTypeOK, Whole
  <2> HIDE DEF s, g
  <2>2. Piece(0, g) \o Piece(g, s) = Piece(0, s)
    BY ZenonT(40), <2>1, PiecesMeet
  <2> QED BY ZenonT(40), <2>1, <2>2, PiecePrefix
<1> QED BY <1>1, DoorInvariance, PTL

(* No more than MAX_PENDING_REPLIES replies wait, and one is dropped for   *)
(* want of a place only if its peer's own socket could not take it         *)
(* (ReplyQueue::enqueue).                                                  *)
THEOREM QueueIsFair == DoorSpec => []QueueFair
<1>1. DoorInv => QueueFair
  BY DEF DoorInv, Bounded, Roomless, QueueFair
<1> QED BY <1>1, DoorInvariance, PTL

-----------------------------------------------------------------------------
(* The configuration *)

(* The last snapshot on its way to the engine, or the one it has, is the   *)
(* current one; only what is not a snapshot may come behind it.            *)
Coming(box, has, current) ==
    \/ has = current /\ \A i \in 1..Len(box) : box[i] <= 0
    \/ \E j \in 1..Len(box) : box[j] = current /\ \A i \in (j + 1)..Len(box) : box[i] <= 0

LinkInv ==
    /\ version \in Nat \ {0}
    /\ stream \in {"none", "open", "ended"}
    /\ inbox \in Seq(Int)
    /\ scopes \in Nat
    /\ stream = "open" => Coming(inbox, scopes, version)

(* The delay after the one being waited for; nobody waits with a stream. *)
BackoffInv ==
    /\ failures \in 0..MAX_BACKOFF
    /\ backoff = Min2(Doubled[failures], MAX_BACKOFF)
    /\ stream # "none" => wait = 0
    /\ BackoffCounts

(* While every edit is sure to be seen, what the load has read so far is   *)
(* still what the registry says, and between loads so is the configuration *)
(* in force.                                                               *)
ConfigInv ==
    /\ registry \in [Value -> Nat]
    /\ watch \in {"unarmed", "armed", "ready", "none"}
    /\ loading \in Seq(Value)
    /\ fresh \in [Value -> Nat]
    /\ config \in [Value -> Nat]
    /\ running \in BOOLEAN
    /\ unseen \in BOOLEAN
    /\ watch # "ready" /\ ~unseen =>
           /\ \A v \in Value \ Range(loading) : loading # <<>> => fresh[v] = registry[v]
           /\ loading = <<>> /\ running => config = registry

(* The inductive invariant. *)
InputsInv == LinkInv /\ BackoffInv /\ ConfigInv

-----------------------------------------------------------------------------
(* The delay *)

(* A non-empty set of natural numbers has a least member. *)
LEMMA NatLeast ==
    ASSUME NEW T, T \subseteq Nat, T # {}
    PROVE  \E n \in T : \A m \in T : n <= m
<1> DEFINE R == {p \in Nat \X Nat : p[1] < p[2]}
<1>1. IsWellFoundedOn(R, Nat)
  BY NatLessThanWellFounded DEF OpToRel
<1> HIDE DEF R
<1>2. PICK n \in T : \A m \in T : ~(<<m, n>> \in R)
  BY ZenonT(40), <1>1, WFMin
<1>3. ASSUME NEW m \in T PROVE n <= m
  <2>1. m \in Nat /\ n \in Nat
    OBVIOUS
  <2>2. m < n => <<m, n>> \in R
    BY <2>1 DEF R
  <2> QED BY SMTT(30), <1>2, <2>1, <2>2
<1> QED BY ZenonT(40), <1>2, <1>3

(* The first n values of a doubling sequence. *)
Doublings(n) == {g \in [0..n -> Nat] : g[0] = 1 /\ \A i \in 1..n : g[i] = 2 * g[i - 1]}

(* There is one for every n. *)
LEMMA DoublingsExist == \A n \in Nat : Doublings(n) # {}
<1> DEFINE T == {n \in Nat : Doublings(n) = {}}
<1> SUFFICES ASSUME T # {} PROVE FALSE
  OBVIOUS
<1>1. PICK n \in T : \A m \in T : n <= m
  BY ZenonT(40), NatLeast
<1>2. CASE n = 0
  <2>1. [i \in 0..0 |-> 1] \in Doublings(0)
    BY DEF Doublings
  <2> QED BY SMTT(30), <1>2, <2>1
<1>3. CASE n # 0
  <2>1. n \in Nat /\ n - 1 \in Nat /\ n - 1 \notin T
    BY SMTT(30), <1>1, <1>3
  <2>2. PICK g : g \in Doublings(n - 1)
    BY <2>1
  <2> DEFINE h == [i \in 0..n |-> IF i = n THEN 2 * g[n - 1] ELSE g[i]]
  <2>3. /\ g \in [0..(n - 1) -> Nat] /\ g[0] = 1
        /\ \A i \in 1..(n - 1) : g[i] = 2 * g[i - 1]
    BY SMTT(30), <2>2 DEF Doublings
  <2>4. h \in [0..n -> Nat] /\ h[0] = 1
    BY SMTT(30), <1>3, <2>1, <2>3
  <2>5. ASSUME NEW i \in 1..n PROVE h[i] = 2 * h[i - 1]
    <3>1. i - 1 \in 0..n /\ i - 1 # n /\ i \in 0..n
      BY <2>1
    <3>2. h[i - 1] = g[i - 1] /\ h[i] = IF i = n THEN 2 * g[n - 1] ELSE g[i]
      BY ZenonT(40), <3>1
    <3> HIDE DEF h
    <3>3. i # n => i \in 1..(n - 1)
      BY <2>1
    <3> QED BY <2>3, <3>2, <3>3
  <2>6. h \in Doublings(n)
    <3> HIDE DEF h
    <3> QED BY <2>4, <2>5 DEF Doublings
  <2> QED BY <2>6
<1> QED BY <1>2, <1>3

(* And only one. *)
LEMMA DoublingsAgree ==
    ASSUME NEW n \in Nat, NEW m \in Nat, NEW g \in Doublings(n), NEW h \in Doublings(m), n <= m
    PROVE  \A i \in 0..n : g[i] = h[i]
<1> DEFINE T == {i \in 0..n : g[i] # h[i]}
<1> SUFFICES ASSUME T # {} PROVE FALSE
  OBVIOUS
<1>1. PICK i \in T : \A j \in T : i <= j
  <2>1. T \subseteq Nat
    OBVIOUS
  <2> HIDE DEF T
  <2> QED BY ZenonT(40), <2>1, NatLeast
<1>2. i # 0
  BY <1>1 DEF Doublings
<1>3. i \in 1..n /\ i \in 1..m /\ i - 1 \in 0..n /\ i - 1 \notin T
  BY SMTT(30), <1>1, <1>2
<1>4. g[i] = 2 * g[i - 1] /\ h[i] = 2 * h[i - 1]
  BY <1>3 DEF Doublings
<1> QED BY SMTT(30), <1>1, <1>3, <1>4

(* The recursive definition has a solution. *)
LEMMA DoubledDef == Doubled = [n \in Nat |-> IF n = 0 THEN 1 ELSE 2 * Doubled[n - 1]]
<1> DEFINE G(n) == CHOOSE g \in Doublings(n) : TRUE
           F == [n \in Nat |-> G(n)[n]]
<1>1. \A n \in Nat : G(n) \in Doublings(n)
  BY SMTT(30), DoublingsExist
<1>2. ASSUME NEW n \in Nat PROVE F[n] = IF n = 0 THEN 1 ELSE 2 * F[n - 1]
  <2>1. CASE n = 0
    BY ZenonT(40), <1>1, <2>1 DEF Doublings
  <2>2. CASE n # 0
    <3>1. n - 1 \in Nat /\ n - 1 <= n /\ n \in 1..n /\ n - 1 \in 0..(n - 1)
      BY <2>2
    <3>2. G(n)[n] = 2 * G(n)[n - 1]
      BY ZenonT(40), <1>1, <3>1 DEF Doublings
    <3>3. G(n - 1)[n - 1] = G(n)[n - 1]
      <4> HIDE DEF G
      <4> QED BY SMTT(30), <1>1, <3>1, DoublingsAgree
    <3> QED BY SMTT(30), <2>2, <3>1, <3>2, <3>3
  <2> QED BY <2>1, <2>2
<1> HIDE DEF G
<1>3. F = [n \in Nat |-> F[n]]
  OBVIOUS
<1> HIDE DEF F
<1>5. F = [n \in Nat |-> IF n = 0 THEN 1 ELSE 2 * F[n - 1]]
  BY ZenonT(40), <1>2, <1>3
<1>4. \E f : f = [n \in Nat |-> IF n = 0 THEN 1 ELSE 2 * f[n - 1]]
  BY ZenonT(40), <1>5
<1> QED BY ZenonT(40), <1>4 DEF Doubled

(* Doubling starts from one and outruns counting. *)
LEMMA DoubledGrows ==
    /\ Doubled[0] = 1
    /\ \A n \in Nat : /\ Doubled[n] \in Nat /\ Doubled[n] > n
                       /\ Doubled[n + 1] = 2 * Doubled[n]
<1>1. /\ Doubled[0] = 1
      /\ \A n \in Nat : Doubled[n + 1] = 2 * Doubled[n]
  BY DoubledDef
<1> DEFINE T == {n \in Nat : ~(Doubled[n] \in Nat /\ Doubled[n] > n)}
<1>2. ASSUME T # {} PROVE FALSE
  <2>1. PICK n \in T : \A m \in T : n <= m
    <3>1. T \subseteq Nat
      OBVIOUS
    <3> HIDE DEF T
    <3> QED BY ZenonT(40), <1>2, <3>1, NatLeast
  <2>2. n # 0
    BY SMTT(30), <1>1, <2>1
  <2>3. n - 1 \in Nat /\ n - 1 \notin T /\ (n - 1) + 1 = n
    BY SMTT(30), <2>1, <2>2
  <2>4. Doubled[n] = 2 * Doubled[n - 1]
    BY SMTT(30), <1>1, <2>3
  <2> QED BY SMTT(30), <2>1, <2>2, <2>3, <2>4
<1> QED BY SMTT(30), <1>1, <1>2

(* One more failure waits for the delay there is, and doubles the next, up *)
(* to MAX_BACKOFF.                                                         *)
LEMMA OneFailureMore ==
    ASSUME NEW n \in 0..MAX_BACKOFF, NEW d, d = Min2(Doubled[n], MAX_BACKOFF)
    PROVE  /\ OneMore(n) \in 0..MAX_BACKOFF /\ OneMore(n) > 0
           /\ d = Min2(Doubled[OneMore(n) - 1], MAX_BACKOFF)
           /\ Min2(2 * d, MAX_BACKOFF) = Min2(Doubled[OneMore(n)], MAX_BACKOFF)
<1>1. n \in Nat /\ Doubled[n] \in Nat /\ Doubled[n] > n /\ Doubled[n + 1] = 2 * Doubled[n]
  BY SMTT(30), DoubledGrows, LinkConstants
<1>2. CASE n < MAX_BACKOFF
  <2>1. OneMore(n) = n + 1 /\ OneMore(n) - 1 = n
    BY SMTT(30), <1>1, <1>2, LinkConstants DEF OneMore, Min2
  <2> QED BY SMTT(30), <1>1, <1>2, <2>1, LinkConstants DEF Min2
<1>3. CASE n = MAX_BACKOFF
  <2>1. OneMore(n) = n
    BY SMTT(30), <1>3, LinkConstants DEF OneMore, Min2
  <2>2. n - 1 \in Nat /\ Doubled[n - 1] \in Nat /\ Doubled[n - 1] > n - 1
    BY SMTT(30), <1>1, <1>3, LinkConstants, DoubledGrows
  <2> QED BY SMTT(30), <1>1, <1>3, <2>1, <2>2, LinkConstants DEF Min2
<1> QED BY SMTT(30), <1>2, <1>3, LinkConstants

(* After a snapshot the delay is the shortest. *)
LEMMA NoFailures == 0 \in 0..MAX_BACKOFF /\ 1 = Min2(Doubled[0], MAX_BACKOFF)
BY SMTT(30), DoubledGrows, LinkConstants DEF Min2

-----------------------------------------------------------------------------
(* The stream *)

(* A non-empty set of places has a greatest one, which Max names. *)
LEMMA LastPlace ==
    ASSUME NEW k \in Nat, NEW T, T \subseteq 1..k, T # {}
    PROVE  Max(T) \in T /\ \A m \in T : m <= Max(T)
<1> DEFINE U == {k - i : i \in T}
<1>1. PICK n \in U : \A m \in U : n <= m
  <2>1. U \subseteq Nat
    OBVIOUS
  <2>3. U # {}
    <3>1. PICK i : i \in T
      OBVIOUS
    <3>2. k - i \in U
      BY ZenonT(40), <3>1
    <3> QED BY ZenonT(40), <3>2
  <2> HIDE DEF U
  <2> QED BY ZenonT(40), <2>1, <2>3, NatLeast
<1>2. PICK i \in T : n = k - i
  BY <1>1
<1>3. \A m \in T : i >= m
  BY SMTT(30), <1>1, <1>2
<1>4. Max(T) \in T /\ \A m \in T : Max(T) >= m
  BY ZenonT(40), <1>2, <1>3 DEF Max
<1> QED BY <1>4

(* Reading k messages brings the engine closer to the current snapshot: it *)
(* has the last of those read, if there was one.                           *)
LEMMA ReadOn ==
    ASSUME NEW box \in Seq(Int), NEW has, NEW current \in Nat \ {0}, Coming(box, has, current),
           NEW k \in 1..Len(box), NEW gives
    PROVE  LET read == {i \in 1..k : box[i] > 0}
           IN  gives = (IF read = {} THEN has ELSE box[Max(read)])
                 => Coming(SubSeq(box, k + 1, Len(box)), gives, current)
<1> DEFINE rest == SubSeq(box, k + 1, Len(box))
           read == {i \in 1..k : box[i] > 0}
<1> SUFFICES ASSUME gives = IF read = {} THEN has ELSE box[Max(read)]
             PROVE  Coming(rest, gives, current)
  OBVIOUS
<1>1. Len(rest) = Len(box) - k /\ \A i \in 1..Len(rest) : rest[i] = box[k + i]
  OBVIOUS
<1>2. k \in Nat /\ read \subseteq 1..k
  OBVIOUS
<1>3. \A i : i \in read <=> i \in 1..k /\ box[i] > 0
  OBVIOUS
<1> HIDE DEF rest, read
<1>4. CASE has = current /\ \A i \in 1..Len(box) : box[i] <= 0
  <2>1. read = {}
    <3>1. \A i : i \notin read
      BY SMTT(30), <1>3, <1>4
    <3> QED BY ZenonT(40), <3>1
  <2>2. ASSUME NEW i \in 1..Len(rest) PROVE rest[i] <= 0
    BY SMTT(30), <1>1, <1>4
  <2> QED BY ZenonT(40), <1>4, <2>1, <2>2 DEF Coming
<1>5. ASSUME NEW j \in 1..Len(box), box[j] = current,
             \A i \in (j + 1)..Len(box) : box[i] <= 0
      PROVE  Coming(rest, gives, current)
  <2>1. CASE j <= k
    <3>1. j \in read /\ read # {}
      BY SMTT(30), <1>3, <1>5, <2>1
    <3>2. Max(read) \in read /\ \A m \in read : m <= Max(read)
      BY ZenonT(40), <1>2, <3>1, LastPlace
    <3>3. Max(read) = j
      BY SMTT(30), <1>3, <1>5, <3>1, <3>2
    <3>4. gives = current
      BY ZenonT(40), <1>5, <3>1, <3>3
    <3>5. ASSUME NEW i \in 1..Len(rest) PROVE rest[i] <= 0
      BY SMTT(30), <1>1, <1>5, <2>1
    <3> QED BY ZenonT(40), <3>4, <3>5 DEF Coming
  <2>2. CASE k < j
    <3>1. j - k \in 1..Len(rest) /\ rest[j - k] = current
      BY SMTT(30), <1>1, <1>5, <2>2
    <3>2. ASSUME NEW i \in ((j - k) + 1)..Len(rest) PROVE rest[i] <= 0
      <4>1. i \in 1..Len(rest) /\ k + i \in (j + 1)..Len(box)
        BY SMTT(30), <1>1, <2>2
      <4> QED BY ZenonT(40), <1>1, <1>5, <4>1
    <3> QED BY ZenonT(40), <3>1, <3>2 DEF Coming
  <2> QED BY SMTT(30), <2>1, <2>2
<1> QED BY ZenonT(40), <1>4, <1>5 DEF Coming

(* A new view is the current one; a message that is not a snapshot changes *)
(* nothing.                                                                *)
LEMMA WriteOn ==
    ASSUME NEW box \in Seq(Int), NEW has, NEW current, NEW m \in Int,
           m = current \/ (m <= 0 /\ Coming(box, has, current))
    PROVE  Append(box, m) \in Seq(Int) /\ Coming(Append(box, m), has, current)
<1> DEFINE new == Append(box, m)
           n == Len(box)
<1>1. /\ new \in Seq(Int) /\ n \in Nat /\ Len(new) = n + 1 /\ new[n + 1] = m
      /\ \A i \in 1..n : new[i] = box[i]
  OBVIOUS
<1> HIDE DEF new
<1>2. CASE m = current
  <2>1. n + 1 \in 1..Len(new) /\ \A i \in ((n + 1) + 1)..Len(new) : new[i] <= 0
    BY <1>1
  <2>2. Coming(new, has, current)
    BY ZenonT(40), <1>1, <1>2, <2>1 DEF Coming
  <2> QED BY SMTT(30), <1>1, <2>2 DEF new
<1>3. CASE m <= 0 /\ has = current /\ \A i \in 1..Len(box) : box[i] <= 0
  <2>1. ASSUME NEW i \in 1..Len(new) PROVE new[i] <= 0
    <3>1. i = n + 1 \/ i \in 1..Len(box)
      BY <1>1
    <3> QED BY ZenonT(40), <1>1, <1>3, <3>1
  <2>2. Coming(new, has, current)
    BY ZenonT(40), <1>3, <2>1 DEF Coming
  <2> QED BY <1>1, <2>2 DEF new
<1>4. ASSUME m <= 0, NEW j \in 1..Len(box), box[j] = current,
             \A i \in (j + 1)..Len(box) : box[i] <= 0
      PROVE  new \in Seq(Int) /\ Coming(new, has, current)
  <2>1. j \in 1..Len(new) /\ new[j] = current
    BY SMTT(30), <1>1, <1>4
  <2>2. ASSUME NEW i \in (j + 1)..Len(new) PROVE new[i] <= 0
    <3>1. i \in Nat /\ j \in Nat /\ 1 <= j /\ j + 1 <= i /\ i <= n + 1
      BY SMTT(30), <1>1
    <3>2. i = n + 1 \/ (i \in 1..n /\ i \in (j + 1)..n)
      BY SMTT(30), <1>1, <3>1
    <3> QED BY ZenonT(40), <1>1, <1>4, <3>2
  <2> QED BY ZenonT(40), <1>1, <2>1, <2>2 DEF Coming
<1> QED BY ZenonT(40), <1>2, <1>3, <1>4 DEF Coming, new

(* netd publishes a view, hangs up, garbles a message or starts again. *)
LEMMA NetdKeeps ==
    ASSUME LinkInv, BackoffInv, Netd
    PROVE  LinkInv' /\ BackoffInv'
<1>1. BackoffInv'
  <2>1. /\ UNCHANGED <<wait, backoff, failures>>
        /\ stream' = stream \/ stream = "open"
    BY ZenonT(40) DEF Netd, Publish, Hangs, Garbles, Start, linkVars
  <2>2. stream' # "none" => wait' = 0
    BY SMTT(30), <2>1 DEF BackoffInv
  <2> QED BY ZenonT(40), <2>1, <2>2 DEF BackoffInv, BackoffCounts
<1>2. CASE Publish
  <2>1. /\ version' = version + 1 /\ UNCHANGED <<stream, scopes>> /\ version' \in Nat \ {0}
        /\ inbox' = IF stream = "open" THEN Append(inbox, version') ELSE inbox
    BY SMTT(30), <1>2 DEF Publish, LinkInv
  <2>2. inbox' \in Seq(Int) /\ (stream = "open" => Coming(inbox', scopes, version'))
    BY SMTT(30), <2>1, WriteOn DEF LinkInv
  <2> QED BY SMTT(30), <1>1, <2>1, <2>2 DEF LinkInv
<1>3. CASE Hangs
  <2>1. /\ UNCHANGED <<version, scopes>> /\ stream' = "ended"
        /\ \E k \in 0..Len(inbox) : inbox' = SubSeq(inbox, 1, k)
    BY <1>3 DEF Hangs
  <2>2. inbox' \in Seq(Int)
    BY SMTT(30), <2>1 DEF LinkInv
  <2> QED BY SMTT(30), <1>1, <2>1, <2>2 DEF LinkInv
<1>4. CASE Garbles
  <2>1. /\ UNCHANGED <<version, scopes, stream>> /\ stream = "open"
        /\ \E m \in Int : m <= 0 /\ inbox' = Append(inbox, m)
    BY SMTT(30), <1>4 DEF Garbles, Refused, Other, Oversized
  <2>2. inbox' \in Seq(Int) /\ Coming(inbox', scopes, version)
    BY SMTT(30), <2>1, WriteOn DEF LinkInv
  <2> QED BY SMTT(30), <1>1, <2>1, <2>2 DEF LinkInv
<1>5. CASE Start
  BY SMTT(30), <1>1, <1>5 DEF Start, linkVars, LinkInv
<1> QED BY <1>1, <1>2, <1>3, <1>4, <1>5 DEF Netd

(* A connection brings the current view; a failed one a longer delay. *)
LEMMA MaintainKeeps ==
    ASSUME LinkInv, BackoffInv, maintain
    PROVE  LinkInv' /\ BackoffInv'
<1>1. UNCHANGED <<version, scopes>> /\ stream = "none" /\ wait = 0
  BY DEF maintain
<1>2. CASE stream' = "open" /\ inbox' = <<version>> /\ UNCHANGED <<wait, backoff, failures>>
  <2>1. stream' = "open" /\ inbox' = <<version>> /\ UNCHANGED <<wait, backoff, failures>>
    BY <1>2
  <2>2. inbox' \in Seq(Int) /\ Len(inbox') = 1 /\ inbox'[1] = version'
    BY SMTT(30), <1>1, <2>1 DEF LinkInv
  <2>3. Coming(inbox', scopes', version')
    BY SMTT(30), <2>2 DEF Coming
  <2> QED BY ZenonT(40), <1>1, <2>1, <2>2, <2>3 DEF LinkInv, BackoffInv, BackoffCounts
<1>3. CASE Retry(backoff) /\ failures' = OneMore(failures) /\ UNCHANGED <<stream, inbox>>
  <2>1. /\ wait' = backoff /\ backoff' = Min2(2 * backoff, MAX_BACKOFF)
        /\ failures' = OneMore(failures) /\ UNCHANGED <<stream, inbox>>
    BY <1>3 DEF Retry
  <2>2. BackoffInv'
    BY ZenonT(40), <1>1, <2>1, OneFailureMore DEF BackoffInv, BackoffCounts
  <2> QED BY SMTT(30), <1>1, <2>1, <2>2 DEF LinkInv
<1> QED BY ZenonT(40), <1>2, <1>3 DEF maintain

(* Reading: what is read together leaves the newest snapshot with the      *)
(* engine, and the delay counts from the last one.                         *)
LEMMA ServiceKeeps ==
    ASSUME LinkInv, BackoffInv, service
    PROVE  LinkInv' /\ BackoffInv'
<1>1. PICK k \in 0..Len(inbox) :
        LET snapshots == {i \in 1..k : inbox[i] > 0 /\ \A j \in 1..i : inbox[j] # Oversized}
            eof == k = Len(inbox) /\ stream = "ended"
            lost == eof \/ \E i \in 1..k : inbox[i] \in {Refused, Oversized}
            delay == IF snapshots = {} THEN backoff ELSE 1
            failed == IF snapshots = {} THEN failures ELSE 0
        IN  /\ k > 0 \/ eof
            /\ apply_snapshot(snapshots)
            /\ IF lost
               THEN Lost(delay) /\ failures' = OneMore(failed)
               ELSE /\ inbox' = SubSeq(inbox, k + 1, Len(inbox))
                    /\ backoff' = delay /\ failures' = failed
                    /\ UNCHANGED <<stream, wait>>
  BY ZenonT(40) DEF service
<1> DEFINE S == {i \in 1..k : inbox[i] > 0 /\ \A j \in 1..i : inbox[j] # Oversized}
           eof == k = Len(inbox) /\ stream = "ended"
           lost == eof \/ \E i \in 1..k : inbox[i] \in {Refused, Oversized}
           delay == IF S = {} THEN backoff ELSE 1
           failed == IF S = {} THEN failures ELSE 0
<1>2. /\ k > 0 \/ eof
      /\ scopes' = IF S = {} THEN scopes ELSE inbox[Max(S)]
      /\ IF lost
         THEN /\ stream' = "none" /\ inbox' = <<>> /\ wait' = delay
              /\ backoff' = Min2(2 * delay, MAX_BACKOFF) /\ failures' = OneMore(failed)
         ELSE /\ inbox' = SubSeq(inbox, k + 1, Len(inbox))
              /\ backoff' = delay /\ failures' = failed /\ UNCHANGED <<stream, wait>>
      /\ UNCHANGED version
      /\ stream # "none"
  BY ZenonT(40), <1>1 DEF apply_snapshot, Lost, Retry, service, netdVars
<1>3. failed \in 0..MAX_BACKOFF /\ delay = Min2(Doubled[failed], MAX_BACKOFF)
  BY SMTT(30), NoFailures DEF BackoffInv
<1>4. BackoffInv'
  <2> HIDE DEF S, eof, lost, delay, failed
  <2>1. CASE lost
    BY ZenonT(40), <1>2, <1>3, <2>1, OneFailureMore DEF BackoffInv, BackoffCounts
  <2>2. CASE ~lost
    <3>1. wait' = 0
      BY ZenonT(40), <1>2, <2>2 DEF BackoffInv
    <3> QED BY ZenonT(40), <1>2, <1>3, <2>2, <3>1 DEF BackoffInv, BackoffCounts
  <2> QED BY SMTT(30), <2>1, <2>2
<1>5. scopes' \in Nat
  <2>1. k \in Nat /\ S \subseteq 1..k /\ \A i \in S : i \in 1..Len(inbox) /\ inbox[i] > 0
    BY SMTT(30) DEF LinkInv
  <2>2. CASE S = {}
    BY ZenonT(40), <1>2, <2>2 DEF LinkInv
  <2>3. CASE S # {}
    <3> HIDE DEF S
    <3>1. Max(S) \in S
      BY ZenonT(40), <2>1, <2>3, LastPlace
    <3>2. inbox[Max(S)] \in Int
      <4>1. Max(S) \in 1..Len(inbox) /\ inbox \in Seq(Int)
        BY ZenonT(40), <2>1, <3>1 DEF LinkInv
      <4> QED BY ZenonT(40), <4>1, ElementOfSeq
    <3>3. inbox[Max(S)] > 0
      BY ZenonT(40), <2>1, <3>1
    <3>4. \A n \in Int : n > 0 => n \in Nat
      OBVIOUS
    <3> QED BY ZenonT(40), <1>2, <2>3, <3>2, <3>3, <3>4
  <2> QED BY ZenonT(40), <2>2, <2>3
<1>6. CASE lost
  <2> HIDE DEF S, eof, lost
  <2>1. stream' = "none" /\ inbox' = <<>>
    BY SMTT(30), <1>2, <1>6
  <2> QED BY SMTT(30), <1>2, <1>4, <1>5, <2>1 DEF LinkInv
<1>7. CASE ~lost
  <2>1. k \in 1..Len(inbox)
    BY SMTT(30), <1>2, <1>7 DEF LinkInv
  <2>2. S = {i \in 1..k : inbox[i] > 0}
    <3>1. \A i \in 1..k : inbox[i] # Oversized
      BY ZenonT(40), <1>7
    <3>2. \A i \in 1..k : \A j \in 1..i : j \in 1..k
      <4> HIDE DEF S, eof, lost, delay, failed
      <4>1. k \in Nat
        BY SMTT(30) DEF LinkInv
      <4> QED BY SMTT(30), <4>1
    <3> QED BY ZenonT(40), <3>1, <3>2
  <2> HIDE DEF S, eof, lost
  <2>3. /\ inbox' = SubSeq(inbox, k + 1, Len(inbox)) /\ UNCHANGED <<stream, version>>
        /\ scopes' = IF S = {} THEN scopes ELSE inbox[Max(S)]
    BY ZenonT(40), <1>2, <1>7
  <2>4. inbox' \in Seq(Int)
    BY SMTT(30), <2>1, <2>3 DEF LinkInv
  <2>5. stream = "open" => Coming(inbox', scopes', version)
    <3>1. inbox \in Seq(Int) /\ version \in Nat \ {0}
      BY ZenonT(40) DEF LinkInv
    <3>2. ASSUME stream = "open" PROVE Coming(inbox, scopes, version)
      BY ZenonT(40), <3>2 DEF LinkInv
    <3> QED BY ZenonT(40), <2>1, <2>2, <2>3, <3>1, <3>2, ReadOn
  <2> QED BY SMTT(30), <1>4, <1>5, <2>3, <2>4, <2>5 DEF LinkInv
<1> QED BY ZenonT(40), <1>6, <1>7

(* The link's steps, and the end of a delay. *)
LEMMA LinkKeeps ==
    ASSUME LinkInv, BackoffInv, maintain \/ service \/ DelayOver
    PROVE  LinkInv' /\ BackoffInv'
<1>1. CASE DelayOver
  <2>1. wait' = 0 /\ UNCHANGED <<stream, inbox, backoff, scopes, failures, version>>
    BY <1>1 DEF DelayOver, netdVars
  <2>2. LinkInv'
    BY ZenonT(40), <2>1 DEF LinkInv
  <2> QED BY ZenonT(40), <2>1, <2>2 DEF BackoffInv, BackoffCounts
<1> QED BY SMTT(30), <1>1, MaintainKeeps, ServiceKeeps

-----------------------------------------------------------------------------
(* The registry *)

(* An edit is reported by the watch, or known to be unseen. *)
LEMMA EditKeeps ==
    ASSUME ConfigInv, NEW v \in Value, Edit(v)
    PROVE  ConfigInv'
<1>1. registry' \in [Value -> Nat] /\ UNCHANGED <<loading, fresh, config, running>>
  BY SMTT(30) DEF Edit, ConfigInv
<1>2. /\ watch' \in {"unarmed", "armed", "ready", "none"} /\ unseen' \in BOOLEAN
      /\ watch' = "ready" \/ unseen'
  BY ZenonT(40) DEF Edit, ConfigInv
<1> QED BY SMTT(30), <1>1, <1>2 DEF ConfigInv

(* What is still to be read is the next value and those after it. *)
LEMMA NextAndRest ==
    ASSUME NEW s \in Seq(Value), Len(s) >= 1
    PROVE  /\ s # <<>> /\ Head(s) \in Value /\ Tail(s) \in Seq(Value)
           /\ Range(s) \subseteq Range(Tail(s)) \cup {Head(s)}
           /\ Tail(s) = <<>> <=> Len(s) = 1
<1>1. s # <<>>
  OBVIOUS
<1>2. /\ Head(s) \in Value /\ Tail(s) \in Seq(Value) /\ Len(Tail(s)) = Len(s) - 1
      /\ \A i \in 1..Len(Tail(s)) : Tail(s)[i] = s[i + 1]
  BY ZenonT(40), <1>1, HeadTailProperties
<1>3. Tail(s) = <<>> <=> Len(s) = 1
  BY SMTT(30), <1>1, <1>2, EmptySeq
<1>4. ASSUME NEW v \in Range(s), v # Head(s) PROVE v \in Range(Tail(s))
  <2>1. PICK i \in 1..Len(s) : v = s[i]
    BY DEF Range
  <2>2. i # 1
    BY SMTT(30), <1>1, <1>4, <2>1
  <2>3. i - 1 \in DOMAIN Tail(s) /\ Tail(s)[i - 1] = v
    BY SMTT(30), <1>2, <2>1, <2>2
  <2> QED BY ZenonT(40), <2>3 DEF Range
<1> QED BY ZenonT(40), <1>1, <1>2, <1>3, <1>4

(* A value is read as it is now. *)
LEMMA LoadValueKeeps ==
    ASSUME ConfigInv, load_value
    PROVE  ConfigInv'
<1> DEFINE h == Head(loading)
<1>1. /\ Len(loading) > 1 /\ h \in Value /\ Tail(loading) \in Seq(Value) /\ Tail(loading) # <<>>
      /\ loading # <<>> /\ Range(loading) \subseteq Range(Tail(loading)) \cup {h}
  <2>1. loading \in Seq(Value) /\ Len(loading) > 1 /\ Len(loading) >= 1 /\ Len(loading) # 1
    <3>1. loading \in Seq(Value) /\ Len(loading) > 1
      BY ZenonT(40) DEF load_value, ConfigInv
    <3> DEFINE m == Len(loading)
    <3>2. m \in Nat /\ m > 1
      BY ZenonT(40), <3>1, LenProperties
    <3> HIDE DEF m
    <3>3. m >= 1 /\ m # 1
      BY SMTT(30), <3>2
    <3> QED BY ZenonT(40), <3>1, <3>3 DEF m
  <2> QED BY ZenonT(40), <2>1, NextAndRest
<1>2. /\ fresh' = [fresh EXCEPT ![h] = registry[h]] /\ loading' = Tail(loading)
      /\ UNCHANGED <<registry, watch, config, running, unseen>>
  BY DEF load_value
<1> HIDE DEF h
<1>3. fresh' \in [Value -> Nat] /\ \A v \in Value : fresh'[v] = IF v = h THEN registry[h] ELSE fresh[v]
  BY <1>1, <1>2 DEF ConfigInv
<1>4. ASSUME watch # "ready", ~unseen, NEW v \in Value \ Range(loading')
      PROVE  fresh'[v] = registry[v]
  <2>1. v = h \/ v \in Value \ Range(loading)
    BY SMTT(30), <1>1, <1>2
  <2> QED BY ZenonT(40), <1>1, <1>3, <1>4, <2>1 DEF ConfigInv
<1> QED BY ZenonT(40), <1>1, <1>2, <1>3, <1>4 DEF ConfigInv

(* The last value is read, and the configuration put in force. *)
LEMMA ApplyKeeps ==
    ASSUME ConfigInv, apply_config
    PROVE  ConfigInv'
<1> DEFINE h == Head(loading)
<1>1. h \in Value /\ loading # <<>> /\ Range(loading) \subseteq {h}
  <2>1. Tail(loading) = <<>> /\ h \in Value /\ loading # <<>>
        /\ Range(loading) \subseteq Range(Tail(loading)) \cup {h}
    <3>1. loading \in Seq(Value) /\ Len(loading) >= 1 /\ Len(loading) = 1
      BY DEF apply_config, ConfigInv
    <3> QED BY ZenonT(40), <3>1, NextAndRest
  <2>2. Range(<<>>) = {}
    BY DEF Range
  <2> QED BY ZenonT(40), <2>1, <2>2
<1>2. /\ config' = [fresh EXCEPT ![h] = registry[h]] /\ fresh' = Unread /\ loading' = <<>>
      /\ running' = TRUE /\ UNCHANGED <<registry, watch, unseen>>
  BY SMTT(30) DEF apply_config
<1> HIDE DEF h
<1>3. /\ config' \in [Value -> Nat] /\ fresh' \in [Value -> Nat] /\ loading' \in Seq(Value)
      /\ \A v \in Value : config'[v] = IF v = h THEN registry[h] ELSE fresh[v]
  BY SMTT(30), <1>1, <1>2 DEF ConfigInv, Unread
<1>4. ASSUME watch # "ready", ~unseen PROVE config' = registry
  <2>1. \A v \in Value : config'[v] = registry[v]
    BY ZenonT(40), <1>1, <1>3, <1>4 DEF ConfigInv
  <2> QED BY SMTT(30), <1>3, <2>1 DEF ConfigInv
<1> QED BY SMTT(30), <1>2, <1>3, <1>4 DEF ConfigInv

(* A load begins after the events were taken off the watch. *)
LEMMA ReadEventsKeeps ==
    ASSUME ConfigInv, read_watch_events
    PROVE  ConfigInv'
<1>1. /\ watch' = "armed" /\ unseen' = FALSE /\ loading' = LoadOrder /\ fresh' = Unread
      /\ UNCHANGED <<registry, config, running>>
  BY DEF read_watch_events
<1>2. loading' \in Seq(Value) /\ Value \ Range(loading') = {} /\ fresh' \in [Value -> Nat]
  BY SMTT(30), <1>1, ConfigConstants DEF Unread
<1>3. loading' = <<>> => config' = registry'
  <2>1. loading' = <<>> => Value = {}
    BY SMTT(30), <1>1, ConfigConstants DEF Range
  <2> QED BY SMTT(30), <1>1, <2>1 DEF ConfigInv
<1> QED BY ZenonT(40), <1>1, <1>2, <1>3 DEF ConfigInv

(* A failed read, arming the watch, and an error on it. *)
LEMMA WatchKeeps ==
    ASSUME ConfigInv, load_fails \/ arm \/ watch_error
    PROVE  ConfigInv'
<1>1. CASE load_fails
  BY SMTT(30), <1>1 DEF load_fails, ConfigInv, Unread
<1>2. CASE arm
  BY SMTT(30), <1>2 DEF arm, ConfigInv
<1>3. CASE watch_error
  BY SMTT(30), <1>3 DEF watch_error, ConfigInv
<1> QED BY ZenonT(40), <1>1, <1>2, <1>3

-----------------------------------------------------------------------------
(* Nothing is known at first. *)
LEMMA InputsInitInv == InputsInit => InputsInv
<1> SUFFICES ASSUME InputsInit PROVE InputsInv
  OBVIOUS
<1>1. LinkInv
  BY DEF InputsInit, LinkInit, LinkInv
<1>2. BackoffInv
  BY NoFailures DEF InputsInit, LinkInit, BackoffInv, BackoffCounts
<1>3. ConfigInv
  <2>1. Value \ Range(loading) = {} /\ loading \in Seq(Value)
    BY SMTT(30), ConfigConstants DEF InputsInit, ConfigInit
  <2> QED BY ZenonT(40), <2>1 DEF InputsInit, ConfigInit, ConfigInv, Unread
<1> QED BY SMTT(30), <1>1, <1>2, <1>3 DEF InputsInv

(* Every step of the link, the registry, netd and the loop keeps the       *)
(* invariant.                                                              *)
LEMMA InputsStep == InputsInv /\ [InputsNext]_inputVars => InputsInv'
<1> SUFFICES ASSUME InputsInv, [InputsNext]_inputVars PROVE InputsInv'
  OBVIOUS
<1>1. UNCHANGED <<netdVars, linkVars>> => (LinkInv /\ BackoffInv)'
  BY SMTT(30) DEF InputsInv, netdVars, linkVars, LinkInv, BackoffInv, BackoffCounts
<1>2. UNCHANGED configVars => ConfigInv'
  BY DEF InputsInv, configVars, ConfigInv
<1>3. CASE Netd /\ UNCHANGED configVars
  BY SMTT(30), <1>2, <1>3, NetdKeeps DEF InputsInv
<1>4. CASE Registry /\ UNCHANGED <<netdVars, linkVars>>
  BY SMTT(30), <1>1, <1>4, EditKeeps DEF InputsInv, Registry
<1>5. CASE Link
  BY SMTT(30), <1>2, <1>5, LinkKeeps DEF InputsInv, Link
<1>6. CASE Config
  BY ZenonT(40), <1>1, <1>6, LoadValueKeeps, ApplyKeeps, ReadEventsKeeps, WatchKeeps DEF InputsInv, Config, Load
<1>7. CASE UNCHANGED inputVars
  BY ZenonT(40), <1>1, <1>2, <1>7 DEF InputsInv, inputVars
<1> QED BY ZenonT(40), <1>3, <1>4, <1>5, <1>6, <1>7 DEF InputsNext

(* The link, its delay and the configuration keep the invariant however    *)
(* netd, the registry's editors and the loop interleave.                   *)
THEOREM InputsInvariance == InputsSpec => []InputsInv
<1> QED BY InputsInitInv, InputsStep, PTL DEF InputsSpec

(* Behind a live stream with nothing left to read, the engine has netd's   *)
(* current scopes (NetdLink::service, maintain), for any number of views   *)
(* and faults.                                                             *)
THEOREM ScopesAreCurrent == InputsSpec => []ScopesCurrent
<1>1. InputsInv => ScopesCurrent
  BY SMTT(30) DEF InputsInv, LinkInv, Coming, ScopesCurrent
<1> QED BY <1>1, InputsInvariance, PTL

(* What is waited for before the next attempt is MIN_BACKOFF doubled once  *)
(* for every failure since the last snapshot but the first, up to          *)
(* MAX_BACKOFF (NetdLink::maintain, service), for every MAX_BACKOFF.       *)
THEOREM BackoffIsExact == InputsSpec => []BackoffCounts
<1>1. InputsInv => BackoffCounts
  BY SMTT(30) DEF InputsInv, BackoffInv
<1> QED BY <1>1, InputsInvariance, PTL

(* With no event waiting and no edit unseen, the configuration in force is *)
(* the registry's, for any values loaded in any order.                     *)
THEOREM ConfigIsCurrent == InputsSpec => []ConfigCurrent
<1>1. InputsInv => ConfigCurrent
  BY DEF InputsInv, ConfigInv, ConfigCurrent
<1> QED BY <1>1, InputsInvariance, PTL
=============================================================================
