------------------------------- MODULE Streams -------------------------------
(***************************************************************************)
(* The readers of length-prefixed frames: requests on the native socket    *)
(* (control.rs) and replies in libresolvd (channel.rs), snapshots from     *)
(* netd (netd_link.rs), queries over TCP at the stub (stub.rs), answers    *)
(* over TCP, and datagrams, from a server (upstream.rs).  A byte is 0 or 1 *)
(* and a length takes two of them, so that a read can end within the       *)
(* length.  A reader holds what it has read (buf) of what arrived          *)
(* (socket); each operator is one call of its code for a ready socket.     *)
(***************************************************************************)
EXTENDS Naturals, Sequences, SequencesExt

CONSTANTS MAX_MESSAGE_BYTES

ASSUME StreamConstants == MAX_MESSAGE_BYTES \in 1..3

HEADER == 2

(* The stub and the servers may use every length there is. *)
MAX_FRAME == 3

Length(b) == 2 * b[1] + b[2]

(* out holds the frames handed on.  A reader that is not open has closed   *)
(* its stream, or handed it over with the frame.                           *)
Idle == [buf |-> <<>>, socket |-> <<>>, eof |-> FALSE, out |-> <<>>, open |-> TRUE]

Whole(b) == Len(b) >= HEADER /\ Len(b) >= HEADER + Length(b)

Payload(b) == SubSeq(b, HEADER + 1, HEADER + Length(b))

Rest(b) == SubSeq(b, HEADER + Length(b) + 1, Len(b))

(* Move n bytes, or as many as there are, from the socket to the buffer. *)
Take(r, n) == [r EXCEPT !.buf = @ \o SubSeq(r.socket, 1, n),
                        !.socket = SubSeq(@, n + 1, Len(@))]

Least(a, b) == IF a < b THEN a ELSE b

Closed(r) == [r EXCEPT !.open = FALSE]

HandedOn(r, frame) == [r EXCEPT !.out = Append(@, frame), !.open = FALSE]

-----------------------------------------------------------------------------
(* Client::read and Channel::receive: the length, then that much, and the  *)
(* bytes behind it stay in the socket.  The end of the stream is an error  *)
(* when it comes first.                                                    *)
ReadExact(r) ==
    LET headed == IF Len(r.buf) < HEADER THEN Take(r, Least(HEADER - Len(r.buf), Len(r.socket)))
                  ELSE r
        wanted == HEADER + Length(headed.buf) - Len(headed.buf)
        whole == Take(headed, Least(wanted, Len(headed.socket)))
        short(x) == IF x.eof THEN Closed(x) ELSE x
    IN  IF Len(headed.buf) < HEADER THEN short(headed)
        ELSE IF Length(headed.buf) > MAX_MESSAGE_BYTES THEN Closed(headed)
        ELSE IF Whole(whole.buf) THEN HandedOn(whole, Payload(whole.buf))
        ELSE short(whole)

(* Every frame the buffer holds, up to one that is too long. *)
Frames[b \in Seq({0, 1})] ==
    IF Whole(b) /\ Length(b) <= MAX_MESSAGE_BYTES
    THEN <<Payload(b)>> \o Frames[Rest(b)]
    ELSE <<>>

(* What is left of the buffer behind them. *)
Unframed[b \in Seq({0, 1})] ==
    IF Whole(b) /\ Length(b) <= MAX_MESSAGE_BYTES THEN Unframed[Rest(b)] ELSE b

(* NetdLink::service: fill the buffer as far as one message may need, then *)
(* hand on every frame in it; the stream is lost at its end and at a       *)
(* length that is too large.                                               *)
ReadSnapshots(r) ==
    LET room == MAX_MESSAGE_BYTES + HEADER - Len(r.buf)
        full == Take(r, Least(room, Len(r.socket)))
        left == Unframed[full.buf]
        lost == \/ r.eof /\ room > Len(r.socket)
                \/ Len(left) >= HEADER /\ Length(left) > MAX_MESSAGE_BYTES
        done == [full EXCEPT !.buf = left, !.out = @ \o Frames[full.buf]]
    IN  IF lost THEN Closed([done EXCEPT !.buf = <<>>]) ELSE done

(* Stub::service_client: read all there is, and look at the first query.   *)
(* A client that has sent more than any query may take is dropped.         *)
ReadQuery(r) ==
    LET all == Take(r, Len(r.socket))
    IN  IF Len(all.buf) > HEADER + MAX_FRAME THEN Closed(all)
        ELSE IF Whole(all.buf) THEN HandedOn(all, Payload(all.buf))
        ELSE IF all.eof THEN Closed(all)
        ELSE all

-----------------------------------------------------------------------------
(* response_matches: the reply to this exchange. *)
Matches(frame) == frame = <<1>>

(* The first whole frame that matches; those before it are discarded. *)
FirstMatch[b \in Seq({0, 1})] ==
    IF ~Whole(b) THEN [frame |-> <<>>, left |-> b, found |-> FALSE]
    ELSE IF Matches(Payload(b)) THEN [frame |-> Payload(b), left |-> Rest(b), found |-> TRUE]
    ELSE FirstMatch[Rest(b)]

(* Fault: one frame is looked at for each ready event. *)
ReadAnswer_oneFrame(r) ==
    LET all == Take(r, Len(r.socket))
    IN  IF r.socket = <<>> THEN Closed(r)
        ELSE IF ~Whole(all.buf) THEN all
        ELSE IF Matches(Payload(all.buf)) THEN HandedOn(all, Payload(all.buf))
        ELSE [all EXCEPT !.buf = Rest(all.buf)]

(* Upstream::service, Receiving: one read, and then every whole frame in   *)
(* the buffer.  The end of the stream is a failure.                        *)
ReadAnswer(r) ==
    LET all == Take(r, Len(r.socket))
        match == FirstMatch[all.buf]
    IN  IF r.socket = <<>> THEN Closed(r)
        ELSE IF match.found THEN HandedOn([all EXCEPT !.buf = match.left], match.frame)
        ELSE [all EXCEPT !.buf = match.left]

(* Upstream::service over UDP, a datagram being one byte here: one for     *)
(* each ready event, and those that do not match leave the socket open.    *)
ReadDatagram(r) ==
    LET one == Take(r, 1)
    IN  IF r.socket = <<>> THEN Closed(r)
        ELSE IF Matches(one.buf) THEN HandedOn(one, one.buf)
        ELSE [one EXCEPT !.buf = <<>>]

Reader == {"native", "netd", "stub", "server", "udp"}

Service(who, r) == CASE who = "native" -> ReadExact(r)
                     [] who = "netd" -> ReadSnapshots(r)
                     [] who = "stub" -> ReadQuery(r)
                     [] who = "server" -> ReadAnswer(r)
                     [] who = "udp" -> ReadDatagram(r)

(* poll reports the socket: bytes to read, or its end. *)
IsReady(r) == r.open /\ (r.socket # <<>> \/ r.eof)

-----------------------------------------------------------------------------
(* What a reader should have handed on when the bytes b have arrived. *)
FirstOnly(frames) == IF frames = <<>> THEN <<>> ELSE <<Head(frames)>>

Expected(who, b) ==
    CASE who = "native" -> FirstOnly(Frames[b])
      [] who = "netd" -> Frames[b]
      [] who = "stub" -> IF Whole(b) THEN <<Payload(b)>> ELSE <<>>
      [] who = "server" -> LET m == FirstMatch[b] IN IF m.found THEN <<m.frame>> ELSE <<>>
      [] who = "udp" -> IF 1 \in ToSet(b) THEN <<<<1>>>> ELSE <<>>

(* A reader that waits for more has handed on what the bytes that arrived  *)
(* hold, in whatever pieces they arrived, and one that is not open has no  *)
(* more than that.  The stub answers one query for each connection, so a   *)
(* client that sends more than one may see the rest dropped with it.       *)
FramesAnyCut(who, b, r) ==
    /\ IsPrefix(r.out, Expected(who, b))
    /\ ~IsReady(r) /\ (who = "stub" => Len(b) <= HEADER + MAX_FRAME) =>
           r.out = Expected(who, b)
=============================================================================
