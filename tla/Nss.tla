--------------------------------- MODULE Nss ---------------------------------
(***************************************************************************)
(* The module that glibc loads (nss/src): what each entry point makes of   *)
(* the daemon's reply, and how it lays the result out in the buffer that   *)
(* the caller gave.  Sizes and alignments are those of a 64-bit machine;   *)
(* offsets count from the start of the buffer, which glibc aligns.         *)
(*                                                                         *)
(* A reply is "refused" (no connection), "timeout", "other" (an error, or  *)
(* a reply of another kind) or an answer with its outcome; a name in it is *)
(* its length and whether a byte of it is zero, an address its family,     *)
(* with how long each is to be kept.  Times of 32 bits wrap at WRAP.       *)
(***************************************************************************)
EXTENDS Integers, Sequences, SequencesExt

POINTER == 8
TUPLE == 40
PTR_TYPE == 12
WRAP == 16

Wide(v) == IF v = 6 THEN 16 ELSE 4

-----------------------------------------------------------------------------
(* The packer: pieces with a size and an alignment, one after the other. *)
Piece(size, align) == [size |-> size, align |-> align]
NoPiece == Piece(0, 1)
Plain(length) == [length |-> length, nul |-> FALSE]

(* A name with a zero byte in it is no C string. *)
str(name) == IF name.nul THEN NoPiece ELSE Piece(name.length + 1, 1)
pointers(count) == Piece((count + 1) * POINTER, POINTER)
bytes(length, align) == Piece(length, align)

NoSlots == [ok |-> TRUE, used |-> 0, slots |-> <<>>]

(* Fault: the start is rounded down to the alignment. *)
offset_down(packer, piece, buflen) ==
    LET start == (packer.used \div piece.align) * piece.align
        end == start + piece.size
    IN  IF ~packer.ok \/ piece = NoPiece \/ end > buflen THEN [packer EXCEPT !.ok = FALSE]
        ELSE [packer EXCEPT !.used = end,
                            !.slots = Append(@, [start |-> start, end |-> end, align |-> piece.align])]

(* The start is rounded up; the first piece without room, or that cannot   *)
(* be written at all, ends it.                                             *)
offset(packer, piece, buflen) ==
    LET start == ((packer.used + piece.align - 1) \div piece.align) * piece.align
        end == start + piece.size
    IN  IF ~packer.ok \/ piece = NoPiece \/ end > buflen THEN [packer EXCEPT !.ok = FALSE]
        ELSE [packer EXCEPT !.used = end,
                            !.slots = Append(@, [start |-> start, end |-> end, align |-> piece.align])]

Packed(pieces, buflen) == FoldLeft(LAMBDA p, piece : offset(p, piece, buflen), NoSlots, pieces)

-----------------------------------------------------------------------------
(* What glibc is told *)
Told(status, errno, h_errno, slots, ttl) ==
    [status |-> status, errno |-> errno, h_errno |-> h_errno, slots |-> slots, ttl |-> ttl]

fail(status, errno, h_errno) == Told(status, errno, h_errno, <<>>, 0)

status_of(got) ==
    CASE got = "NotFound" -> fail("NOTFOUND", "ENOENT", "HOST_NOT_FOUND")
      [] got = "NoData" -> fail("NOTFOUND", "ENOENT", "NO_DATA")
      [] got = "TryAgain" -> fail("TRYAGAIN", "EAGAIN", "TRY_AGAIN")
      [] got = "Unavailable" -> fail("UNAVAIL", "ENOENT", "NO_RECOVERY")

out_of_room == fail("TRYAGAIN", "ERANGE", "NETDB_INTERNAL")

no_such_host == fail("NOTFOUND", "ENOENT", "HOST_NOT_FOUND")

as_i32(n) == IF n < WRAP \div 2 THEN n ELSE n - WRAP

(* The least ttl, none when there is nothing, as a signed number. *)
LeastOf(items) ==
    as_i32(FoldLeft(LAMBDA least, x : IF x.ttl < least THEN x.ttl ELSE least,
                    IF items = <<>> THEN 0 ELSE items[1].ttl, items))

Rendered(pieces, buflen, items) ==
    LET packed == Packed(pieces, buflen)
    IN  IF packed.ok THEN Told("SUCCESS", "", "", packed.slots, LeastOf(items)) ELSE out_of_room

-----------------------------------------------------------------------------
(* What a reply amounts to.  got says how it ended, items what it holds. *)
Got(got, items) == [got |-> got, items |-> items, canonical |-> Plain(0)]

InFamily(family, x) == family \in {0, x.v}

classify_addresses(a, family) ==
    LET fitting == SelectSeq(a.items, LAMBDA x : InFamily(family, x))
    IN  CASE a.outcome = "notfound" -> Got("NotFound", <<>>)
          [] a.outcome = "unavailable" -> Got("TryAgain", <<>>)
          [] a.outcome = "found" ->
                IF fitting = <<>> THEN Got("NoData", <<>>)
                ELSE [Got("Value", fitting) EXCEPT !.canonical = a.canonical]

classify_reverse(a) ==
    CASE a.outcome = "notfound" -> Got("NotFound", <<>>)
      [] a.outcome = "unavailable" -> Got("TryAgain", <<>>)
      [] a.outcome = "found" ->
            IF \A i \in DOMAIN a.items : a.items[i].type # PTR_TYPE THEN Got("NoData", <<>>)
            ELSE Got("Value", a.items)

(* A call over the native channel; a timeout is worth another try. *)
Called(reply, classify(_)) ==
    CASE reply.kind = "answer" -> classify(reply)
      [] reply.kind = "timeout" -> Got("TryAgain", <<>>)
      [] reply.kind \in {"refused", "other"} -> Got("Unavailable", <<>>)

lookup(reply, family) == Called(reply, LAMBDA a : classify_addresses(a, family))
reverse(reply) == Called(reply, classify_reverse)

(* localhost is nine letters, and known without asking anyone. *)
LOCALHOST == Plain(9)

local_addresses(family) ==
    [Got("Value", (IF family # 6 THEN <<[v |-> 4, ttl |-> 0]>> ELSE <<>>)
                  \o (IF family # 4 THEN <<[v |-> 6, ttl |-> 0]>> ELSE <<>>))
        EXCEPT !.canonical = LOCALHOST]

resolve_addresses(name, family, reply) ==
    IF name = "localhost" THEN local_addresses(family) ELSE lookup(reply, family)

-----------------------------------------------------------------------------
(* The entry points.  A name may be missing or no text; 0 is no family.    *)

render_hostent(got, buflen) ==
    Rendered(<<str(got.canonical), pointers(1), pointers(Len(got.items) + 1)>>
             \o [i \in DOMAIN got.items |-> bytes(Wide(got.items[i].v), 4)],
             buflen, got.items)

gethostbyname4_r(name, reply, buflen) ==
    LET got == resolve_addresses(name, 0, reply)
    IN  IF name = "none" THEN no_such_host
        ELSE IF got.got # "Value" THEN status_of(got.got)
        ELSE Rendered(<<str(got.canonical)>> \o [i \in DOMAIN got.items |-> Piece(TUPLE, POINTER)],
                      buflen, got.items)

gethostbyname3_r(name, af, reply, buflen) ==
    LET got == resolve_addresses(name, af, reply)
    IN  IF name = "none" THEN no_such_host
        ELSE IF af \notin {4, 6} THEN fail("UNAVAIL", "EAFNOSUPPORT", "NO_DATA")
        ELSE IF got.got # "Value" THEN status_of(got.got)
        ELSE render_hostent(got, buflen)

(* The older entry points differ in what they leave out. *)
gethostbyname2_r(name, af, reply, buflen) == gethostbyname3_r(name, af, reply, buflen)
gethostbyname_r(name, reply, buflen) == gethostbyname3_r(name, 4, reply, buflen)

(* An address is its family and whether it is the machine's own. *)
gethostbyaddr2_r(addr, len, af, reply, buflen) ==
    LET got == IF addr = "loopback" THEN Got("Value", <<[type |-> PTR_TYPE, ttl |-> 0, n |-> LOCALHOST]>>)
               ELSE reverse(reply)
        names == SelectSeq(got.items, LAMBDA r : r.type = PTR_TYPE)
    IN  IF addr = "none" THEN no_such_host
        ELSE IF <<af, len>> \notin {<<4, 4>>, <<6, 16>>}
             THEN fail("UNAVAIL", "EAFNOSUPPORT", "NO_RECOVERY")
        ELSE IF got.got # "Value" THEN status_of(got.got)
        ELSE Rendered(<<str(names[1].n), pointers(Len(names))>>
                      \o [i \in 1..Len(names) - 1 |-> str(names[i + 1].n)]
                      \o <<pointers(2), bytes(len, 4)>>,
                      buflen, got.items)

-----------------------------------------------------------------------------
(* What is written lies in the buffer, aligned, and nothing over another.  *)
LaidOut(told, buflen) ==
    \A i \in DOMAIN told.slots :
        /\ told.slots[i].start >= 0 /\ told.slots[i].end <= buflen
        /\ told.slots[i].start % told.slots[i].align = 0
        /\ \A j \in 1..i - 1 : \/ told.slots[j].end <= told.slots[i].start
                               \/ told.slots[i].end <= told.slots[j].start

(* glibc asks again with more room only for this; it must come to an end.  *)
WantsRoom(told) ==
    told.status = "TRYAGAIN" /\ told.errno = "ERANGE" /\ told.h_errno = "NETDB_INTERNAL"

(* A name of the reply could not be given as a C string.  The daemon       *)
(* prints such a byte as \000, so it sends none.                           *)
HasNul(reply) ==
    \/ reply.canonical.nul
    \/ \E i \in DOMAIN reply.items :
          "n" \in DOMAIN reply.items[i] /\ reply.items[i].type = PTR_TYPE /\ reply.items[i].n.nul

(* Whether there is no such name is only said by the daemon, or by a call  *)
(* that names nothing; a daemon that cannot be reached is never taken for  *)
(* an answer, nor its delay for a lack of room.                            *)
ToldFaithfully(told, named, reply) ==
    /\ told.h_errno = "HOST_NOT_FOUND" /\ named =>
          reply.kind = "answer" /\ reply.outcome = "notfound"
    /\ told.h_errno = "TRY_AGAIN" =>
          reply.kind = "timeout" \/ (reply.kind = "answer" /\ reply.outcome = "unavailable")
    /\ told.slots # <<>> => told.status = "SUCCESS"
=============================================================================
