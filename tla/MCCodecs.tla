------------------------------ MODULE MCCodecs ------------------------------
(* The codecs, checked on every small input. *)
EXTENDS Streams, Protocol, Answers, Nss

CONSTANTS MaxBytes, MaxAdded, MaxUnits, MaxRecords, Enough

VARIABLE input

(* Requests and replies with every kind of field, also empty, and numbers  *)
(* as large as their field.                                                *)
Text == {<<Str("")>>, <<Str("a")>>}
Lists == {<<>>, <<Str("a"), Str("b")>>}
Short == <<Uint(U16 - 1)>>
Wide32 == <<Uint(U32 - 1)>>
Long == <<Uint(I64 - 1)>>

Requests ==
    {[kind |-> "resolve", fields |-> [name |-> s, type |-> Short, no_cache |-> <<Bool(b)>>]] :
        s \in Text, b \in BOOLEAN}
    \cup {[kind |-> "lookup", fields |-> [name |-> <<Str("a")>>, family |-> f]] : f \in Families}
    \cup {[kind |-> "reverse", fields |-> [address |-> <<Str("ip")>>]]}
    \cup {[kind |-> k, fields |-> << >>] : k \in {"status", "flush"}}

RecordFields(s) == [name |-> s, type |-> Short, ttl |-> Wide32, data |-> <<Bin("x")>>, text |-> s]
Address == [address |-> <<Str("ip")>>, ttl |-> Wide32]
Scope(l) == [interface |-> <<Str("i")>>, servers |-> l, domains |-> <<>>,
             default_route |-> <<Bool(TRUE)>>, exclusive |-> <<Bool(FALSE)>>, metric |-> Wide32,
             subnets |-> l, demoted |-> <<Str("a")>>]
Counters == [k \in DOMAIN Inner.counters |-> Long]

Replies ==
    {[kind |-> "ok", fields |-> << >>], [kind |-> "error", fields |-> [error |-> <<Str("a")>>]]}
    \cup {[kind |-> "answer",
           fields |-> [outcome |-> o, records |-> n, source |-> <<Str("dns")>>, server |-> v,
                       interface |-> <<Nil>>, validation |-> <<Str("bogus")>>, rcode |-> Short]] :
             o \in Outcomes, n \in {<<>>, <<RecordFields(<<Str("a")>>), RecordFields(<<Str("")>>)>>},
             v \in {<<Nil>>, <<Str("s")>>}}
    \cup {[kind |-> "addresses",
           fields |-> [outcome |-> <<Str("found")>>, canonical |-> <<Str("a")>>, addresses |-> a,
                       source |-> <<Str("dns")>>, validation |-> <<Str("secure")>>]] :
             a \in {<<>>, <<Address, Address>>}}
    \cup {[kind |-> "status",
           fields |-> [hostname |-> <<Str("h")>>, netd |-> <<Bool(TRUE)>>, scopes |-> <<Scope(l)>>,
                       fallback_servers |-> l, cache_entries |-> Long,
                       counters |-> <<Counters>>]] : l \in Lists}

StreamStart == {[about |-> "stream", who |-> w, bytes |-> <<>>, reader |-> Idle] : w \in Reader}

MessageStart ==
    {[about |-> "request", message |-> q, tokens |-> encode_request(q), added |-> 0] : q \in Requests}
    \cup {[about |-> "reply", message |-> r, tokens |-> encode_reply(r), added |-> 0] : r \in Replies}

(* DNS messages: each bit of the header on its own, then a query to grow. *)
EmptyWire(f) == [id |-> 7, flags |-> f, counts |-> <<0, 0, 0, 0>>, body |-> <<>>]

DnsStart ==
    {[about |-> "dns", wire |-> EmptyWire(f), names |-> <<>>,
      message |-> Message(from_flags(7, f), <<>>, <<>>, <<>>, <<>>)] :
        f \in {0} \cup {2^b : b \in (0..15) \ {6}}}

(* Answers to grow: to addresses or aliases, with a start of authority.    *)
SoaRecord(owner, minimum) ==
    Record(owner, SOA, CLASS_IN, 3, RData(<<>>, <<<<1>>, <<1>>>>, <<Datum(minimum)>>))

AnswerStart ==
    {[about |-> "answer", qtype |-> t,
      message |-> Message([DefaultHeader EXCEPT !.response = TRUE, !.rcode = c], <<>>, <<>>,
                          <<SoaRecord(<<3>>, 1), SoaRecord(<<>>, 4)>>, <<>>)] :
        t \in {A, CNAME}, c \in {NOERROR, NXDOMAIN}}

(* Calls of the NSS module: each entry point, whatever the daemon says.    *)
NoReply == {[kind |-> k, outcome |-> "", canonical |-> Plain(0), items |-> <<>>] :
               k \in {"refused", "timeout", "other"}}
AnAnswer(o, n, s) == [kind |-> "answer", outcome |-> o, canonical |-> n, items |-> s]

Nul == [length |-> 3, nul |-> TRUE]

NameReplies ==
    NoReply \cup {AnAnswer(o, Plain(3), <<>>) : o \in {"notfound", "unavailable", "found"}}
    \cup {AnAnswer("found", n, s) :
              n \in {Plain(3), Plain(8), Nul}, s \in UNION {[1..k -> {[v |-> 4, ttl |-> 9], [v |-> 6, ttl |-> 1]}] :
                                          k \in 1..2}}

AddressReplies ==
    NoReply \cup {AnAnswer(o, Plain(0), <<>>) : o \in {"notfound", "unavailable", "found"}}
    \cup {AnAnswer("found", Plain(0), s) :
              s \in UNION {[1..k -> {[type |-> PTR_TYPE, ttl |-> 9, n |-> Plain(2)],
                                     [type |-> PTR_TYPE, ttl |-> 1, n |-> Plain(9)],
                                     [type |-> PTR_TYPE, ttl |-> 1, n |-> Nul],
                                     [type |-> CNAME, ttl |-> 1, n |-> Plain(5)]}] : k \in 1..2}}

NssStart ==
    {[about |-> "nss", entry |-> e, of |-> n, af |-> af, len |-> 0, reply |-> r, buflen |-> 0] :
        e \in {"name4", "name3", "name2", "name"}, n \in {"none", "localhost", "other"},
        af \in {0, 4, 6}, r \in NameReplies}
    \cup {[about |-> "nss", entry |-> "addr", of |-> a, af |-> f[1], len |-> f[2], reply |-> r,
           buflen |-> 0] :
              a \in {"none", "loopback", "other"}, f \in {<<4, 4>>, <<6, 16>>, <<6, 4>>},
              r \in AddressReplies}

ToldTo(i, buflen) ==
    CASE i.entry = "name4" -> gethostbyname4_r(i.of, i.reply, buflen)
      [] i.entry = "name3" -> gethostbyname3_r(i.of, i.af, i.reply, buflen)
      [] i.entry = "name2" -> gethostbyname2_r(i.of, i.af, i.reply, buflen)
      [] i.entry = "name" -> gethostbyname_r(i.of, i.reply, buflen)
      [] i.entry = "addr" -> gethostbyaddr2_r(i.of, i.len, i.af, i.reply, buflen)

Init == input \in StreamStart \cup MessageStart \cup DnsStart \cup AnswerStart \cup NssStart

(* A byte arrives, or the stream ends. *)
Arrive ==
    /\ input.about = "stream" /\ ~input.reader.eof
    /\ \/ \E b \in {0, 1} :
             /\ Len(input.bytes) < MaxBytes
             /\ input' = [input EXCEPT !.bytes = Append(@, b),
                                       !.reader.socket = Append(@, b)]
       \/ input' = [input EXCEPT !.reader.eof = TRUE]

Ready ==
    /\ input.about = "stream" /\ IsReady(input.reader)
    /\ input' = [input EXCEPT !.reader = Service(input.who, @)]

(* What a later version may add: a scalar, or arrays and maps in others. *)
NewValues == {<<Float>>, <<Array(2), Nil, Map(1), Str("name"), Str("b")>>}

(* A field that no reader knows, in any of the maps of a message. *)
Extend ==
    /\ input.about \in {"request", "reply"} /\ input.added < MaxAdded
    /\ \E p \in DOMAIN input.tokens : \E v \in NewValues :
          /\ input.tokens[p].type = "map"
          /\ input' = [input EXCEPT
                 !.added = @ + 1,
                 !.tokens = SubSeq(@, 1, p - 1) \o <<Map(@[p].n + 1)>>
                            \o <<Str(<<"new1", "new2">>[input.added + 1])>> \o v
                            \o SubSeq(@, p + 1, Len(@))]

(* The ways to write a name after units that stand for names: in full, or  *)
(* up to a pointer to where the rest of it is.                             *)
Forms(name, names) ==
    {write(name)}
    \cup UNION {{SubSeq(write(name), 1, k) \o <<Pointer(p)>> :
                    p \in {p \in DOMAIN names : names[p] = SubSeq(name, k + 1, Len(name))}} :
                  k \in 0..Len(name) - 1}

(* The name that each unit of a written name stands for. *)
Stand(name, form) == [i \in 1..Len(form) |-> SubSeq(name, i, Len(name))]

(* What stands for no name. *)
Other == <<0>>

DnsNames == {<<1>>, <<2, 1>>, <<1, 2, 2, 1>>}

AddQuestion ==
    /\ input.about = "dns" /\ input.wire.flags \in {0, 2^11} /\ input.message.answers = <<>>
    /\ \E name \in DnsNames, class \in {CLASS_IN, 3} : \E form \in Forms(name, input.names) :
          /\ Len(input.message.questions) < 2
          /\ Len(input.wire.body) + Len(form) < MaxUnits
          /\ input' = [input EXCEPT
                 !.wire.body = @ \o form \o <<Unit("question", A, class, 0, 0)>>,
                 !.wire.counts[1] = @ + 1,
                 !.names = @ \o Stand(name, form) \o <<Other>>,
                 !.message.questions = Append(@, Question(name, A, class))]

(* A record of the type for the owner, its data holding the target as      *)
(* often as the type asks for.                                             *)
Some(n) == [i \in 1..n |-> Datum(i)]

AddRecord ==
    /\ input.about = "dns" /\ input.wire.flags = 0 /\ Len(input.wire.body) + 3 <= MaxUnits
    /\ \E type \in {A, CNAME, SOA, MX, TXT} :
       LET parts == IF IsTyped(type) THEN Layout(type) ELSE <<2, 0, 0>>
       IN  \E owner \in DnsNames, target \in IF parts[2] = 0 THEN {<<>>} ELSE DnsNames :
           \E f \in Forms(owner, input.names) :
           LET before == input.names \o Stand(owner, f) \o [i \in 1..1 + parts[1] |-> Other]
           IN  /\ Len(before) + parts[2] + parts[3] <= MaxUnits
               /\ \E g \in IF parts[2] > 0 THEN Forms(target, before) ELSE {<<>>} :
                  LET between == before \o Stand(target, g)
                  IN  \E h \in IF parts[2] = 2 THEN Forms(target, between) ELSE {<<>>} :
                      LET data == Some(parts[1]) \o g \o h \o Some(parts[3])
                          targets == [i \in 1..parts[2] |-> target]
                      IN  /\ Len(input.wire.body) + Len(f) + Len(data) < MaxUnits
                          /\ input' = [input EXCEPT
                                 !.wire.body =
                                     @ \o f \o <<Unit("record", type, CLASS_IN, 5, Len(data))>> \o data,
                                 !.wire.counts[2] = @ + 1,
                                 !.names = between \o Stand(target, h)
                                           \o [i \in 1..parts[3] |-> Other],
                                 !.message.answers =
                                     Append(@, Record(owner, type, CLASS_IN, 5,
                                                      RData(Some(parts[1]), targets,
                                                            Some(parts[3]))))]

(* Aliases that lead on, back and astray, and addresses along the way. *)
Alias(from, to, ttl) == Record(<<from>>, CNAME, CLASS_IN, ttl, RData(<<>>, <<<<to>>>>, <<>>))
Numeric(owner, class) == Record(<<owner>>, A, class, 2 + owner, RData(<<Datum(owner)>>, <<>>, <<>>))

AnswerRecords ==
    {Alias(1, 2, 2), Alias(2, 3, 5), Alias(3, 4, 5), Alias(2, 1, 1),
     Numeric(1, CLASS_IN), Numeric(2, 3), Numeric(3, CLASS_IN), Numeric(4, CLASS_IN)}

GrowAnswer ==
    /\ input.about = "answer" /\ Len(input.message.answers) < MaxRecords
    /\ \E r \in AnswerRecords : input' = [input EXCEPT !.message.answers = Append(@, r)]

(* The caller tries again with a larger buffer, by anything at all. *)
Enlarge ==
    /\ input.about = "nss" /\ input.buflen < Enough
    /\ WantsRoom(ToldTo(input, input.buflen))
    /\ input' = [input EXCEPT !.buflen = @ + 1]

Next == Arrive \/ Ready \/ Extend \/ AddQuestion \/ AddRecord \/ GrowAnswer \/ Enlarge

Spec == Init /\ [][Next]_input

-----------------------------------------------------------------------------
(* A reader that waits for more has handed on exactly the frames that the  *)
(* bytes hold, in whatever pieces they arrived.                            *)
StreamsWhole == input.about = "stream" => FramesAnyCut(input.who, input.bytes, input.reader)

(* Requests and replies survive the wire, with numbers as large as their   *)
(* fields, and fields added by a later version anywhere in them; a message *)
(* cut short, with a key twice or with a number that is none of the        *)
(* protocol's is never accepted.                                           *)
MessagesReadAlike ==
    /\ input.about = "request" =>
          /\ ReadAlike(decode_request, input.message, input.tokens)
          /\ input.added = 0 => ReadStrictly(decode_request, input.tokens)
    /\ input.about = "reply" =>
          /\ ReadAlike(decode_reply, input.message, input.tokens)
          /\ input.added = 0 => ReadStrictly(decode_reply, input.tokens)

(* A DNS message is read as its writer meant it however its names are      *)
(* compressed, and every query that is refused is refused once.            *)
DnsReadAlike ==
    input.about = "dns" => ReadAsMeant(input.wire, input.message) /\ RefusedOnce(input.wire)

(* Programs that ask for the name itself and for one that was completed to *)
(* it, over the classic size, a larger one and one announced as nothing.   *)
Queries(qtype) ==
    {Message([DefaultHeader EXCEPT !.id = 9], <<Question(n, qtype, CLASS_IN)>>, <<>>, <<>>, o) :
        n \in {<<1>>, <<9>>}, o \in {<<>>, <<OptRecord(0)>>, <<OptRecord(22)>>}}

(* The aliases of an answer are followed to the addresses at their end, as *)
(* far as MAX_ALIASES of them, nothing is believed for too long, and what  *)
(* the stub sends on is a whole answer or says that it is not.             *)
AliasesFollowed ==
    input.about = "answer" =>
        /\ input.qtype = A => AddressesAtEnd(input.message, <<1>>, A)
        /\ BelievedBriefly(input.message, <<1>>, input.qtype)
        /\ \A q \in Queries(input.qtype) : RepliesComplete(input.message, <<1>>, q)

(* What glibc gets lies in its buffer, aligned and apart, or it is told to *)
(* come back with a larger one and then gets it: with the first buffer     *)
(* that is large enough, and the same with every larger one.  A name that  *)
(* is no C string is never given, whatever the size.  glibc is never told  *)
(* that a name does not exist unless the daemon said so.                   *)
BuffersSound ==
    input.about = "nss" =>
        LET told == ToldTo(input, input.buflen)
        IN  /\ LaidOut(told, input.buflen)
            /\ ToldFaithfully(told, input.of # "none", input.reply)
            /\ IF input.of = "other" /\ HasNul(input.reply)
               THEN told.status # "SUCCESS"
               ELSE ~WantsRoom(ToldTo(input, Enough))
            /\ ~WantsRoom(told) =>
                  \A more \in 1..POINTER : ToldTo(input, input.buflen + more) = told
=============================================================================
