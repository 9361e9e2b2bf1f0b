----------------------------- MODULE DnsMessage -----------------------------
(***************************************************************************)
(* DNS messages (dns/src/lib.rs) and how the stub makes them (stub.rs).    *)
(* The body of a message is a sequence of units instead of bytes: a label, *)
(* the root that ends a name, a pointer to an earlier place, the fixed     *)
(* part of a question or a record, or a piece of data.  A label is a       *)
(* number and counts two in the length of a name, itself and its size.     *)
(***************************************************************************)
EXTENDS Integers, Sequences, SequencesExt

CONSTANTS MAX_NAME_LEN, MAX_HOPS, CLASSIC_UDP_SIZE, EDNS_UDP_SIZE, MAX_MESSAGE_SIZE

(* A header, a question and an OPT record fit where nothing else does. *)
ASSUME DnsConstants ==
    /\ MAX_NAME_LEN \in Nat /\ MAX_HOPS \in Nat /\ EDNS_UDP_SIZE \in Nat
    /\ CLASSIC_UDP_SIZE >= 1 + MAX_NAME_LEN + 1 + 2
    /\ MAX_MESSAGE_SIZE > CLASSIC_UDP_SIZE

A == 1
NS == 2
CNAME == 5
SOA == 6
PTR == 12
MX == 15
TXT == 16
AAAA == 28
SRV == 33
OPT == 41
CLASS_IN == 1
NOERROR == 0
FORMERR == 1
SERVFAIL == 2
NXDOMAIN == 3
NOTIMP == 4

RECURSIVE Joined(_)
Joined(parts) == IF parts = <<>> THEN <<>> ELSE Head(parts) \o Joined(Tail(parts))

Unit(t, type, class, ttl, n) == [t |-> t, type |-> type, class |-> class, ttl |-> ttl, n |-> n]
Label(l) == Unit("label", 0, 0, 0, l)
Root == Unit("root", 0, 0, 0, 0)
Pointer(target) == Unit("pointer", 0, 0, 0, target)
Datum(d) == Unit("data", 0, 0, 0, d)

-----------------------------------------------------------------------------
(* Names *)

wire_len(name) == 2 * Len(name) + 1

write(name) == [i \in 1..Len(name) |-> Label(name[i])] \o <<Root>>

RECURSIVE ReadFrom(_, _, _, _, _)

(* Fault: the place after a name is where its last pointer led. *)
ReadFrom_follows(b, p, name, next, hops) ==
    IF p \notin DOMAIN b THEN {}
    ELSE IF b[p].t = "root" THEN {[name |-> name, next |-> p + 1]}
    ELSE IF b[p].t = "label" /\ wire_len(Append(name, b[p].n)) <= MAX_NAME_LEN
         THEN ReadFrom(b, p + 1, Append(name, b[p].n), next, hops)
    ELSE IF b[p].t = "pointer" /\ b[p].n < p /\ hops < MAX_HOPS
         THEN ReadFrom(b, b[p].n, name, next, hops + 1)
    ELSE {}

(* Labels up to the root, through pointers that go backwards; next is the  *)
(* place after the first of them, or 0 before there was one.  What cannot  *)
(* be read is the empty set, here and below.                               *)
ReadFrom(b, p, name, next, hops) ==
    IF p \notin DOMAIN b THEN {}
    ELSE IF b[p].t = "root"
         THEN {[name |-> name, next |-> IF next = 0 THEN p + 1 ELSE next]}
    ELSE IF b[p].t = "label" /\ wire_len(Append(name, b[p].n)) <= MAX_NAME_LEN
         THEN ReadFrom(b, p + 1, Append(name, b[p].n), next, hops)
    ELSE IF b[p].t = "pointer" /\ b[p].n < p /\ hops < MAX_HOPS
         THEN ReadFrom(b, b[p].n, name, IF next = 0 THEN p + 1 ELSE next, hops + 1)
    ELSE {}

read(b, p) == ReadFrom(b, p, <<>>, 0, 0)

-----------------------------------------------------------------------------
(* Record data: how much fixed data comes before the names in it, how many *)
(* names there are, and how much comes after.  Other types are kept raw.   *)
Layout(type) ==
    CASE type \in {A, AAAA} -> <<1, 0, 0>>
      [] type \in {CNAME, PTR, NS} -> <<0, 1, 0>>
      [] type = SOA -> <<0, 2, 1>>
      [] type \in {MX, SRV} -> <<1, 1, 0>>

IsTyped(type) == type \in {A, AAAA, CNAME, PTR, NS, SOA, MX, SRV}

RData(lead, names, tail) == [lead |-> lead, names |-> names, tail |-> tail]

write_rdata(d) ==
    d.lead \o Joined([i \in DOMAIN d.names |-> write(d.names[i])]) \o d.tail

RECURSIVE ReadNames(_, _, _)
ReadNames(b, p, count) ==
    IF count = 0 THEN {[names |-> <<>>, next |-> p]}
    ELSE UNION {{[more EXCEPT !.names = <<n.name>> \o @] :
                    more \in ReadNames(b, n.next, count - 1)} : n \in read(b, p)}

(* Each string begins with its length, and the last ends with the data. *)
RECURSIVE CharacterStrings(_)
CharacterStrings(data) ==
    \/ data = <<>>
    \/ /\ 1 + data[1].n <= Len(data)
       /\ CharacterStrings(SubSeq(data, data[1].n + 2, Len(data)))

(* A name in the data may point before it but must end within it, and the  *)
(* parts must fill the data exactly.                                       *)
read_rdata(b, type, start, len) ==
    LET end == start + len
        parts == Layout(type)
        raw == SubSeq(b, start, end - 1)
    IN  IF end > Len(b) + 1 THEN {}
        ELSE IF type = TXT /\ ~CharacterStrings(raw) THEN {}
        ELSE IF ~IsTyped(type) THEN {RData(raw, <<>>, <<>>)}
        ELSE {RData(SubSeq(b, start, start + parts[1] - 1), n.names, SubSeq(b, n.next, end - 1)) :
                 n \in {n \in ReadNames(b, start + parts[1], parts[2]) : n.next + parts[3] = end}}

-----------------------------------------------------------------------------
(* The header: an identifier and sixteen bits. *)
Bit(b) == IF b THEN 1 ELSE 0

flags(h) ==
    2^15 * Bit(h.response) + 2^11 * (h.opcode % 16) + 2^10 * Bit(h.authoritative)
    + 2^9 * Bit(h.truncated) + 2^8 * Bit(h.recursion_desired)
    + 2^7 * Bit(h.recursion_available) + 2^5 * Bit(h.authentic_data)
    + 2^4 * Bit(h.checking_disabled) + (h.rcode % 16)

IsSet(f, bit) == (f \div 2^bit) % 2 = 1

from_flags(id, f) ==
    [id |-> id, response |-> IsSet(f, 15), opcode |-> (f \div 2^11) % 16,
     authoritative |-> IsSet(f, 10), truncated |-> IsSet(f, 9),
     recursion_desired |-> IsSet(f, 8), recursion_available |-> IsSet(f, 7),
     authentic_data |-> IsSet(f, 5), checking_disabled |-> IsSet(f, 4), rcode |-> f % 16]

DefaultHeader == from_flags(0, 0)

Message(h, questions, answers, authority, additional) ==
    [header |-> h, questions |-> questions, answers |-> answers, authority |-> authority,
     additional |-> additional]

Question(name, type, class) == [name |-> name, type |-> type, class |-> class]

Record(name, type, class, ttl, rdata) ==
    [name |-> name, type |-> type, class |-> class, ttl |-> ttl, rdata |-> rdata]

WriteQuestion(q) == write(q.name) \o <<Unit("question", q.type, q.class, 0, 0)>>

WriteRecord(r) ==
    LET data == write_rdata(r.rdata)
    IN  write(r.name) \o <<Unit("record", r.type, r.class, r.ttl, Len(data))>> \o data

WriteAll(f(_), s) == Joined([i \in DOMAIN s |-> f(s[i])])

(* Everything in turn, no name compressed; nothing when it is too large. *)
encode(m) ==
    LET body == WriteAll(WriteQuestion, m.questions)
                \o WriteAll(WriteRecord, m.answers \o m.authority \o m.additional)
        wire == [id |-> m.header.id, flags |-> flags(m.header),
                 counts |-> <<Len(m.questions), Len(m.answers), Len(m.authority),
                              Len(m.additional)>>,
                 body |-> body]
    IN  IF Len(body) + 1 > MAX_MESSAGE_SIZE THEN {} ELSE {wire}

Size(wire) == 1 + Len(wire.body)

RECURSIVE ReadQuestions(_, _, _)
ReadQuestions(b, p, count) ==
    IF count = 0 THEN {[items |-> <<>>, next |-> p]}
    ELSE UNION {{[more EXCEPT !.items = <<Question(n.name, b[n.next].type, b[n.next].class)>> \o @] :
                    more \in ReadQuestions(b, n.next + 1, count - 1)} :
                  n \in {n \in read(b, p) : n.next \in DOMAIN b}}

RECURSIVE ReadRecords(_, _, _)
ReadRecords(b, p, count) ==
    IF count = 0 THEN {<<>>}
    ELSE UNION {LET fixed == b[n.next]
                IN  {<<Record(n.name, fixed.type, fixed.class, fixed.ttl, data)>> \o more :
                        data \in read_rdata(b, fixed.type, n.next + 1, fixed.n),
                        more \in ReadRecords(b, n.next + 1 + fixed.n, count - 1)} :
                  n \in {n \in read(b, p) : n.next \in DOMAIN b}}

(* Four sections by their counts; what follows them is not looked at. *)
decode(wire) ==
    LET answers == wire.counts[2]
        authority == answers + wire.counts[3]
        all == authority + wire.counts[4]
    IN  UNION {{Message(from_flags(wire.id, wire.flags), qs.items, SubSeq(rs, 1, answers),
                        SubSeq(rs, answers + 1, authority), SubSeq(rs, authority + 1, all)) :
                   rs \in ReadRecords(wire.body, qs.next, all)} :
                 qs \in ReadQuestions(wire.body, 1, wire.counts[1])}

-----------------------------------------------------------------------------
(* What the daemon makes of messages *)

opts(m) == SelectSeq(m.additional, LAMBDA r : r.type = OPT)

OptRecord(udp_size) == Record(<<>>, OPT, udp_size, 0, RData(<<>>, <<>>, <<>>))

Larger(a, b) == IF a > b THEN a ELSE b

udp_size(m) ==
    IF opts(m) = <<>> THEN CLASSIC_UDP_SIZE ELSE Larger(opts(m)[1].class, CLASSIC_UDP_SIZE)

(* The response code, with the eight bits that an OPT record adds. *)
rcode(m) ==
    m.header.rcode + 16 * IF opts(m) = <<>> THEN 0 ELSE (opts(m)[1].ttl \div 2^24) % 256

query(id, q) ==
    Message([DefaultHeader EXCEPT !.id = id, !.recursion_desired = TRUE], <<q>>, <<>>, <<>>,
            <<OptRecord(EDNS_UDP_SIZE)>>)

reply_to(m) ==
    Message([DefaultHeader EXCEPT
                !.id = m.header.id, !.response = TRUE, !.opcode = m.header.opcode,
                !.recursion_desired = m.header.recursion_desired, !.recursion_available = TRUE,
                !.checking_disabled = m.header.checking_disabled],
            m.questions, <<>>, <<>>, <<>>)

FirstOpt(m) == IF opts(m) = <<>> THEN <<>> ELSE <<opts(m)[1]>>

(* Over the limit only the question and the OPT record go out. *)
encode_udp(m, limit) ==
    LET short == Message([m.header EXCEPT !.truncated = TRUE], m.questions, <<>>, <<>>, FirstOpt(m))
    IN  UNION {IF Size(w) <= limit THEN {w} ELSE encode(short) : w \in encode(m)}

(* The reply that refuses the query m. *)
refuse(m, code) ==
    encode([reply_to(m) EXCEPT
               !.header.rcode = code,
               !.additional = IF opts(m) = <<>> THEN <<>> ELSE <<OptRecord(opts(m)[1].class)>>])

(* What could not be read is refused under its identifier alone. *)
garbled(w) ==
    encode(Message([DefaultHeader EXCEPT !.id = w.id, !.response = TRUE, !.rcode = FORMERR],
                   <<>>, <<>>, <<>>, <<>>))

Judged(m) ==
    IF m.header.response THEN [accepted |-> {}, refusal |-> {}]
    ELSE IF m.header.opcode # 0 THEN [accepted |-> {}, refusal |-> refuse(m, NOTIMP)]
    ELSE IF Len(m.questions) # 1 THEN [accepted |-> {}, refusal |-> refuse(m, FORMERR)]
    ELSE IF m.questions[1].class # CLASS_IN THEN [accepted |-> {}, refusal |-> refuse(m, NOTIMP)]
    ELSE [accepted |-> {m}, refusal |-> {}]

(* A query, or the reply that its refusal deserves.  got is empty when     *)
(* less than a header came.                                                *)
parse_query(got) ==
    LET understood == UNION {decode(w) : w \in got}
    IN  IF understood = {} THEN [accepted |-> {}, refusal |-> UNION {garbled(w) : w \in got}]
        ELSE Judged(CHOOSE m \in understood : TRUE)

(* What the engine answers: an outcome, where the name was found if it was *)
(* (none or one name), its records, and for how long to believe in none.   *)
Answer(outcome, resolved, records, negative_ttl) ==
    [outcome |-> outcome, resolved_name |-> resolved, records |-> records,
     negative_ttl |-> negative_ttl]

LeastTtl(answer) ==
    FoldLeft(LAMBDA least, r : IF r.ttl < least THEN r.ttl ELSE least,
             IF answer.records = <<>> THEN answer.negative_ttl ELSE answer.records[1].ttl,
             answer.records)

(* An answer found at another name begins with an alias to it. *)
build_reply(m, answer) ==
    LET asked == m.questions[1].name
        alias == {Record(asked, CNAME, CLASS_IN, LeastTtl(answer), RData(<<>>, <<n>>, <<>>)) :
                     n \in answer.resolved_name \ {asked}}
        code == CASE answer.outcome = "found" -> NOERROR
                  [] answer.outcome = "notfound" -> NXDOMAIN
                  [] answer.outcome = "unavailable" -> SERVFAIL
    IN  [reply_to(m) EXCEPT
            !.header.rcode = code,
            !.answers = IF answer.outcome = "found" THEN SetToSeq(alias) \o answer.records ELSE <<>>,
            !.additional = IF opts(m) = <<>> THEN <<>> ELSE <<OptRecord(EDNS_UDP_SIZE)>>]

(* What is sent in answer to a query; nothing if it cannot be encoded. *)
answer_udp(m, answer) == encode_udp(build_reply(m, answer), udp_size(m))
answer_tcp(m, answer) == encode(build_reply(m, answer))
-----------------------------------------------------------------------------
(* A message spoilt in one place: a pointer that does not go backwards, a  *)
(* record that says it is one shorter or longer, a string that does.       *)
Spoilt(wire) ==
    LET At(t) == {p \in DOMAIN wire.body : wire.body[p].t = t}
        texts == {p \in At("record") : wire.body[p].type = TXT}
        With(p, n) == [wire EXCEPT !.body[p].n = n]
    IN  UNION {{With(p, p), With(p, p + 1)} : p \in At("pointer")}
        \cup UNION {{With(p, wire.body[p].n - 1), With(p, wire.body[p].n + 1)} : p \in At("record")}
        \cup {With(p + 1, wire.body[p].n) : p \in texts}

(* A message that a peer wrote, its names compressed in any way, is read   *)
(* as it was meant, or refused if a name in it is too long or led through  *)
(* more than MAX_HOPS pointers; it survives being written again, and       *)
(* spoilt or cut short it is not read at all.                              *)
ReadAsMeant(wire, meant) ==
    LET records == meant.answers \o meant.authority \o meant.additional
        named == {meant.questions[i].name : i \in DOMAIN meant.questions}
                 \cup UNION {{records[i].name} \cup ToSet(records[i].rdata.names) :
                               i \in DOMAIN records}
        short == \A n \in named : wire_len(n) <= MAX_NAME_LEN
        hops == Len(SelectSeq(wire.body, LAMBDA u : u.t = "pointer"))
    IN  /\ decode(wire) \subseteq IF short THEN {meant} ELSE {}
        /\ short /\ hops <= MAX_HOPS => decode(wire) # {}
        /\ \A w \in encode(meant) : short => decode(w) = {meant}
        /\ \A w \in Spoilt(wire) : decode(w) = {}
        /\ \A n \in 0..Len(wire.body) - 1 :
              decode([wire EXCEPT !.body = SubSeq(@, 1, n)]) = {}

(* A query that is not accepted is refused under its own identifier, and   *)
(* no refusal is taken for a query and refused in turn.                    *)
RefusedOnce(wire) ==
    \A judged \in {parse_query({wire})} :
        /\ judged.accepted = {} \/ judged.refusal = {}
        /\ \A w \in judged.refusal :
              /\ w.id = wire.id
              /\ \A m \in decode(w) : rcode(m) # NOERROR
              /\ parse_query({w}) = [accepted |-> {}, refusal |-> {}]
=============================================================================
