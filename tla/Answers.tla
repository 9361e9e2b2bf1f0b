------------------------------- MODULE Answers -------------------------------
(***************************************************************************)
(* What an upstream's answer is taken to say (engine.rs): the records that *)
(* belong to the question, the aliases that lead to them, the addresses at *)
(* the end, and for how long it holds.                                     *)
(***************************************************************************)
EXTENDS DnsMessage

CONSTANTS MAX_ALIASES, MAX_POSITIVE_TTL, MAX_NEGATIVE_TTL

ASSUME AnswerConstants ==
    MAX_ALIASES \in Nat /\ MAX_POSITIVE_TTL \in Nat /\ MAX_NEGATIVE_TTL \in Nat

ANY == 255

ends_with(name, suffix) == IsSuffix(suffix, name)

SmallerOf(a, b) == IF a < b THEN a ELSE b

MinTtl(records, other) == FoldLeft(LAMBDA least, r : SmallerOf(least, r.ttl), other, records)

(* The first start of authority that covers the name says how long nothing *)
(* is there; tail holds the last number of its data, the minimum.          *)
negative_ttl(authority, name) ==
    LET covers(r) == r.class = CLASS_IN /\ r.type = SOA /\ ends_with(name, r.name)
        i == SelectInSeq(authority, covers)
    IN  IF i = 0 THEN 0
        ELSE SmallerOf(SmallerOf(authority[i].rdata.tail[1].n, authority[i].ttl), MAX_NEGATIVE_TTL)

RECURSIVE Follow(_, _, _, _, _, _)

(* The indices kept and the name reached, from a name with some kept. *)
Follow(records, qtype, name, depth, seen, keep) ==
    LET at(r) == r.class = CLASS_IN /\ r.name = name
        alias(r) == at(r) /\ r.type = CNAME
        wanted == {i \in DOMAIN records : at(records[i]) /\ qtype \in {records[i].type, ANY}}
        next == SelectInSeq(records, alias)
    IN  IF wanted # {} \/ depth = MAX_ALIASES \/ name \in seen \/ next = 0
        THEN [name |-> name, keep |-> keep \cup wanted]
        ELSE Follow(records, qtype, records[next].rdata.names[1], depth + 1, seen \cup {name},
                    keep \cup {next})

(* What was asked for and the aliases to it, in the order of the server. *)
relevant_records(records, candidate, qtype) ==
    LET end == Follow(records, qtype, candidate, 0, {}, {})
        kept == SetToSortSeq(end.keep, <)
    IN  [records |-> [i \in DOMAIN kept |-> records[kept[i]]], name |-> end.name]

(* For how long the records hold, or without any, that there are none. *)
lifetime_of(records, relevant, authority) ==
    IF records # <<>> THEN SmallerOf(MinTtl(records, records[1].ttl), MAX_POSITIVE_TTL)
    ELSE MinTtl(SelectSeq(relevant.records, LAMBDA r : r.type = CNAME),
                negative_ttl(authority, relevant.name))

Said(found, candidate, records, ttl) ==
    [answer |-> Answer(IF found THEN "found" ELSE "notfound", {candidate}, records,
                       IF records = <<>> THEN ttl ELSE 0),
     ttl |-> ttl]

SaidBy(message, candidate, relevant) ==
    LET found == message.header.rcode = NOERROR
        records == IF found THEN relevant.records ELSE <<>>
    IN  Said(found, candidate, records, lifetime_of(records, relevant, message.authority))

(* What an answer with code NOERROR or NXDOMAIN says of a candidate. *)
Understood(message, candidate, qtype) ==
    SaidBy(message, candidate, relevant_records(message.answers, candidate, qtype))

RECURSIVE ChaseFrom(_, _, _, _)

(* Fault: one alias fewer than relevant_records keeps. *)
ChaseFrom_short(records, name, rtype, left) ==
    LET i == SelectInSeq(records, LAMBDA r : r.name = name)
    IN  IF left <= 1 \/ i = 0 \/ records[i].type # CNAME
               \/ \E k \in DOMAIN records : records[k].name = name /\ records[k].type = rtype
        THEN name
        ELSE ChaseFrom(records, records[i].rdata.names[1], rtype, left - 1)

(* Through the alias that is first of its name, unless the type is there. *)
ChaseFrom(records, name, rtype, left) ==
    LET i == SelectInSeq(records, LAMBDA r : r.name = name)
    IN  IF left = 0 \/ i = 0 \/ records[i].type # CNAME
               \/ \E k \in DOMAIN records : records[k].name = name /\ records[k].type = rtype
        THEN name
        ELSE ChaseFrom(records, records[i].rdata.names[1], rtype, left - 1)

chase(records, start, rtype) ==
    LET name == ChaseFrom(records, start, rtype, MAX_ALIASES)
    IN  [canonical |-> name,
         addresses |-> SelectSeq(records, LAMBDA r : r.name = name /\ r.type = rtype)]

-----------------------------------------------------------------------------
(* The aliases of a name as the server gives them, and where k of them     *)
(* lead from it when none is missing.                                      *)
AliasesOf(records, name) ==
    SelectSeq(records, LAMBDA r : r.class = CLASS_IN /\ r.type = CNAME /\ r.name = name)

RECURSIVE Led(_, _, _)
Led(records, name, k) ==
    IF k = 0 THEN {name}
    ELSE IF AliasesOf(records, name) = <<>> THEN {}
    ELSE Led(records, AliasesOf(records, name)[1].rdata.names[1], k - 1)

Wanted(records, name, qtype) ==
    SelectSeq(records, LAMBDA r : r.class = CLASS_IN /\ r.name = name /\ r.type = qtype)

(* Where the shortest way through aliases finds the type. *)
Ends(records, name, qtype) ==
    UNION {LET there == Led(records, name, k)
           IN  {n \in there : /\ Wanted(records, n, qtype) # <<>>
                              /\ \A j \in 0..k - 1 : \A m \in Led(records, name, j) :
                                    Wanted(records, m, qtype) = <<>>} :
              k \in 0..MAX_ALIASES}

(* Every name that the aliases in the records lead to from the first. *)
RECURSIVE Reach(_, _, _)
Reach(records, names, k) ==
    IF k = 0 THEN names
    ELSE Reach(records,
               names \cup {records[i].rdata.names[1] :
                              i \in {j \in DOMAIN records :
                                        records[j].type = CNAME /\ records[j].name \in names}},
               k - 1)

(* The addresses are those at the end of the aliases, all of them.         *)
AddressesAtEnd(message, candidate, qtype) ==
    \A ends \in {Ends(message.answers, candidate, qtype)} :
    \A c \in {chase(Understood(message, candidate, qtype).answer.records, candidate, qtype)} :
        message.header.rcode = NOERROR =>
            /\ \A n \in ends : /\ c.canonical = n
                               /\ c.addresses = Wanted(message.answers, n, qtype)
            /\ ends = {} => c.addresses = <<>>

(* Nothing is believed for longer than anything that led to it says. *)
BelievedBriefly(message, candidate, qtype) ==
    \A u \in {Understood(message, candidate, qtype)} :
    \A way \in {relevant_records(message.answers, candidate, qtype)} :
        /\ \A i \in DOMAIN way.records :
              way.records[i].type = CNAME \/ u.answer.records # <<>> => u.ttl <= way.records[i].ttl
        /\ u.answer.records = <<>> =>
              \/ u.ttl = 0
              \/ \E i \in DOMAIN message.authority :
                    /\ ends_with(way.name, message.authority[i].name)
                    /\ u.ttl <= message.authority[i].ttl

(* A program that asks the stub gets a chain of aliases from its question  *)
(* to each record: all of it, or over UDP a note that there is more when   *)
(* it is larger than the program takes.                                    *)
RepliesComplete(message, candidate, q) ==
    \A answer \in {Understood(message, candidate, q.questions[1].type).answer} :
    \A reply \in {build_reply(q, answer)} :
        /\ \A i \in DOMAIN reply.answers :
              reply.answers[i].name
                  \in Reach(reply.answers, {q.questions[1].name}, Len(reply.answers))
        /\ \A w \in answer_tcp(q, answer) : decode(w) = {reply}
        /\ \A w \in answer_udp(q, answer) :
              /\ Size(w) <= udp_size(q) /\ decode(w) # {}
              /\ \A m \in decode(w) :
                    /\ m.header.id = q.header.id /\ m.questions = q.questions
                    /\ (opts(m) = <<>>) = (opts(q) = <<>>)
                    /\ IF m.header.truncated
                       THEN \A full \in encode(reply) : Size(full) > udp_size(q)
                       ELSE m = reply
=============================================================================
