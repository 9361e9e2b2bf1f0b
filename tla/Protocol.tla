------------------------------ MODULE Protocol ------------------------------
(***************************************************************************)
(* The messages of the native socket (resolvd-core: lib.rs, msgpack.rs).   *)
(* A message is a sequence of MessagePack values, written here as tokens:  *)
(* a scalar, or the head of an array or a map with its count.  What one    *)
(* value is made of byte by byte is left out.  A field that was read is    *)
(* represented by its tokens, without the fields the reader does not know. *)
(* Numbers have fewer bits: U16 and U32 are where u16 and u32 wrap, and    *)
(* I64 is the first number that is no i64.                                 *)
(***************************************************************************)
EXTENDS Integers, Sequences, SequencesExt

CONSTANTS MAX_DEPTH, AddressText    \* the strings that parse as an address

ASSUME DepthAssumption == MAX_DEPTH \in Nat \ {0}

U16 == 8
U32 == 16
I64 == 32

Token(type, count, text) == [type |-> type, n |-> count, s |-> text]
Str(s) == Token("str", 0, s)
Uint(n) == Token("int", n, "")
Bool(b) == Token("bool", IF b THEN 1 ELSE 0, "")
Bin(s) == Token("bin", 0, s)
Nil == Token("nil", 0, "")
Array(n) == Token("array", n, "")
Map(n) == Token("map", n, "")
Float == Token("other", 0, "")

(* What a read returns: the value and the place after it, 0 on an error. *)
Read(value, next) == [value |-> value, next |-> next]
Failed == Read(<<>>, 0)

IsAt(m, p, types) == p \in DOMAIN m /\ m[p].type \in types

-----------------------------------------------------------------------------
RECURSIVE skip(_, _, _)
RECURSIVE SkipMany(_, _, _, _)

SkipMany(m, p, count, depth) ==
    IF p = 0 \/ count = 0 THEN p
    ELSE SkipMany(m, skip(m, p, depth), count - 1, depth)

(* Fault: the values of a map are not counted. *)
skip_halfMap(m, p, depth) ==
    IF p \notin DOMAIN m THEN 0
    ELSE IF m[p].type \notin {"array", "map"} THEN p + 1
    ELSE IF depth = MAX_DEPTH THEN 0
    ELSE SkipMany(m, p + 1, m[p].n, depth + 1)

(* The place after one value, with all it contains. *)
skip(m, p, depth) ==
    IF p \notin DOMAIN m THEN 0
    ELSE IF m[p].type \notin {"array", "map"} THEN p + 1
    ELSE IF depth = MAX_DEPTH THEN 0
    ELSE SkipMany(m, p + 1, IF m[p].type = "map" THEN 2 * m[p].n ELSE m[p].n, depth + 1)

Scalar(m, p, types) == IF IsAt(m, p, types) THEN Read(<<m[p]>>, p + 1) ELSE Failed

(* read_uint: what is negative or no i64 is an error; the field keeps as   *)
(* many bits as it has, of cache_entries and the counters all.             *)
read_uint(m, p, width) ==
    IF IsAt(m, p, {"int"}) /\ m[p].n \in 0..(I64 - 1)
    THEN Read(<<Uint(m[p].n % width)>>, p + 1)
    ELSE Failed

RECURSIVE read_str_list(_, _, _)
read_str_list(m, p, count) ==
    IF count = 0 THEN Read(<<>>, p)
    ELSE LET one == Scalar(m, p, {"str"})
             more == read_str_list(m, p + 1, count - 1)
         IN  IF one.next = 0 \/ more.next = 0 THEN Failed
             ELSE Read(one.value \o more.value, more.next)

-----------------------------------------------------------------------------
(* What each reader does with the fields it knows: the type of the value,  *)
(* or what the maps in it hold.                                            *)
RequestFields ==
    [query |-> "str", name |-> "str", type |-> "u64", no_cache |-> "bool",
     family |-> "str", address |-> "str"]

ReplyFields ==
    [ok |-> "bool", error |-> "str", kind |-> "str", outcome |-> "str", validation |-> "str",
     source |-> "str", server |-> "optional", interface |-> "optional", rcode |-> "u16",
     records |-> "records", canonical |-> "str", addresses |-> "addresses",
     hostname |-> "str", netd |-> "bool", fallback_servers |-> "strings",
     cache_entries |-> "u64", scopes |-> "scopes", counters |-> "counters"]

Inner ==
    [records |-> [name |-> "str", type |-> "u16", ttl |-> "u32", data |-> "bin", text |-> "str"],
     addresses |-> [address |-> "str", ttl |-> "u32"],
     scopes |-> [interface |-> "str", servers |-> "strings", domains |-> "strings",
                 default_route |-> "bool", exclusive |-> "bool", metric |-> "u32",
                 subnets |-> "strings", demoted |-> "strings"],
     counters |-> [queries |-> "u64", synthetic |-> "u64", cache_hits |-> "u64",
                   upstream_sent |-> "u64", upstream_answered |-> "u64",
                   upstream_failed |-> "u64", refused |-> "u64"]]

(* The order in which they are written. *)
InnerKeys ==
    [records |-> <<"name", "type", "ttl", "data", "text">>,
     addresses |-> <<"address", "ttl">>,
     scopes |-> <<"interface", "servers", "domains", "default_route", "exclusive", "metric",
                  "subnets", "demoted">>,
     counters |-> <<"queries", "synthetic", "cache_hits", "upstream_sent",
                    "upstream_answered", "upstream_failed", "refused">>]

(* The fields as read so far, those not seen being empty. *)
Fresh(fields) == [k \in DOMAIN fields |-> <<>>]

RECURSIVE ReadValue(_, _, _)
RECURSIVE ReadMaps(_, _, _, _)
RECURSIVE ReadFields(_, _, _, _, _, _)

(* for_each_field: the map's count says how many, a key seen before is an  *)
(* error, and a key not known is skipped with its value.                   *)
ReadFields(m, p, count, fields, seen, got) ==
    IF count = 0 THEN Read(got, p)
    ELSE IF ~IsAt(m, p, {"str"}) \/ m[p].s \in seen THEN Failed
    ELSE LET key == m[p].s
             known == key \in DOMAIN fields
             value == IF known THEN ReadValue(m, p + 1, fields[key])
                      ELSE Read(<<>>, skip(m, p + 1, 0))
         IN  IF value.next = 0 THEN Failed
             ELSE ReadFields(m, value.next, count - 1, fields, seen \cup {key},
                             IF known THEN [got EXCEPT ![key] = value.value] ELSE got)

for_each_field(m, p, fields) ==
    IF IsAt(m, p, {"map"}) /\ 2 * m[p].n <= Len(m) - p
    THEN ReadFields(m, p + 1, m[p].n, fields, {}, Fresh(fields))
    ELSE Failed

(* The fields of an inner map in one fixed order. *)
Flat(kind, got) ==
    FoldLeft(LAMBDA sum, k : sum \o <<Str(k)>> \o got[k], <<>>, InnerKeys[kind])

IsAddress(value) == value # <<>> /\ value[1].s \in AddressText

(* The maps of an array; an address that cannot be parsed is left out. *)
ReadMaps(m, p, count, kind) ==
    IF count = 0 THEN Read(<<>>, p)
    ELSE LET one == for_each_field(m, p, Inner[kind])
             more == ReadMaps(m, one.next, count - 1, kind)
         IN  IF one.next = 0 THEN Failed
             ELSE IF more.next = 0 THEN Failed
             ELSE IF kind = "addresses" /\ ~IsAddress(one.value.address) THEN more
             ELSE Read(Flat(kind, one.value) \o more.value, more.next)

ReadValue(m, p, kind) ==
    CASE kind \in {"str", "bool", "bin"} -> Scalar(m, p, {kind})
      [] kind = "u16" -> read_uint(m, p, U16)
      [] kind = "u32" -> read_uint(m, p, U32)
      [] kind = "u64" -> read_uint(m, p, I64)
      [] kind = "optional" -> Scalar(m, p, {"nil", "str"})
      [] kind = "counters" -> ReadMaps(m, p, 1, kind)
      [] OTHER -> IF ~IsAt(m, p, {"array"}) \/ m[p].n > Len(m) - p THEN Failed
                  ELSE IF kind = "strings" THEN read_str_list(m, p + 1, m[p].n)
                  ELSE ReadMaps(m, p + 1, m[p].n, kind)

-----------------------------------------------------------------------------
(* A message: its kind and, for each field of that kind, the value's       *)
(* tokens, or the inner maps of the value one after the other.             *)
RequestKeys ==
    [resolve |-> <<"name", "type", "no_cache">>, lookup |-> <<"name", "family">>,
     reverse |-> <<"address">>, status |-> <<>>, flush |-> <<>>]

ReplyKeys ==
    [ok |-> <<>>, error |-> <<"error">>,
     answer |-> <<"outcome", "records", "source", "server", "interface", "validation", "rcode">>,
     addresses |-> <<"outcome", "canonical", "addresses", "source", "validation">>,
     status |-> <<"hostname", "netd", "scopes", "fallback_servers", "cache_entries", "counters">>]

(* The counts that go before them. *)
MapCount == [ok |-> 1, error |-> 2, answer |-> 9, addresses |-> 7, status |-> 8]

InnerCount == [records |-> 5, addresses |-> 2, scopes |-> 8, counters |-> 7]

RequestCount == [resolve |-> 4, lookup |-> 3, reverse |-> 2, status |-> 1, flush |-> 1]

Nested == DOMAIN Inner

(* write_map with its count, and the fields in the order they are written. *)
WriteMap(count, keys, write(_)) ==
    <<Map(count)>> \o FoldLeft(LAMBDA sum, k : sum \o <<Str(k)>> \o write(k), <<>>, keys)

(* write_str_list puts the count before the strings. *)
WriteLeaf(kind, value) == IF kind = "strings" THEN <<Array(Len(value))>> \o value ELSE value

WriteInner(key, map) ==
    WriteMap(InnerCount[key], InnerKeys[key], LAMBDA k : WriteLeaf(Inner[key][k], map[k]))

WriteField(fields, key, value) ==
    IF key \notin Nested THEN WriteLeaf(fields[key], value)
    ELSE LET maps == FoldLeft(LAMBDA sum, map : sum \o WriteInner(key, map), <<>>, value)
         IN  IF key = "counters" THEN maps ELSE <<Array(Len(value))>> \o maps

encode_request(q) ==
    WriteMap(RequestCount[q.kind], <<"query">> \o RequestKeys[q.kind],
             LAMBDA k : IF k = "query" THEN <<Str(q.kind)>> ELSE q.fields[k])

encode_reply(r) ==
    IF r.kind \in {"ok", "error"}
    THEN WriteMap(MapCount[r.kind], <<"ok">> \o ReplyKeys[r.kind],
                  LAMBDA k : IF k = "ok" THEN <<Bool(r.kind = "ok")>> ELSE r.fields[k])
    ELSE WriteMap(MapCount[r.kind], <<"ok", "kind">> \o ReplyKeys[r.kind],
                  LAMBDA k : CASE k = "ok" -> <<Bool(TRUE)>>
                               [] k = "kind" -> <<Str(r.kind)>>
                               [] OTHER -> WriteField(ReplyFields, k, r.fields[k]))

(* The message a reader reports, or none. *)
Decoded(kind, fields) == {[kind |-> kind, fields |-> fields]}

Chosen(got, keys) == [k \in ToSet(keys) |-> got[k]]

Families == {<<Str("any")>>, <<Str("inet")>>, <<Str("inet6")>>}

(* Which fields a request needs, and what stands in for one left out. *)
decode_request(m) ==
    LET all == for_each_field(m, 1, RequestFields)
        got == all.value
        kind == got.query[1].s
        missing == {k \in {"name", "type"} : got[k] = <<>>}
                   \cup (IF IsAddress(got.address) THEN {} ELSE {"address"})
        family == IF got.family \in Families THEN got.family ELSE <<Str("any")>>
        no_cache == IF got.no_cache = <<>> THEN <<Bool(FALSE)>> ELSE got.no_cache
        full == [got EXCEPT !.family = family, !.no_cache = no_cache]
    IN  IF all.next = 0 THEN {}
        ELSE IF got.type # <<>> /\ got.type[1].n >= U16 THEN {}
        ELSE IF got.query = <<>> \/ kind \notin DOMAIN RequestKeys THEN {}
        ELSE IF ToSet(RequestKeys[kind]) \cap missing # {} THEN {}
        ELSE Decoded(kind, Chosen(full, RequestKeys[kind]))

Outcomes == {<<Str("found")>>, <<Str("notfound")>>, <<Str("unavailable")>>}

Validations == {<<Str("unvalidated")>>, <<Str("secure")>>, <<Str("insecure")>>, <<Str("bogus")>>}

(* The reply by ok and kind; an outcome or a validation the reader does    *)
(* not know is the cautious one.                                           *)
decode_reply(m) ==
    LET all == for_each_field(m, 1, ReplyFields)
        got == all.value
        outcome == IF got.outcome \in Outcomes THEN got.outcome ELSE <<Str("unavailable")>>
        validation == IF got.validation \in Validations THEN got.validation
                      ELSE <<Str("unvalidated")>>
        error == IF got.error = <<>> THEN <<Str("unspecified error")>> ELSE got.error
        full == [got EXCEPT !.outcome = outcome, !.validation = validation, !.error = error]
        kind == IF got.ok = <<Bool(FALSE)>> THEN "error"
                ELSE IF got.kind # <<>> /\ got.kind[1].s \in {"answer", "addresses", "status"}
                THEN got.kind[1].s
                ELSE "ok"
    IN  IF all.next = 0 THEN {}
        ELSE IF got.ok = <<>> THEN {}
        ELSE Decoded(kind, Chosen(full, ReplyKeys[kind]))

(* What reading the fields of a message should give back. *)
Meaning(message) ==
    [kind |-> message.kind,
     fields |-> [k \in DOMAIN message.fields |->
                    IF k \in Nested
                    THEN FoldLeft(LAMBDA sum, map : sum \o Flat(k, map), <<>>, message.fields[k])
                    ELSE message.fields[k]]]

(* A message says the same to its reader when fields that the reader does  *)
(* not know are added to any of its maps, and nothing when it is cut       *)
(* short.                                                                  *)
ReadAlike(decode(_), message, tokens) ==
    /\ decode(tokens) = {Meaning(message)}
    /\ \A n \in 0..(Len(tokens) - 1) : decode(SubSeq(tokens, 1, n)) = {}

(* The message with the first field of the map at p written twice. *)
FieldTwice(tokens, p) ==
    SubSeq(tokens, 1, p - 1) \o <<Map(tokens[p].n + 1)>>
    \o SubSeq(tokens, p + 1, skip(tokens, p + 2, 0) - 1) \o SubSeq(tokens, p + 1, Len(tokens))

(* It says nothing either when a key comes twice in any of the maps that   *)
(* the reader knows, or when a number that it knows is negative or no i64. *)
ReadStrictly(decode(_), tokens) ==
    \A p \in DOMAIN tokens :
        /\ tokens[p].type = "map" => decode(FieldTwice(tokens, p)) = {}
        /\ tokens[p].type = "int" =>
              \A n \in {-1, I64} : decode([tokens EXCEPT ![p] = Uint(n)]) = {}
=============================================================================
