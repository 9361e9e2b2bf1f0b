# A TLA+ model of resolvd

resolvd is a stub DNS resolver: one process, one thread, one `poll` loop. It
answers programs on a control socket and on a loopback stub listener, asks the
DNS servers that netd announces per interface, and caches what they say. This
directory models it in TLA+, checks the models with TLC and proves theorems
about them with TLAPS.

## The system and its parts

| part | source | what changes state | model |
|---|---|---|---|
| engine | `resolvd/src/engine.rs` | questions, tasks, exchanges, demotions, cache fills, configuration | `Engine`, `Resolver`, `Exchanges` |
| scope routing, search expansion, local names | `engine.rs` (`route`, `candidates`, `synthetic`) | nothing: pure functions of the configuration | `Routing` |
| answer records | `engine.rs` (`relevant_records`, `chase`, `negative_ttl`) | nothing: pure functions | `Answers` |
| cache | `resolvd/src/cache.rs` | entries, expiry, eviction | `Cache`, `AnswerMemory` |
| daemon loop | `resolvd/src/main.rs` | waiters, clients, sockets, `perform` | `Daemon` |
| upstream sockets | `resolvd/src/upstream.rs` | one socket per exchange, TCP framing | `Daemon`, `Streams` |
| stub listener | `resolvd/src/stub.rs` | reading clients, replies | `Daemon`, `Streams`, `DnsMessage` |
| control socket | `resolvd/src/control.rs` | client framing | `NativeDoor`, `Streams` |
| reply queue, accept backoff | `resolvd/src/reply_queue.rs`, `accept_backoff.rs` | stalled replies and their deadlines; a pause | `NativeDoor` |
| netd channel | `resolvd/src/netd_link.rs` | connection, backoff, frames | `NetdLink`, `Streams` |
| configuration | `resolvd/src/config.rs`, `registry_reader.rs` | fallback servers, hosts | `ConfigWatch` |
| DNS codec | `dns/src/lib.rs` | per call only | `DnsMessage` |
| wire protocol | `resolvd-core/src/lib.rs`, `msgpack.rs` | per call only | `Protocol`, `Streams` |
| client libraries | `libresolvd`, `resolvd-client` | one call with a deadline | `NativeDoor` |
| NSS module | `nss/src` | the caller's buffer | `Nss` |
| tool, logging, notification | `resolv`, `log.rs`, `notification.rs` | nothing others read | not modelled |

A question goes: stub or control socket -> `main` (a waiter and a question id)
-> `Engine::resolve` / `lookup` -> one *task* per record type -> `advance`
(local names) -> `candidates` -> for each candidate `route`, the cache, then
*exchanges* (transactions) with the scope's servers -> `settle` -> `main`
delivers to the waiter. Replies, socket failures and timeouts come back through
`received`, `failed`, `local_failed` and `tick`; netd and the registry change
scopes, fallback and static names under questions that are in flight.

## Modules

- **`Routing`**: names as label sequences, scopes as records; `route`,
  `servers_of`, `candidates`, `own_addresses`, `synthetic` as operators under
  the source's names. `same_subnet` becomes membership in the set of addresses
  an interface's subnet holds. **`ScopeTable`** builds up the lists of
  interfaces `set_scopes` may be given and says what routing promises under
  each of them.
- **`Resolver`**: what the engine promises a caller: a question is answered at
  most once and never after its asker went away.
- **`Engine`**: the engine. The fields of `struct Engine` are variables; the
  private functions that call each other (`send`, `next_attempt`,
  `next_candidate`, `settle`, `advance`) are operators from one engine record
  to the next, and each public method is one action that installs the record
  its calls produce. `asked`, `gone` and `done` record what callers saw;
  `Task.failures`, `Tx.stale` and the `stale` and `server` of a cache entry are
  history that only properties read.
- **`EngineInv`**: the inductive invariant, and what one call does to tasks and
  exchanges (`Moves`).
- **`RoutingProofs`**, **`RoutingTheorems`**: lemmas about routing that the
  engine needs, and the theorems about `ScopeTable`.
- **`EngineProofs`**, **`EngineSteps`**, **`EngineTheorems`**: the engine's
  internal functions and the calls that answers, failures and abandonment make;
  then new questions, configuration and the daemon's view; then the theorems.
- **`Exchanges`**: the engine as the daemon sees it: questions that wait, and
  exchanges made for them that are replaced or end. `EngineExchanges` maps
  `Engine` to it, so what is shown of the daemon on `Exchanges` is about the
  real engine's calls. *fuel* stands for the attempts and candidate names a
  task has left; it shrinks with each retry. `MaxCandidates` bounds the names
  any question may have.
- **`Daemon`**: the loop of `main`. `phase` is the place in the loop's body,
  `polled` the entries of the last poll not visited yet, `todo` and `follow`
  the list and the follow-ups of `perform`. Each handler is an action that
  calls `Exchanges` and fills `todo`; each action performed is a step, because
  a failed send calls the engine in the middle of the list. The three doors
  share the module; a question is identified with its connection or datagram.
- **`DaemonProofs`**: lemmas and theorems about `Daemon`.
- **`Cache`**: `cache.rs` with a clock that is finer than the whole seconds of
  TTLs, and the end of `received` that sets lifetimes. **`AnswerMemory`** is
  what it promises, **`CacheProofs`** its theorems.
- **`NativeDoor`**: one request per connection from the caller in `libresolvd`
  through accept, reading, the reply queue and back, byte by byte on the way
  out.
- **`NetdLink`**, **`ConfigWatch`**: the two sources of configuration, with
  netd and the registry as external actors; **`Inputs`** composes them in the
  daemon's loop, where a load of the registry keeps netd waiting. `wait` is
  `next_try` as it was scheduled, which is before `backoff` is doubled. A
  connection may fail although netd is up, and a message may be a snapshot, a
  refusal (or undecodable), a reply of another kind, which is ignored, or one
  that announces too much, behind which nothing is read.
- **`LoopProofs`**: the theorems about `NativeDoor` and `Inputs`, what the loop
  exchanges with callers, netd and the registry.
- **`Streams`**: the five readers of framed (or datagram) input, each one call
  of its code for a ready socket.
- **`Protocol`**: requests and replies as token sequences: `encode`, `decode`,
  `for_each_field`, `skip`. Numbers keep their widths, scaled down: `read_uint`
  refuses what no i64 holds, a request's type must fit 16 bits, and the numbers
  of a reply wrap at the width of their field.
- **`DnsMessage`**: names with compression, record data, headers, messages,
  EDNS and truncation, and the stub's `parse_query` and `build_reply`. A unit
  of the wire is a label, a pointer, a datum or a fixed header. `MAX_HOPS`
  pointers at most are followed, and the texts of a TXT record must fill its
  data exactly.
- **`Answers`**: what `received` takes from an answer section, and `chase`.
- **`Nss`**: the entry points for glibc: classification and packing. A name
  with a NUL in it is never packed, and the TTL handed out is the least one as
  a signed number (`WRAP` stands for 2^32).
- **`MCRouting`**, **`MCEngine`**, **`MCCache`**, **`MCDaemon`**,
  **`MCNativeDoor`**, **`MCInputs`**, **`MCCodecs`** and the `.cfg` files: the
  instances TLC runs. Definitions whose comment begins with "Fault" are
  variants of a code definition with a plausible bug; the checks are known to
  notice them.

### Abstractions

- Time: an outstanding exchange may time out, a demotion lapse and a cache
  entry go (expiry or eviction) at any moment. `tick` expires one exchange per
  step although the code may expire several in one call; each `failed` is
  complete in itself, so the states between are ones the code passes through.
  This allows every schedule of the real clock and more.
- A reply that does not match a live exchange changes nothing and is left out.
  A matching one is `received_truncated`, `received_answer` (NOERROR or
  NXDOMAIN, with or without a positive TTL) or `received_error`.
- Random bytes may be missing at any `send` (the BOOLEAN parameter of actions).
- In `Engine` an answer is its outcome; what records do is in `Answers`.
  Counters and the interface names put into answers are left out.
- `reverse` and `resolve_question` are `resolve` with other names and types.
  A name that does not parse is `ask_unparsed`.
- A question id is used once: `main` takes it from a 64-bit counter.
- `Daemon`: what is ready is decided when it is visited, which allows every
  result of `poll` and more; what a request asks and a reply says is left out.
  An exchange is late only if it was made before the last poll, because one
  reading of the clock serves a whole iteration. Nonblocking connect and the
  piecewise writing of a TCP query are one send that succeeds or fails later.
- `NativeDoor`: any deadline may pass while something waits for it; a peer in
  `Stalled` never reads. The stub's TCP replies use the same queue code. A
  write that a signal interrupts is left out: both sockets do not block, so a
  write takes some bytes or reports that there is no room.
- `ConfigWatch`: a value is the number of its edits. `unseen` is history: an
  edit made before the watch was armed, pending when the watch reported an
  error, or whose load failed; the code applies such an edit with the next one.
- `Streams`: a length has two binary digits, so reads can end within it.
- `Nss`: the caller's buffer starts aligned, as glibc's does; the code aligns
  offsets only.

## What TLC checks

| run | instance | properties |
|---|---|---|
| `routing` | every list of up to 3 interfaces of 26 kinds, 6 names, 2 fallbacks | `ExclusiveTakesAll`, `FallbackLast`, `SearchStaysHome`, `IrrelevantScopes`, `CandidatesAsLoop` |
| `reconfig` | 2 questions for one name, with and without the cache, and retries; an interface comes, changes servers, goes; fallback servers and domains; flush | `TypeOK`, `CacheFromConfiguredServers`, `NoStaleFill`, `ServerOrder`, `ImplementsExchanges` (refinement of `Exchanges`) |
| `search` | 2 questions for a single label over two scopes that come and go, a link-local server, cached denials; under `FairSpec` | `BudgetExact`, `OneExchangePerTask`, `IInv`, `EveryQuestionAnswered` |
| `lookup` | address lookups with two tasks, static names, the hostname, at the in-flight ceiling | `NoStrandedQuestion`, `InFlightBounded`, `AnsweredOnce` (refinement of `Resolver`), `ImplementsExchanges` |
| `cache` | 3 keys in 2 scopes, room for 2, five kinds of answers, half-second ticks | `SizeBounded`, `NeverOutlivesTTL`, `EvictsTheFirstToExpire`, `ImplementsMemory` (refinement of `AnswerMemory`) |
| `daemon` | 2 native clients with room for 1, 2 datagrams of one peer with room for 1 per peer, lookups of two exchanges, retries | `TablesAgree`, `PendingActionsCurrent`, `RepliedOnce`, `AdmissionBounded`, `EveryRequestEnds` |
| `native_door` | a socket that takes a reply whole, one that needs several writes, a peer that never reads; a queue of 1 | `RepliesWhole`, `QueueFair`, `EveryCallEnds` |
| `inputs` | 3 views of the network, 2 faults of netd or its connection, `MAX_BACKOFF` 5, 2 values edited twice | `ScopesCurrent`, `BackoffCounts`, `ConfigCurrent`, `LatestApplied` |
| `codecs` | see below | `StreamsWhole`, `MessagesReadAlike`, `DnsReadAlike`, `AliasesFollowed`, `BuffersSound` |
| `tcp_scope` | expected violation | `AttemptsStayInScope` |
| `late_reply` | expected violation | `LateReplyCached` |
| `candidate_budget` | expected violation | `OwnBudget` |

`codecs` steps through inputs: up to 7 binary digits in any pieces for each of
the five readers; every kind of request and reply with up to 2 unknown fields
in any of their maps, and with a field twice or a number negative or too large;
DNS messages of up to 11 units in which names are written in full or end in a
pointer to any earlier place that stands for the rest, and the same with a
pointer, a record's length or a text's count spoilt;
answer sections of up to 4 of 8 records with aliases that lead on, back and
astray; each NSS entry point, whatever the daemon said, with buffers that grow
byte by byte. Each property compares the code's operators with a definition
that does not follow the code (the message the writer meant, the aliases as a
path, slots that are aligned and apart).

Bounds. Two questions are enough for everything that couples questions in this
engine: they meet only in the cache, the demotions, the ceiling and the
configuration. `MAX_ATTEMPTS` is 1 or 2 (3 in the code) and `MAX_IN_FLIGHT` 2
or 3 (4096 in the code), so that both limits are reached. `MAX_ATTEMPTS` is 2 in
`reconfig` and `search`, so exchanges are retried there; it is 1 in `lookup`,
where two tasks per question take the room. The two questions of `reconfig` are
interchangeable, and its properties are about single states and steps, so
`SYMMETRY` is sound there. Each question is put
once, which makes the state space finite although ids only grow; no other bound
is needed. Two servers per scope let a retry choose; two scopes give a label
two candidates. `Horizon` bounds the cache's clock, long enough for an entry to
be learned, expire and be learned again. The daemon's budgets are 1 and 2, so
that each is exhausted and freed again; the stub's TCP door, which differs from
the native one only in its phase and in asking one exchange at most, is not in
the run: the proofs cover its safety, and `EveryRequestEnds` is checked for the
other two doors only. `MAX_BACKOFF` is 5, which the doubling passes without
meeting it. `MaxVersion`, `MaxFaults` and `MaxEdits` bound what netd and the
editors of the registry do, not what resolvd does. `MAX_ALIASES` (2) and the
size limits of `codecs` are small enough for answers to exceed them.
The proofs hold for all values.

Fairness, where a property is about what must happen in the end:

- `FairSpec` (engine): while an exchange is outstanding, some exchange times
  out again and again unless none is left. Every exchange has a deadline, the
  poll timeout is at most the time to the earliest one, and `tick` runs at the
  end of every iteration. Nothing is assumed of servers, netd or the registry.
- `DaemonFairness`: the thread keeps running, and an exchange or a client that
  stays becomes late (strong fairness, because other work comes between).
- `DoorFairness`: the daemon's waits end (`Serve`, `RetryDelayEnds`), `accept`
  does not fail for ever, and a library caller reads what has arrived. Nothing
  is assumed of a stalled peer.
- `InputsFairness`: netd is started again after a crash, a load ends, and the
  loop comes back to the link between loads. netd's faults are finitely many.

Deadlock is not checked in `routing` and `codecs`, which enumerate inputs, in
`native_door`, where every connection ends, and in `inputs`, where a failed
first load ends the daemon and the external actors' bounds run out.

### Disagreements found

- `tcp_scope`: the reference manual says that the TCP retry after a truncated
  reply goes to a server of the scope the candidate was routed to, and that
  retries follow the scope's new list after a snapshot. `received` sends the
  retry to the server that truncated, without looking at the list again; a
  snapshot between the query and its truncated reply makes the two differ.
- `late_reply`: the test "a transaction already sent survives a snapshot that
  flushes its scope, and its late reply is cached under the scope key"
  (`tests/integration/tests/network/resolvd-netd-snapshot.test.lua:485`) expects
  the reply to be "served from the cache, from the old server, though the scope
  now lists only 10.77.0.2" (line 512). `received` delivers such a reply and does
  not cache it (`cache_invalidated`), and that is what `NoStaleFill` and
  `CacheFromConfiguredServers` say, `resolvd-cache.test.lua` (lines 385 and 483)
  tests and the manual describes (its articles on the cache and on applying a
  snapshot). The test is out of date.
- `candidate_budget`: the test "each candidate of a single label is routed on its
  own: each search domain's expansion goes to its own scope, with its own attempt
  budget" (`resolvd-flow-scopes.test.lua:145`) says "A shared budget would be
  spent by then" (line 176). The code has one budget per question, of which only
  a denial gives an attempt back; so does `BudgetExact`, and so do the comment in
  `send` and the manual's articles on attempts and on single labels. The test is
  out of date.

Not a disagreement, though it may surprise: `.local` names are kept from the
servers by a test on the name as asked. With `local` as a search domain the
label `host` becomes `host.local`, which is routed and sent; the manual's article
on synthetic names says that expanded candidates are not checked.

## What is proved

`EngineTheorems` proves, for all values of the constants that satisfy
`EngineConstants` and the assumptions of `Routing`:

- `Invariance`: `Spec => []IInv`, the inductive invariant;
- from it `TypeCorrect`, `TasksAndExchanges`, `NobodyStranded`,
  `CacheIsConfigured`, `CacheIsFresh`, `BudgetIsExact` and `FlightIsBounded`,
  each an invariant that a run checks;
- `ServersInOrder`: `Spec => ServerOrder`, the action property about the choice
  of servers;
- `ImplementsResolver`: `Spec => AnsweredOnce`, that the engine implements
  `Resolver`;
- `ImplementsDaemonView`: `Spec => ImplementsExchanges`, that it implements
  `Exchanges`. This one also uses `ExchangesConstants`: no question has more
  than `MaxCandidates` names under any configuration. Some bound exists for any
  finite choice of configurations and questions; its value is arbitrary.

The argument. Between two calls every task has exactly one exchange, so the
public properties look easy; within a call they do not hold, because a method
first ends an exchange and only then decides what its task does next. The
invariant is therefore stated for an engine record `e` and a set `L` of *loose*
tasks (`Good(e, L, W)` in `EngineInv`): exchanges are in bijection with the
tasks outside `L`; attempts are failures plus one; the questions waiting are
the owners of tasks, and a lookup's `pending` is exactly its tasks; an exchange
whose task may still fill the cache is not stale and is with a server now
configured; the cache holds only such answers. Each internal function ties one
loose task up, by settling it (`SettleTies`) or by a new exchange (`SendTies`,
`NextAttemptTies`, `NextCandidateTies`, `AdvanceTies`, all in `EngineProofs`).
Each public method makes a task loose and calls such a function (`EndLoose`,
`FailureLoose`, `AnswerLoose` and `AbandonKeeps` there, `ResolveKeeps` and
`LookupKeeps` in `EngineSteps`), and configuration changes keep the cache
part because `set_scopes` and `set_fallback` invalidate every scope whose
servers differ (`InvalidatedRest`, `ReconfigKeeps`). The same case analysis
gives the step simulation of `Resolver`.

An invariant says nothing of how a step got there, so the lemmas carry a second
fact along: `Follows(e, f, id, a, c)`, that the function settled the task `id`
or sent one exchange for it, to the server whose turn it was (`InTurn`, unless
over TCP), with its attempt and the number of its names known. Each action then
shows `Moves`: it leaves exchanges alone (`Quiet`), begins those of a question
(`Begins`), ends one, with or without a successor that has an attempt or a name
less to spend (`Replaces`), or forgets a question (`Forgets`). `ServerOrder` is
read off `InTurn`. For the refinement of `Exchanges`, `Outstanding` maps each
exchange to its question and fuel, the invariant makes the waiting questions
those of exchanges (`OutstandingOK`), and the four kinds of moves are a
stutter, `ask`, `over` or `retry`, and `abandon` (`QuietView`, `BeginView`,
`ReplaceView`, `ForgetView`). `Fueled` adds to the invariant that no fuel
exceeds the bound.

`RoutingProofs` gives the engine what it needs of routing: `route` returns a
scope that is up, the fallback or nothing; the list `servers_of` returns is as
long as the configured one, holds only configured servers, and has the healthy
ones before the demoted; `candidates` is a sequence of names. `EngineProofs` and
`EngineSteps` take these facts, and those about counting tasks, as one
hypothesis `Facts`; `FactsHold` in `EngineTheorems` discharges it, so nothing is
left assumed in the theorems. The provers see the fewer statements for it.

`RoutingTheorems` proves `ExclusiveIsObeyed`, `FallbackIsLast`, `SearchIsHome`
and `RoutesAreStable`, for every scope list, name and fallback that satisfy
`RoutingConstants` and `ScopeTableConstants`. `route` is the first of five rules
that selects a scope, and of several the one with the least metric
(`RouteDecided`), so two lists with the same verdict of every rule route alike.
Leaving out a scope that is not chosen embeds one list in the other
(`EmbedRoute`, `RemovalEmbeds`); exchanging neighbours with different metrics
makes them mirror images (`MirrorRoute`, `SwapMirrors`), and the places search
domains come from keep their order (`MirrorEarlier`, `MirrorCandidates`).
`ExpansionInOrder` says what `candidates` returns for a single label: exactly
the names the search domains in use make that are not too long, each once, and
each before the next by the place where it first occurs, places being ordered by
the metric of their scope, the snapshot and the list of domains, the fallback
last. It rests on places having an earliest one (`EarliestPlace`) and on
`Ordered` listing a finite ordered set in order (`OrderedType`, `OrderedAll`).

`CacheProofs` proves `CacheIsBounded`, `TTLsAreHonoured`, `EvictionIsFair` and
`CacheImplementsMemory`, for any keys, answers and limits that satisfy
`CacheConstants`. The invariant `CacheInv` says that the entries are a function
of a finite set of at most `MAX_ENTRIES` keys, that an entry expires no later
than each of its records does counted from `learned`, and that what was last
served came from such an entry while it lived. The refinement maps the memory
to the live entries, so that time passing is forgetting.

`DaemonProofs` proves `TablesStayInStep`, `ActionsStayCurrent`,
`RepliesAreOnce` and `AdmissionIsBounded`, for any set of askers, doors, peers,
budgets and fuels. At a poll the tables agree; in the middle of `perform` they
do not, and the invariant `DaemonInv` says by how much: the open sockets and
the pending sends together are the engine's exchanges and those about to be
cancelled, no exchange is both open and about to be sent, and the waiters are
the engine's questions and those with a pending answer, each of which is
pending once. It is stated for the list `todo \o follow` as a whole (`Sound`),
because a failed send turns the head of the first into the tail of the second,
and for `tick`, which collects the actions of several exchanges before any of
them is performed. `DoorsInv` adds that the tables are finite and only stream
connections are clients, and the budgets.

`LoopProofs` proves `RepliesAreWhole` and `QueueIsFair`, for any callers, socket
buffers, size of frame and length of the queue that satisfy `DoorConstants`.
The invariant `DoorInv` says that what a caller has read, followed by what is in
its socket, is the frame up to the place the daemon has written to, that nothing
is written before a reply is queued, that the queue is finite and bounded, and
that a connection refused a place has a socket smaller than the frame.

It also proves `ScopesAreCurrent`, `BackoffIsExact` and `ConfigIsCurrent`, for
any number of views and faults of netd, any
`MAX_BACKOFF` and any values loaded in any order that names each of them
(`LinkConstants`, `ConfigConstants`). The invariant `InputsInv` says that behind
an open stream the last snapshot under way, or the scopes in force if there is
none, are netd's current ones; that the delay waited for is the one the failures
before the last give, and the next one that of all; and
that, while every edit is sure to be seen, what a load has read so far is what
the registry still says. The delay is compared with `Doubled`, the powers of
two as a recursive function, of which only its equation and its growth are used.

Only model-checked:

- the liveness properties `EveryQuestionAnswered`, `EveryRequestEnds`,
  `EveryCallEnds` and `LatestApplied`: liveness under fairness is out of the
  prover's reach;
- `CandidatesAsLoop`, which compares `candidates` with the loop of the source
  written as folds over the sorted scopes: what a fold computes needs induction
  over data. `ExpansionInOrder` proves what the loop is for without it;
- everything in `codecs`, whose operators are recursive.

`AttemptsStayInScope`, `LateReplyCached` and `OwnBudget` are violated, as
described above.

## Not modelled

- The bytes of one scalar (`msgpack.rs`), of one label and of a DNS header's
  counts: `Protocol` and `DnsMessage` start above them. Text forms of names and
  records. The repository's fuzz targets cover these.
- A reply whose uncompressed form exceeds the largest DNS message makes
  `encode_udp` and `encode` fail, and the asker gets no reply; `DnsMessage`
  has this case, and `RepliesComplete` allows it.
- Opening and binding sockets, and the steps of a nonblocking connect.
- The access check of the control socket beyond its verdict: security
  descriptors are evaluated by the kernel.
- Handles, views and argument checks of the C library, which are memory layout.
- The source of random bytes, logging, notification, the status report and the
  command-line tool: no state that other parts read.
- The decoding of netd's snapshots and the registry's own protocol (vendored
  code): they succeed or fail.
- The subnet arithmetic of `same_subnet`.
