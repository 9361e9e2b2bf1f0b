------------------------------ MODULE NetdLink ------------------------------
(***************************************************************************)
(* The subscription to netd (netd_link.rs): one stream that carries        *)
(* snapshots of the network's scopes, reconnected with a doubling delay    *)
(* when it is lost.  netd is external: it counts its views of the network  *)
(* (version), sends the current one to a new subscriber and every later    *)
(* one as it changes; it may crash, close the stream, be up and not        *)
(* accept, refuse the subscription or send what is not a snapshot,         *)
(* MaxFaults times in all.                                                 *)
(* Delays are in units of MIN_BACKOFF; how bytes become messages is        *)
(* Streams.                                                                *)
(***************************************************************************)
EXTENDS Integers, Sequences, FiniteSetsExt

CONSTANTS MAX_BACKOFF, MaxVersion, MaxFaults

ASSUME LinkConstants == MAX_BACKOFF \in Nat \ {0}

VARIABLES
    up, version, faults,    \* netd: running, its view, faults so far
    stream,     \* "none", "open", or "ended" by the other side
    inbox,      \* messages in the socket: a version, or one of those below
    wait,       \* next_try as it was set, from then; 0 once now >= next_try
    backoff,
    scopes,     \* the version last given to the engine, 0 for none
    failures    \* history: connections lost or failed since a snapshot

netdVars == <<up, version, faults>>
linkVars == <<stream, inbox, wait, backoff, scopes, failures>>

Refused == 0        \* a refusal, or what cannot be decoded
Other == -1         \* a reply of another kind
Oversized == -2     \* a header that announces too much

LinkInit ==
    /\ up \in BOOLEAN /\ version = 1 /\ faults = 0
    /\ stream = "none" /\ inbox = <<>> /\ wait = 0
    /\ backoff = 1 /\ scopes = 0 /\ failures = 0

-----------------------------------------------------------------------------
(* netd *)

Publish ==
    /\ up /\ version < MaxVersion
    /\ version' = version + 1
    /\ inbox' = IF stream = "open" THEN Append(inbox, version + 1) ELSE inbox
    /\ UNCHANGED <<up, faults, stream, wait, backoff, scopes, failures>>

(* The stream ends; what netd had not flushed is lost. *)
Hangs ==
    /\ faults < MaxFaults /\ faults' = faults + 1
    /\ stream = "open" /\ stream' = "ended"
    /\ \E k \in 0..Len(inbox) : inbox' = SubSeq(inbox, 1, k)
    /\ up' \in BOOLEAN
    /\ UNCHANGED <<version, wait, backoff, scopes, failures>>

(* A message among the others that is not a snapshot. *)
Garbles ==
    /\ faults < MaxFaults /\ faults' = faults + 1
    /\ stream = "open"
    /\ \E m \in {Refused, Other, Oversized} : inbox' = Append(inbox, m)
    /\ UNCHANGED <<up, version, stream, wait, backoff, scopes, failures>>

Start ==
    /\ ~up /\ up' = TRUE
    /\ UNCHANGED <<version, faults, linkVars>>

-----------------------------------------------------------------------------
Min2(a, b) == IF a < b THEN a ELSE b

(* The count stops where it no longer matters. *)
OneMore(n) == Min2(n + 1, MAX_BACKOFF)

(* Fault: the delay is doubled before it is scheduled. *)
Retry_doubled(delay) ==
    /\ wait' = Min2(2 * delay, MAX_BACKOFF)
    /\ backoff' = Min2(2 * delay, MAX_BACKOFF)

(* The next attempt waits for the delay there is; the one after, twice it. *)
Retry(delay) ==
    /\ wait' = delay
    /\ backoff' = Min2(2 * delay, MAX_BACKOFF)

(* Connect if it is time to, with an empty buffer.  The attempt fails when *)
(* netd is down, and may when it is up (a full listen queue, a subscribe   *)
(* that cannot be written in time).                                        *)
maintain ==
    /\ stream = "none" /\ wait = 0
    /\ \/ /\ up
          /\ stream' = "open" /\ inbox' = <<version>>
          /\ UNCHANGED <<wait, backoff, failures, faults>>
       \/ /\ up => faults < MaxFaults
          /\ faults' = IF up THEN faults + 1 ELSE faults
          /\ Retry(backoff) /\ failures' = OneMore(failures)
          /\ UNCHANGED <<stream, inbox>>
    /\ UNCHANGED <<up, version, scopes>>

(* Fault: the oldest of the snapshots read together stays. *)
apply_snapshot_first(snapshots) ==
    scopes' = IF snapshots = {} THEN scopes ELSE inbox[Min(snapshots)]

(* The engine is given the snapshots at these places of the inbox in turn, *)
(* so the last one stays.                                                  *)
apply_snapshot(snapshots) ==
    scopes' = IF snapshots = {} THEN scopes ELSE inbox[Max(snapshots)]

Lost(delay) ==
    /\ stream' = "none" /\ inbox' = <<>>
    /\ Retry(delay)

(* Read some of what is there, and the end of the stream when nothing is   *)
(* left before it.  Every message read is looked at, also those behind one *)
(* that loses the stream, but none behind an oversized one; a snapshot     *)
(* makes the next delay short, a reply of another kind does nothing.       *)
service ==
    /\ stream # "none"
    /\ inbox # <<>> \/ stream = "ended"
    /\ \E k \in 0..Len(inbox) :
          LET snapshots == {i \in 1..k : inbox[i] > 0 /\ \A j \in 1..i : inbox[j] # Oversized}
              eof == k = Len(inbox) /\ stream = "ended"
              lost == eof \/ \E i \in 1..k : inbox[i] \in {Refused, Oversized}
              delay == IF snapshots = {} THEN backoff ELSE 1
              failed == IF snapshots = {} THEN failures ELSE 0
          IN  /\ k > 0 \/ eof
              /\ apply_snapshot(snapshots)
              /\ IF lost
                 THEN Lost(delay) /\ failures' = OneMore(failed)
                 ELSE /\ inbox' = SubSeq(inbox, k + 1, Len(inbox))
                      /\ backoff' = delay /\ failures' = failed
                      /\ UNCHANGED <<stream, wait>>
    /\ UNCHANGED netdVars

(* Fault: the delay is watched only while there is a stream. *)
DelayOver_connected ==
    /\ stream # "none" /\ wait # 0
    /\ wait' = 0
    /\ UNCHANGED <<stream, inbox, backoff, scopes, failures, netdVars>>

(* next_deadline wakes the loop when the delay is over. *)
DelayOver ==
    /\ stream = "none" /\ wait # 0
    /\ wait' = 0
    /\ UNCHANGED <<stream, inbox, backoff, scopes, failures, netdVars>>

Netd == Publish \/ Hangs \/ Garbles \/ Start

-----------------------------------------------------------------------------
(* Behind a live stream with nothing left to read, the scopes in force are *)
(* netd's current ones, through lost, refused and repeated subscriptions   *)
(* and however the messages were read.                                     *)
ScopesCurrent == stream = "open" /\ inbox = <<>> => scopes = version

(* MIN_BACKOFF doubled n times. *)
Doubled[n \in Nat] == IF n = 0 THEN 1 ELSE 2 * Doubled[n - 1]

(* After n failures since the last snapshot the next attempt waits for     *)
(* MIN_BACKOFF doubled n - 1 times, up to MAX_BACKOFF: 0.5, 1, 2, 4, 8 and *)
(* then 10 seconds.  A netd that accepts and never serves is not retried   *)
(* faster than one that is not there.                                      *)
BackoffCounts ==
    wait # 0 => failures > 0 /\ wait = Min2(Doubled[failures - 1], MAX_BACKOFF)
=============================================================================
