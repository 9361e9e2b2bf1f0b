----------------------------- MODULE ScopeTable -----------------------------
(***************************************************************************)
(* The scope lists set_scopes may be given (resolvd/src/engine.rs), built  *)
(* up one interface at a time, and what routing and search expansion       *)
(* promise under each of them.  The names asked and the fallback           *)
(* configurations are quantified over in the properties.                   *)
(***************************************************************************)
EXTENDS Routing

CONSTANTS
    Interfaces,       \* what an interface may contribute
    InterfaceIds,     \* the interfaces' identifiers, in snapshot order
    Names,            \* the names routed
    FallbackChoices   \* the fallback configurations

ASSUME ScopeTableConstants ==
    /\ Interfaces \subseteq Scope
    /\ InterfaceIds \in Seq(ScopeId)
    /\ Names \subseteq Name
    /\ FallbackChoices \subseteq Fallback

VARIABLE scopes

Init == scopes = <<>>

(* Snapshots have as many interfaces as there are identifiers, at most. *)
Announce(s) ==
    /\ Len(scopes) < Len(InterfaceIds)
    /\ scopes' = Append(scopes, [s EXCEPT !.id = InterfaceIds[Len(scopes) + 1]])

Next == \E s \in Interfaces : Announce(s)

Spec == Init /\ [][Next]_scopes

(* The names that search expansion applies to. *)
SingleLabels == {n \in Names : Len(n) = 1}

-----------------------------------------------------------------------------
(* One interface that is exclusive and has an address takes every          *)
(* question, and a single label is expanded with its search domains only.  *)
ExclusiveTakesAll ==
    exclusive(scopes) # {} =>
        \E i \in exclusive(scopes) : \A f \in FallbackChoices :
            /\ \A n \in Names : route(scopes, f, n) = scopes[i].id
            /\ \A n \in SingleLabels : \A c \in Range(candidates(scopes, f, n)) :
                   \E d \in Range(scopes[i].domains) : c = n \o d

(* The fallback servers are asked only while no interface that is up has   *)
(* servers or a default route, and a question has no scope only if there   *)
(* are no fallback servers either.                                         *)
FallbackLast ==
    \A n \in Names : \A f \in FallbackChoices :
        route(scopes, f, n) \in {FALLBACK_SCOPE, NoScope} =>
            /\ \A i \in up_scopes(scopes) :
                   scopes[i].servers = <<>> /\ ~scopes[i].default_route
            /\ route(scopes, f, n) = NoScope <=> f.servers = <<>>

(* A label expanded with an interface's search domain is asked on an       *)
(* interface that lists that domain or a more specific one.                *)
SearchStaysHome ==
    exclusive(scopes) = {} =>
        \A i \in up_scopes(scopes) : \A d \in Range(scopes[i].domains) :
            \A n \in SingleLabels : \A f \in FallbackChoices :
                \E j \in up_scopes(scopes) :
                    /\ scopes[j].id = route(scopes, f, n \o d)
                    /\ \E m \in MatchLengths(scopes, n \o d, j) : m >= Len(d)

(* A list without the interface at i. *)
LeavingOut(S, i) == SubSeq(S, 1, i - 1) \o SubSeq(S, i + 1, Len(S))

(* The order of a snapshot: the list with the interfaces i and i + 1       *)
(* exchanged.                                                              *)
Swapped(i) == [scopes EXCEPT ![i] = scopes[i + 1], ![i + 1] = scopes[i]]

(* A route depends on nothing it should not: an interface that goes away   *)
(* changes the route of no name but its own, and the order of a snapshot   *)
(* matters only between equal metrics.                                     *)
IrrelevantScopes ==
    \A n \in Names : \A f \in FallbackChoices :
        /\ \A i \in DOMAIN scopes :
              LET r == route(scopes, f, n)
              IN  r # scopes[i].id => route(LeavingOut(scopes, i), f, n) = r
        /\ \A i \in 1..(Len(scopes) - 1) :
              LET swapped == Swapped(i)
              IN  scopes[i].metric # scopes[i + 1].metric =>
                      /\ route(scopes, f, n) = route(swapped, f, n)
                      /\ candidates(scopes, f, n) = candidates(swapped, f, n)
=============================================================================
