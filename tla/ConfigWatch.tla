---------------------------- MODULE ConfigWatch ----------------------------
(***************************************************************************)
(* The configuration in the registry (config.rs, registry_reader.rs): read *)
(* at startup and again after every change that the watch reports.  A load *)
(* reads the values one after the other while others may edit them, so a   *)
(* load can mix old and new; any read may fail.  The registry is external: *)
(* each value is the number of times it was edited, MaxEdits in all.       *)
(***************************************************************************)
EXTENDS Naturals, Sequences, Functions

CONSTANTS Value, LoadOrder, MaxEdits

ASSUME ConfigConstants == LoadOrder \in Seq(Value) /\ Range(LoadOrder) = Value

VARIABLES
    registry,
    watch,      \* "unarmed" while starting, "armed", "ready" with events to
                \* read, or "none" when it could not be armed
    loading,    \* the values still to be read; <<>> between loads
    fresh,      \* those read so far by this load
    config,     \* the configuration in force
    running,    \* FALSE while starting and after a failed start
    unseen      \* history: an edit that no event will report, or whose load
                \* failed, since the last load

configVars == <<registry, watch, loading, fresh, config, running, unseen>>

Unread == [v \in Value |-> 0]

(* main loads the configuration before it serves. *)
ConfigInit ==
    /\ registry = Unread /\ watch = "unarmed"
    /\ loading = LoadOrder /\ fresh = Unread
    /\ config = Unread /\ running = FALSE /\ unseen = FALSE

Edits == FoldFunction(LAMBDA n, sum : n + sum, 0, registry)

Edit(v) ==
    /\ Edits < MaxEdits
    /\ registry' = [registry EXCEPT ![v] = @ + 1]
    /\ IF watch \in {"armed", "ready"}
       THEN watch' = "ready" /\ UNCHANGED unseen
       ELSE unseen' = TRUE /\ UNCHANGED watch
    /\ UNCHANGED <<loading, fresh, config, running>>

(* One value; absent and malformed ones have a reading too. *)
load_value ==
    /\ Len(loading) > 1
    /\ fresh' = [fresh EXCEPT ![Head(loading)] = registry[Head(loading)]]
    /\ loading' = Tail(loading)
    /\ UNCHANGED <<registry, watch, config, running, unseen>>

(* Fault: events that came during the load are taken as seen. *)
apply_config_drains ==
    /\ Len(loading) = 1
    /\ config' = [fresh EXCEPT ![Head(loading)] = registry[Head(loading)]]
    /\ fresh' = Unread /\ loading' = <<>> /\ running' = TRUE
    /\ watch' = IF running THEN "armed" ELSE watch
    /\ UNCHANGED <<registry, unseen>>

(* The last value, and the configuration is put in force.  The first load  *)
(* is followed by the watch.                                               *)
apply_config ==
    /\ Len(loading) = 1
    /\ config' = [fresh EXCEPT ![Head(loading)] = registry[Head(loading)]]
    /\ fresh' = Unread /\ loading' = <<>> /\ running' = TRUE
    /\ UNCHANGED <<registry, watch, unseen>>

(* A read fails: the previous configuration stays, and at startup the      *)
(* daemon exits.                                                           *)
load_fails ==
    /\ loading # <<>>
    /\ loading' = <<>> /\ fresh' = Unread /\ unseen' = TRUE
    /\ UNCHANGED <<registry, watch, config, running>>

(* config::watch after the first load; the daemon goes on without one. *)
arm ==
    /\ running /\ loading = <<>> /\ watch = "unarmed"
    /\ watch' \in {"armed", "none"}
    /\ UNCHANGED <<registry, loading, fresh, config, running, unseen>>

(* The watch reports an error and is armed anew: events not read by then   *)
(* are gone, and no load follows.                                          *)
watch_error ==
    /\ watch \in {"armed", "ready"} /\ loading = <<>>
    /\ watch' \in {"armed", "none"}
    /\ unseen' = (unseen \/ watch = "ready")
    /\ UNCHANGED <<registry, loading, fresh, config, running>>

(* The events are taken off the watch, and then the load begins. *)
read_watch_events ==
    /\ watch = "ready" /\ loading = <<>>
    /\ watch' = "armed" /\ unseen' = FALSE
    /\ loading' = LoadOrder /\ fresh' = Unread
    /\ UNCHANGED <<registry, config, running>>

Registry == \E v \in Value : Edit(v)

Load == load_value \/ apply_config \/ arm

-----------------------------------------------------------------------------
(* When no event waits and no edit went unseen, the configuration in force *)
(* is the registry's, although a load reads value by value while they are  *)
(* being edited.                                                           *)
ConfigCurrent ==
    running /\ watch = "armed" /\ loading = <<>> /\ ~unseen => config = registry
=============================================================================
