------------------------------- MODULE Inputs -------------------------------
(***************************************************************************)
(* Where the engine's configuration comes from: the subscription to netd   *)
(* and the registry, served by one loop.  While the loop loads the         *)
(* registry it serves nothing else; netd and the editors of the registry   *)
(* go on.                                                                  *)
(***************************************************************************)
EXTENDS NetdLink, ConfigWatch

inputVars == <<netdVars, linkVars, configVars>>

InputsInit == LinkInit /\ ConfigInit

(* The loop between loads. *)
Between == running /\ loading = <<>> /\ watch # "unarmed"

Link == (maintain \/ service \/ DelayOver) /\ Between /\ UNCHANGED configVars

Config == (Load \/ load_fails \/ watch_error \/ read_watch_events) /\ UNCHANGED <<netdVars, linkVars>>

InputsNext ==
    \/ Netd /\ UNCHANGED configVars
    \/ Registry /\ UNCHANGED <<netdVars, linkVars>>
    \/ Link
    \/ Config

(* netd is started again after a crash; a load is a bounded number of      *)
(* reads, and the loop comes back to the link.                             *)
InputsFairness ==
    /\ WF_inputVars(Start /\ UNCHANGED configVars)
    /\ WF_inputVars(Load /\ UNCHANGED <<netdVars, linkVars>>)
    /\ SF_inputVars(Link)

InputsSpec == InputsInit /\ [][InputsNext]_inputVars /\ InputsFairness

-----------------------------------------------------------------------------
(* However often the subscription was lost, and whatever happens in the    *)
(* registry meanwhile, a daemon that started ends up with netd's last view *)
(* of the network.                                                         *)
LatestApplied == <>[](running => scopes = version)
=============================================================================
