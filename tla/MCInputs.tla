------------------------------ MODULE MCInputs ------------------------------
(* A small instance of Inputs. *)
EXTENDS Inputs

mcLoadOrder == <<"servers", "hosts">>
=============================================================================
