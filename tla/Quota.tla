------------------------------- MODULE Quota --------------------------------
(***************************************************************************)
(* How often each kind of event that the outside world decides on may      *)
(* still happen: a bound on the model, shared by the modules that face the *)
(* students' browsers.                                                     *)
(***************************************************************************)
EXTENDS Naturals

VARIABLE quota

Use(kind) == quota[kind] > 0 /\ quota' = [quota EXCEPT ![kind] = @ - 1]
=============================================================================
