--------------------------- MODULE MCEventDelivery ---------------------------
(* Every event is about one aggregate.                                     *)
EXTENDS EventDelivery

MCAggregateOf == [e \in Events |-> 1]
=============================================================================
