---------------------------- MODULE MCOutboxRelay ----------------------------
(* Two aggregates: the first and third events are about one, the second is *)
(* about the other.                                                        *)
EXTENDS OutboxRelay

MCAggregateOf == [e \in Events |-> e % 2]
=============================================================================
