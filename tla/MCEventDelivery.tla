-------------------------- MODULE MCEventDelivery --------------------------
(* Small instances of EventDelivery for TLC. *)
EXTENDS EventDelivery

CONSTANTS felled, felledAgain, started, alice, bob, d1, d2

\* Every event is alice's; bob, if he is there, acknowledges items that are
\* not his.
MCUserOf == [e \in Events |-> alice]
=============================================================================
