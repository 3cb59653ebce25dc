---------------------------- MODULE MCHawkeyeSwitch ----------------------------
(* Bounded instances of HawkeyeSwitch. *)
EXTENDS HawkeyeSwitch

\* Two flows that leave by the same port and whose tuples are hashed to the same register.
MCEgressPort == [f \in Flows |-> 44]
MCSlot == [f \in Flows |-> 0]
=============================================================================
