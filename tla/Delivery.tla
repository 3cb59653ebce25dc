------------------------------- MODULE Delivery -------------------------------
(***************************************************************************)
(* What the RDMA transport promises for one flow: its bytes are delivered  *)
(* in order, no packet is skipped, and the sender takes nothing for        *)
(* delivered that is not.                                                  *)
(***************************************************************************)
EXTENDS Naturals

CONSTANTS
  Total,  \* bytes of the flow
  Grain   \* the most that one delivery adds

VARIABLES delivered, confirmed

dvars == <<delivered, confirmed>>

Init == delivered = 0 /\ confirmed = 0

Deliver ==
  \E n \in 1..Grain :
    /\ delivered + n <= Total
    /\ delivered' = delivered + n
    /\ UNCHANGED confirmed

Confirm ==
  /\ confirmed' \in (confirmed + 1)..delivered
  /\ UNCHANGED delivered

Spec == Init /\ [][Deliver \/ Confirm]_dvars
=============================================================================
