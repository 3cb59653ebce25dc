------------------------------ MODULE MCRouting ------------------------------
(* A fabric with paths of different lengths: switches s1 to s4 in a ring with one *)
(* chord, a host with two interfaces, and a host at each of two other switches. *)
EXTENDS Routing

MCLinks == {{"h1", "s1"}, {"h1", "s2"}, {"h2", "s3"}, {"h3", "s4"},
            {"s1", "s2"}, {"s2", "s3"}, {"s3", "s4"}, {"s4", "s1"}, {"s1", "s3"}}
=============================================================================
