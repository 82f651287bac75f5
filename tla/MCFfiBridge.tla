---------------------------- MODULE MCFfiBridge ----------------------------
(* Two identities with two messages each, one of them not genuine, and a ring *)
(* of four slots, so that it fills up and turns round.                         *)
EXTENDS FfiBridge

MCKeys      == {"k1", "k2"}
MCMessages  == {"m1", "bad1", "m2"}
MCAddressee == [m \in MCMessages |-> IF m = "m2" THEN "k2" ELSE "k1"]
MCGenuine   == {"m1", "m2"}

=============================================================================
