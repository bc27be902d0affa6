---------------------------- MODULE MCRegionQuorum ----------------------------
(* Instances of RegionQuorum for model checking. *)
EXTENDS RegionQuorum

CONSTANTS r1, r2, r3

Default == [kind |-> "default", count |-> 0]
OnlyDefault == {Default}

ThreeRegions == {r1, r2, r3}
TheTwo == {{r1, r2}}
UpDown == {"up", "down"}
=============================================================================
