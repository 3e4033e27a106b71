------------------------- MODULE MC_CapabilityAlgebra -------------------------
(* Instantiation of CapabilityAlgebra for TLC: two domains, three pages    *)
(* (so a region can be segmented twice), six table slots and a quota of    *)
(* two capabilities per domain, which the calls reach.                     *)
EXTENDS CapabilityAlgebra, TLC

CONSTANTS a, b

MCCapDomains == {a, b}
=============================================================================
