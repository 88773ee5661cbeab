---------------------------- MODULE MCRegionTree ----------------------------
(* TLC instance of RegionTree: below the root a property with two sensors   *)
(* side by side, or with a sensor and its receiver in a chain, and every    *)
(* smaller tree.                                                            *)
EXTENDS RegionTree

CONSTANTS r1, r2, r3

MCEarlier == {<<r1, r2>>, <<r2, r3>>}
MCKinds == {"Property", "Sensor", "Receive"}
=============================================================================
