---------------------------- MODULE MCUnionVolume ----------------------------
(* Small instances of UnionVolume for TLC. *)
EXTENDS UnionVolume

AllRegimes == SUBSET {"crash", "evict"}
=============================================================================
