--------------------------- MODULE MCTransitLookup ---------------------------
(***************************************************************************)
(* Two requests for the same pair of places, up to four calls for a cap of *)
(* two, over a midnight.                                                   *)
(***************************************************************************)
EXTENDS TransitLookup, TLC

LookupSymmetry == Permutations(Lookups)
=============================================================================
