--------------------------- MODULE MCGooglePhotos ---------------------------
(***************************************************************************)
(* Two requests for two pictures and one for a single one race for a cap   *)
(* of three, which a large and the small one fill and any other pair or    *)
(* all exceed, over a midnight.                                            *)
(***************************************************************************)
EXTENDS GooglePhotos, TLC

CONSTANTS a, b, c

MCCalls == {a, b, c}
MCAmount == [x \in MCCalls |-> IF x = c THEN 1 ELSE 2]
AlikeSymmetry == Permutations({a, b})
=============================================================================
