--------------------------- MODULE MCSuggestionFlow ---------------------------
(* Instances of SuggestionFlow for TLC: the twins a and b, posted by two rounds
   of /improve, and the pair of a and c, whose ranges differ. *)
EXTENDS SuggestionFlow, TLC

CONSTANTS a, b, c, p, q

Twins == {a, b}
OnePatch == {p}
PatchOfTwins == a :> p @@ b :> p

Pair == {a, c}
AllPatches == {p, q}
PatchOfPair == a :> p @@ c :> q
=============================================================================
