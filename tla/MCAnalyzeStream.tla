--------------------------- MODULE MCAnalyzeStream ---------------------------
(* A small instance of AnalyzeStream: a finding with two combinations, one *)
(* with a repeated combination and a truncated search, and one without     *)
(* validation; or with the first or the last of them refused, the latter   *)
(* also with Debug.                                                        *)
EXTENDS AnalyzeStream

CONSTANTS multi, repeated, other, k1, k2

LastBad == [f \in {multi, repeated, other} |-> IF f = other THEN "bad" ELSE "validated"]
SomeBad == {LastBad,
            [f \in {multi, repeated, other} |-> IF f = other THEN "direct" ELSE "validated"],
            [f \in {multi, repeated, other} |->
              CASE f = multi -> "bad" [] f = repeated -> "validated" [] OTHER -> "direct"]}
InDebug == {LastBad}
Combinations == [f \in {multi, repeated, other} |->
  CASE f = multi -> <<k1, k2>> [] f = repeated -> <<k1, k1>> [] OTHER -> <<>>]
=============================================================================
