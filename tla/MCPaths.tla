------------------------------ MODULE MCPaths ------------------------------
(***************************************************************************)
(* The names and patterns of the instances that TLC checks.                *)
(***************************************************************************)
EXTENDS Filter

a == <<"a">>
ab == <<"a", "b">>
b == <<"b">>
h == <<"h">>
x == <<"x">>
odd == <<"x", "b">>      \* x may be no UTF-8

LowerCase == [c \in {"a", "b", "h", "x", "A"} |-> IF c = "A" THEN "a" ELSE c]

P(negated, anchored, segments) == Pattern(negated, anchored, FALSE, segments)
DeepStar == <<Star, Star>>
=============================================================================
