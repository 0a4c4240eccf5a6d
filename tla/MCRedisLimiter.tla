--------------------------- MODULE MCRedisLimiter ---------------------------
(***************************************************************************)
(* An instance of RedisLimiter for TLC: five calls of different sizes.     *)
(***************************************************************************)
EXTENDS RedisLimiter

CONSTANTS c1, c2, c3, c4, c5

FiveCalls == {c1, c2, c3, c4, c5}
MixedTokens == [c \in Calls |-> IF c \in {c1, c2} THEN 2 ELSE IF c = c3 THEN 0 ELSE 1]
=============================================================================
