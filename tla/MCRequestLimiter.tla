-------------------------- MODULE MCRequestLimiter --------------------------
(* A small instance of RequestLimiter: a request of a slow rule that is    *)
(* redirected to another target, and one of an unlimited rule to the same  *)
(* first target.                                                           *)
EXTENDS RequestLimiter

CONSTANTS a, b, slow, fast, t, u

SlowAndFast  == [c \in {a, b} |-> IF c = a THEN slow ELSE fast]
Redirected   == [c \in {a, b} |-> IF c = a THEN <<t, u>> ELSE <<t, t>>]
SlowInterval == [r \in {slow, fast} |-> IF r = slow THEN 3 ELSE 0]
=============================================================================
