---------------------------- MODULE MCRateLimit ----------------------------
(***************************************************************************)
(* Login, limited by email and by address, and refresh, limited by address *)
(* alone; one email and one address.  In memory each limiter has a map of  *)
(* its own, so that one limiter is enough there.                           *)
(***************************************************************************)
EXTENDS RateLimit

LimitOf  == [l \in Limiters |-> IF l = "login" THEN 2 ELSE 1]
WindowOf == [l \in Limiters |-> 2]
Called   == [b \in Backends |-> IF b = "memory" THEN {"login"} ELSE Limiters]
============================================================================
