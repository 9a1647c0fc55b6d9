--------------------------- MODULE MCRateLimiter ----------------------------
(***************************************************************************)
(* A small instance of RateLimiter.  All parameters share an id but not    *)
(* their points.  "both" makes limiters that block, as its first parameter *)
(* declares a duration.  "odd" has a parameter without an id, one that     *)
(* declares nothing, and one whose getId throws.                           *)
(***************************************************************************)
EXTENDS RateLimiter, TLC

RouteNames == {"both", "odd", "off"}
RouteParams ==
    [t \in RouteNames |->
       CASE t = "both"  -> <<[id |-> "x", points |-> 2, duration |-> 2],
                             [id |-> "x", points |-> 1, duration |-> 0]>>
         [] t = "odd"   -> <<[id |-> NoId, points |-> 0, duration |-> 0],
                             [id |-> "x", points |-> 0, duration |-> 0],
                             [id |-> Throws, points |-> 0, duration |-> 0]>>
         [] t = "off"   -> <<>>]
Defaults == [points |-> 1, duration |-> 2]
Symmetry == Permutations(Requests) \cup Permutations(Workers)
=============================================================================
