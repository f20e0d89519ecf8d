----------------------------- MODULE MCMarketScan -----------------------------
(* The issuers and criteria of MCPlatform's scan, over three sessions. *)
EXTENDS MarketScan

SessionReports ==
    [d \in 0..2 |-> {(1 :> "bar") @@ (2 :> IF d = 0 THEN "bar" ELSE "quiet")
                        @@ (3 :> IF d = 0 THEN "partial" ELSE "bar")}]
Weights == [a |-> 2, b |-> 1]
Asks == [a |-> <<[need |-> 1, name |-> "x"], [need |-> 2, name |-> "y"]>>,
         b |-> <<[need |-> 2, name |-> "z"]>>]
Finds == <<{"x", "y"}, {"x", "z"}, {"y", "z"}>>
=============================================================================
