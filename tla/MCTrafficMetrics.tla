--------------------------- MODULE MCTrafficMetrics ---------------------------
(***************************************************************************)
(* TrafficMetrics for TLC: two calls on one host, with sizes that no two   *)
(* different sums of them share.                                           *)
(***************************************************************************)
EXTENDS TrafficMetrics, TLC

MCHost     == "c1" :> "a.test" @@ "c2" :> "a.test"
MCBytesIn  == "c1" :> 1 @@ "c2" :> 3
MCBytesOut == "c1" :> 9 @@ "c2" :> 27

=============================================================================
