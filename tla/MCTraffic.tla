------------------------------ MODULE MCTraffic ------------------------------
(***************************************************************************)
(* Instances of TrafficProperties.                                         *)
(***************************************************************************)
EXTENDS TrafficProperties

Down(n) == [d \in Dir |-> IF d = "down" THEN n ELSE 0]
Up(n) == [d \in Dir |-> IF d = "up" THEN n ELSE 0]

(* One direction is enough where only the counters matter; both are used   *)
(* where the sum does.                                                     *)
OneWay == {Down(1), Down(2)}
BothWays == {Down(2), Up(1)}

(* Nothing reads total_usage but its own properties: a run that checks     *)
(* none of them need not tell states apart by it.                          *)
WithoutTotal == <<stateVars, mu, thr>>

Bulk == {Down(3)}
=============================================================================
