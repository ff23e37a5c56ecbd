--------------------------- MODULE AsyncMetricsMC ---------------------------
(* Instances of AsyncMetrics for TLC. *)
EXTENDS AsyncMetrics

MovesMC == {"e1", "e2", "p1"}
CounterMC == [m \in MovesMC |-> IF m = "p1" THEN "processed" ELSE "enqueued"]
=============================================================================
