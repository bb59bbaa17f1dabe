--------------------------- MODULE MCModelServing ---------------------------
(* Small instances of ModelServing for TLC. *)
EXTENDS ModelServing

MCMetrics == {[recall |-> 100, ap |-> 90, orange_rate |-> 5, latency_ms |-> 900],
              [recall |-> 99, ap |-> 90, orange_rate |-> 5, latency_ms |-> 900],
              [recall |-> 100, ap |-> 80, orange_rate |-> 5, latency_ms |-> 1100]}

(* configs/promotion_gates.yaml has no orange_rate_max. *)
MCGates == [recall_defect_min |-> 100, image_ap_max_regression |-> 2, latency_p95_ms_max |-> 1000]

(* Bound: with a run of the task chain there is one reload, no restart and no prediction;   *)
(* two reloads race with rollbacks and registrations only.                                  *)
FewEvents ==
  chain.number = 0
    \/ /\ \E r \in Requests : \A q \in Requests \ {r} : request[q] = "new"
       /\ restarts = 0
       /\ \A p \in Predictions : recorded[p] = NotRecorded
=============================================================================
