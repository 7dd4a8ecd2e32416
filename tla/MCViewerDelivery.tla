-------------------------- MODULE MCViewerDelivery --------------------------
(* Instances of ViewerDelivery for the model checker.                      *)
EXTENDS ViewerDelivery

CONSTANTS v1, v2, w1, w2

TwoViewers == {v1, v2}
OneViewer == {v1}
OneWriter == {w1}
TwoWriters == {w1, w2}
Nobody == {}

(* A state is explored further with two viewers that joined and nothing    *)
(* stored, or with one viewer and two writers.                             *)
OneCrowd ==
    pc[v2] # "new" => log = <<>> /\ writer[w2] = "away"
=============================================================================
