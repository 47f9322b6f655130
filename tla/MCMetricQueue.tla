--------------------------- MODULE MCMetricQueue ---------------------------
(* Instantiates MetricQueue for TLC: two metrics, two producer threads.   *)
(* Two points are enough for the drain loop to meet one registered and one *)
(* unregistered metric at once, for a batch to wait for its MQTT          *)
(* acknowledgement while the next one meets the ceiling (MqttMax = 0),    *)
(* and for the second point to find the queue (capacity 1) full.          *)
EXTENDS MetricQueue

CONSTANTS k1, k2, p1, p2

MCKeys == {k1, k2}
MCProducers == {p1, p2}
=============================================================================
