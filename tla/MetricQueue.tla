---------------------------- MODULE MetricQueue ----------------------------
(***************************************************************************)
(* The outbound metric path of BleemeoConnector (bleemeo_agent/bleemeo.py):*)
(*                                                                         *)
(*  - producer threads calling emit_metric: put the point on the unbounded *)
(*    _metric_queue (guarded only by a qsize() check), then, under         *)
(*    metrics_lock, make sure the metric key exists in metrics_uuid;       *)
(*  - the connector thread running _loop: take points off the queue, look  *)
(*    their uuid up in metrics_uuid without the lock, drop "deleted" ones, *)
(*    re-push unresolved ones, batch resolved ones and publish the batch;  *)
(*  - publish / on_publish: the MQTT in-flight counter and its ceiling.    *)
(*                                                                         *)
(* The synchronisation thread that fills and prunes metrics_uuid is the    *)
(* environment here: Resolve (a successful _register_metric) and Purge     *)
(* (_register_metric dropping a stale entry, _retrive_threshold dropping a *)
(* metric deleted on the API).  MetricRegistration models it in detail.    *)
(***************************************************************************)
EXTENDS Naturals, Sequences, FiniteSets, Functions, TLC

CONSTANTS
    Keys,        \* metric keys (measurement, service, item)
    Producers,   \* threads calling emit_metric concurrently
    None,        \* Python None: metric known but not yet registered
    Deleted,     \* the 'deleted' default of metrics_uuid.get in _loop
    Stuck,       \* keys whose registration never succeeds (dependency never resolved)
    MaxPoints,   \* bound: number of points emitted in a behaviour
    QueueCap,    \* the 100000 of emit_metric's qsize() check
    BatchMax,    \* the 1000 of _loop's "len(metrics) > 1000"
    MqttMax,     \* MQTT_QUEUE_MAX_SIZE
    MaxUuid,     \* bound: number of registrations (fresh uuids) in a behaviour
    MaxPurge,    \* bound: number of removals from metrics_uuid in a behaviour
    AlertingKeys,\* keys sent in alerting mode: with a status, or in metric.alerting_metric
    MaxModeSwitch\* bound: alerting mode changes in a behaviour

ASSUME /\ Stuck \subseteq Keys
       /\ AlertingKeys \subseteq Keys
       /\ Producers # {}
       /\ MaxUuid >= Cardinality(Keys) + MaxPurge  \* every purged key can register again
       /\ {MaxPoints, QueueCap, BatchMax, MqttMax, MaxUuid, MaxPurge} \subseteq Nat

VARIABLES
    metrics_uuid,    \* partial function Keys -> {None} \cup uuids
    queue,           \* _metric_queue
    pc,              \* producer program counter inside emit_metric
    cur,             \* the point a producer is emitting
    batch,           \* _loop's local "metrics"
    repush,          \* _loop's local "repush_metric" (0 is None)
    dphase,          \* "get": inside the while True; "publish": after it
    mqtt_queue_size, \* BleemeoConnector._mqtt_queue_size
    nextPoint, nextUuid, purges,   \* bounded counters
    \* history, for the properties only
    delivered,       \* points handed to mqtt_client.publish, with their uuid
    dropped,         \* points _loop dropped as 'deleted'
    discarded,       \* points lost to a full queue or to MQTT backpressure
    emitted,         \* every point emitted so far
    everPurged,      \* keys ever removed from metrics_uuid
    alerting_mode,   \* core.alerting_mode
    modeSwitches

modeVars == <<alerting_mode, modeSwitches>>

vars == <<metrics_uuid, queue, pc, cur, batch, repush, dphase, mqtt_queue_size,
          nextPoint, nextUuid, purges, delivered, dropped, discarded, emitted,
          everPurged, modeVars>>

Uuids == 1..MaxUuid
Point == [id : 1..MaxPoints, key : Keys]
SentPoint == [id : 1..MaxPoints, key : Keys, uuid : Uuids \cup {None}]
NoPoint == [id |-> 0, key |-> None]

\* metrics_uuid.get(key, 'deleted')
Lookup(k) == IF k \in DOMAIN metrics_uuid THEN metrics_uuid[k] ELSE Deleted

\* dict.setdefault(k, v) and del d[k] on a partial function
SetDefault(f, k, v) == IF k \in DOMAIN f THEN f ELSE f @@ (k :> v)
DelKey(f, k) == Restrict(f, DOMAIN f \ {k})

\* sent_metric (lines 974-991): outside alerting mode every metric is
\* sent; in it, only those with a status or whitelisted.
SentMetric(k) == ~alerting_mode \/ k \in AlertingKeys

Ids(S) == {p.id : p \in S}
DeliveredIds == {delivered[j].id : j \in DOMAIN delivered}
Handled(p) == p.id \in DeliveredIds \cup Ids(dropped) \cup Ids(discarded)

Init ==
    /\ metrics_uuid = [k \in {} |-> None]
    /\ queue = <<>>
    /\ pc = [p \in Producers |-> "idle"]
    /\ cur = [p \in Producers |-> NoPoint]
    /\ batch = <<>>
    /\ repush = 0
    /\ dphase = "get"
    /\ mqtt_queue_size = 0
    /\ nextPoint = 0 /\ nextUuid = 0 /\ purges = 0
    /\ delivered = <<>> /\ dropped = {} /\ discarded = {}
    /\ emitted = {} /\ everPurged = {}
    /\ alerting_mode = FALSE /\ modeSwitches = 0

-----------------------------------------------------------------------------
(* Producers: emit_metric.  The sent_metric filter with the qsize() check, *)
(* the put and the locked setdefault are three separate steps of the       *)
(* calling thread.  A filtered metric returns with nothing changed.        *)

EmitCheck(p) ==
    /\ pc[p] = "idle"
    /\ nextPoint < MaxPoints
    /\ \E k \in Keys :
        LET pt == [id |-> nextPoint + 1, key |-> k] IN
        /\ SentMetric(k)
        /\ cur' = [cur EXCEPT ![p] = pt]
        /\ emitted' = emitted \cup {pt}
        /\ IF Len(queue) < QueueCap
              THEN /\ pc' = [pc EXCEPT ![p] = "put"]
                   /\ UNCHANGED discarded
              ELSE /\ pc' = [pc EXCEPT ![p] = "register"]
                   /\ discarded' = discarded \cup {pt}
    /\ nextPoint' = nextPoint + 1
    /\ UNCHANGED <<metrics_uuid, queue, batch, repush, dphase, mqtt_queue_size,
                   nextUuid, purges, delivered, dropped, everPurged>>
    /\ UNCHANGED modeVars

EmitPut(p) ==
    /\ pc[p] = "put"
    /\ queue' = Append(queue, cur[p])
    /\ pc' = [pc EXCEPT ![p] = "register"]
    /\ UNCHANGED <<metrics_uuid, cur, batch, repush, dphase, mqtt_queue_size,
                   nextPoint, nextUuid, purges, delivered, dropped, discarded,
                   emitted, everPurged>>
    /\ UNCHANGED modeVars

EmitRegister(p) ==
    /\ pc[p] = "register"
    /\ metrics_uuid' = SetDefault(metrics_uuid, cur[p].key, None)
    /\ pc' = [pc EXCEPT ![p] = "idle"]
    /\ cur' = [cur EXCEPT ![p] = NoPoint]
    /\ UNCHANGED <<queue, batch, repush, dphase, mqtt_queue_size, nextPoint,
                   nextUuid, purges, delivered, dropped, discarded, emitted,
                   everPurged>>
    /\ UNCHANGED modeVars

-----------------------------------------------------------------------------
(* The connector thread: one step per iteration of _loop's while True.     *)

DrainUnchanged == UNCHANGED <<metrics_uuid, pc, cur, mqtt_queue_size,
                              nextPoint, nextUuid, purges, emitted,
                              everPurged>>

\* metric_uuid == 'deleted': continue
DrainSkipDeleted ==
    /\ dphase = "get"
    /\ queue # <<>>
    /\ Lookup(Head(queue).key) = Deleted
    /\ queue' = Tail(queue)
    /\ dropped' = dropped \cup {Head(queue)}
    /\ DrainUnchanged
    /\ UNCHANGED <<batch, repush, dphase, delivered, discarded>>
    /\ UNCHANGED modeVars

\* Mutants (plausible slips in _loop's re-push): put the point back without
\* taking it off, or take it off without putting it back.
DrainRepushKeepsHead ==
    /\ dphase = "get"
    /\ queue # <<>>
    /\ Lookup(Head(queue).key) = None
    /\ LET m == Head(queue) IN
       /\ queue' = Append(queue, m)
       /\ dphase' = IF repush = m.id THEN "publish" ELSE "get"
       /\ repush' = IF repush = 0 THEN m.id ELSE repush
    /\ DrainUnchanged
    /\ UNCHANGED <<batch, delivered, dropped, discarded>>
    /\ UNCHANGED modeVars

DrainRepushLosesPoint ==
    /\ dphase = "get"
    /\ queue # <<>>
    /\ Lookup(Head(queue).key) = None
    /\ LET m == Head(queue) IN
       /\ queue' = Tail(queue)
       /\ dphase' = IF repush = m.id THEN "publish" ELSE "get"
       /\ repush' = IF repush = 0 THEN m.id ELSE repush
    /\ DrainUnchanged
    /\ UNCHANGED <<batch, delivered, dropped, discarded>>
    /\ UNCHANGED modeVars

\* metric_uuid is None: put it back; sleep and break once the first
\* re-pushed point comes round again.
DrainRepush ==
    /\ dphase = "get"
    /\ queue # <<>>
    /\ Lookup(Head(queue).key) = None
    /\ LET m == Head(queue) IN
       /\ queue' = Append(Tail(queue), m)
       /\ dphase' = IF repush = m.id THEN "publish" ELSE "get"
       /\ repush' = IF repush = 0 THEN m.id ELSE repush
    /\ DrainUnchanged
    /\ UNCHANGED <<batch, delivered, dropped, discarded>>
    /\ UNCHANGED modeVars

\* a registered metric: add it, with its uuid, to the batch
DrainCollect ==
    /\ dphase = "get"
    /\ queue # <<>>
    /\ Lookup(Head(queue).key) \notin {None, Deleted}
    /\ LET m == Head(queue) IN
       batch' = Append(batch, [id |-> m.id, key |-> m.key,
                               uuid |-> Lookup(m.key)])
    /\ queue' = Tail(queue)
    /\ dphase' = IF Len(batch') > BatchMax THEN "publish" ELSE "get"
    /\ DrainUnchanged
    /\ UNCHANGED <<repush, delivered, dropped, discarded>>
    /\ UNCHANGED modeVars

\* queue.get(timeout=...) raised queue.Empty
DrainTimeout ==
    /\ dphase = "get"
    /\ queue = <<>>
    /\ dphase' = "publish"
    /\ DrainUnchanged
    /\ UNCHANGED <<queue, batch, repush, delivered, dropped, discarded>>
    /\ UNCHANGED modeVars

\* Mutant: publish() without the MQTT_QUEUE_MAX_SIZE check.
PublishBatchNoCeiling ==
    /\ dphase = "publish"
    /\ batch # <<>>
    /\ mqtt_queue_size' = mqtt_queue_size + 1
    /\ delivered' = delivered \o batch
    /\ batch' = <<>> /\ repush' = 0 /\ dphase' = "get"
    /\ UNCHANGED <<metrics_uuid, queue, pc, cur, nextPoint, nextUuid, purges,
                   dropped, discarded, emitted, everPurged>>
    /\ UNCHANGED modeVars

\* end of _loop: publish(topic, json.dumps(metrics)) when the batch is not
\* empty; publish() returns without sending above MQTT_QUEUE_MAX_SIZE.
PublishBatch ==
    /\ dphase = "publish"
    /\ batch # <<>>
    /\ mqtt_queue_size <= MqttMax
    /\ mqtt_queue_size' = mqtt_queue_size + 1
    /\ delivered' = delivered \o batch
    /\ batch' = <<>> /\ repush' = 0 /\ dphase' = "get"
    /\ UNCHANGED <<metrics_uuid, queue, pc, cur, nextPoint, nextUuid, purges,
                   dropped, discarded, emitted, everPurged>>
    /\ UNCHANGED modeVars

DropBatch ==
    /\ dphase = "publish"
    /\ batch # <<>>
    /\ mqtt_queue_size > MqttMax
    /\ discarded' = discarded \cup {[id |-> b.id, key |-> b.key] : b \in Range(batch)}
    /\ batch' = <<>> /\ repush' = 0 /\ dphase' = "get"
    /\ UNCHANGED <<metrics_uuid, queue, pc, cur, mqtt_queue_size, nextPoint,
                   nextUuid, purges, delivered, dropped, emitted,
                   everPurged>>
    /\ UNCHANGED modeVars

EndLoop ==
    /\ dphase = "publish"
    /\ batch = <<>>
    /\ repush' = 0 /\ dphase' = "get"
    /\ UNCHANGED <<metrics_uuid, queue, pc, cur, batch, mqtt_queue_size,
                   nextPoint, nextUuid, purges, delivered, dropped, discarded,
                   emitted, everPurged>>
    /\ UNCHANGED modeVars

\* on_publish: the broker acknowledged one message
OnPublish ==
    /\ mqtt_queue_size > 0
    /\ mqtt_queue_size' = mqtt_queue_size - 1
    /\ UNCHANGED <<metrics_uuid, queue, pc, cur, batch, repush, dphase,
                   nextPoint, nextUuid, purges, delivered, dropped, discarded,
                   emitted, everPurged>>
    /\ UNCHANGED modeVars

-----------------------------------------------------------------------------
(* The synchronisation thread, as seen from here.                          *)

\* _register_metric: POST answered 201, metrics_uuid[key] = data['id']
Resolve(k) ==
    /\ k \in DOMAIN metrics_uuid
    /\ metrics_uuid[k] = None
    /\ k \notin Stuck
    /\ nextUuid < MaxUuid
    /\ nextUuid' = nextUuid + 1
    /\ metrics_uuid' = [metrics_uuid EXCEPT ![k] = nextUuid + 1]
    /\ UNCHANGED <<queue, pc, cur, batch, repush, dphase, mqtt_queue_size,
                   nextPoint, purges, delivered, dropped, discarded, emitted,
                   everPurged>>
    /\ UNCHANGED modeVars

\* _register_metric deleting a stale or orphaned unregistered entry, or
\* _retrive_threshold deleting a metric the API no longer lists
Purge(k) ==
    /\ k \in DOMAIN metrics_uuid
    /\ purges < MaxPurge
    /\ purges' = purges + 1
    /\ metrics_uuid' = DelKey(metrics_uuid, k)
    /\ everPurged' = everPurged \cup {k}
    /\ UNCHANGED <<queue, pc, cur, batch, repush, dphase, mqtt_queue_size,
                   nextPoint, nextUuid, delivered, dropped, discarded, emitted>>
    /\ UNCHANGED modeVars

-----------------------------------------------------------------------------

Drain == DrainSkipDeleted \/ DrainRepush \/ DrainCollect \/ DrainTimeout
         \/ PublishBatch \/ DropBatch \/ EndLoop

\* The synchronize job's full pass calls core.set_alerting_mode with the
\* agent's mode (line 543).
SetAlertingMode ==
    /\ modeSwitches < MaxModeSwitch
    /\ alerting_mode' = ~alerting_mode
    /\ modeSwitches' = modeSwitches + 1
    /\ UNCHANGED <<metrics_uuid, queue, pc, cur, batch, repush, dphase,
                   mqtt_queue_size, nextPoint, nextUuid, purges, delivered,
                   dropped, discarded, emitted, everPurged>>

Next ==
    \/ \E p \in Producers : EmitCheck(p) \/ EmitPut(p) \/ EmitRegister(p)
    \/ Drain
    \/ OnPublish
    \/ \E k \in Keys : Resolve(k) \/ Purge(k)
    \/ SetAlertingMode

(* The connector thread and a started emit_metric call always proceed; the *)
(* broker eventually acknowledges; a metric whose registration can succeed *)
(* is eventually registered by the 15 s synchronisation job.  Emitting and *)
(* purging are up to the environment.                                      *)
Fairness ==
    /\ WF_vars(Drain)
    /\ WF_vars(OnPublish)
    /\ \A p \in Producers : WF_vars(EmitPut(p)) /\ WF_vars(EmitRegister(p))
    /\ \A k \in Keys : WF_vars(Resolve(k))

Spec == Init /\ [][Next]_vars /\ Fairness

-----------------------------------------------------------------------------

TypeOK ==
    /\ DOMAIN metrics_uuid \subseteq Keys
    /\ \A k \in DOMAIN metrics_uuid : metrics_uuid[k] \in {None} \cup Uuids
    /\ queue \in Seq(Point)
    /\ pc \in [Producers -> {"idle", "put", "register"}]
    /\ alerting_mode \in BOOLEAN
    /\ batch \in Seq(SentPoint)
    /\ repush \in 0..MaxPoints
    /\ dphase \in {"get", "publish"}
    /\ mqtt_queue_size \in 0..(MqttMax + 1)
    /\ delivered \in Seq(SentPoint)
    /\ dropped \subseteq Point /\ discarded \subseteq Point

(* Re-pushing unresolved points in _loop never duplicates one: each point  *)
(* is published at most once.                                              *)
NoDuplicateDelivery ==
    IsInjective([j \in DOMAIN delivered |-> delivered[j].id])

(* _loop drops a point as 'deleted' only if its metric was really removed *)
(* from metrics_uuid, never merely because emit_metric has not yet added   *)
(* the key.                                                                *)
DropOnlyDeleted ==
    \A p \in dropped : p.key \in everPurged

(* Every emitted point of a metric that can be registered eventually      *)
(* leaves the pipeline: published, dropped as deleted, or discarded under  *)
(* backpressure.  It is not held forever in _loop's batch or queue.        *)
PointEventuallyHandled ==
    \A p \in Point : (p \in emitted /\ p.key \notin Stuck) ~> Handled(p)

=============================================================================
