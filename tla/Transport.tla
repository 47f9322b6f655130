----------------------------- MODULE Transport -----------------------------
(***************************************************************************)
(* The MQTT session of BleemeoConnector (bleemeo_agent/bleemeo.py), run by *)
(* three threads:                                                          *)
(*                                                                         *)
(*  - the connector thread, run(): wait for the configuration, wait until  *)
(*    _ready_for_mqtt, _mqtt_setup, then _loop (which publishes batches)   *)
(*    until is_terminating, then the forced 'disconnect' message, up to 5  *)
(*    s of waiting for _mqtt_queue_size to reach 0, and the disconnect;    *)
(*  - paho's network thread: on_connect (sets connected, publishes         *)
(*    'connect'), on_disconnect, on_publish (_mqtt_queue_size -= 1);       *)
(*  - the scheduler thread: publish_top_info, and the registration of the  *)
(*    agent and of its agent_status metric that _ready_for_mqtt waits for. *)
(*                                                                         *)
(* publish() and on_publish update _mqtt_queue_size with no lock: '+= 1'   *)
(* and '-= 1' are a load and a store, and a thread may be preempted       *)
(* between them.  Each update is therefore two steps: the load (with the   *)
(* ceiling test, for publish) into the thread's tmp, then the store.       *)
(***************************************************************************)
EXTENDS Integers, FiniteSets

CONSTANTS
    MqttMax,     \* MQTT_QUEUE_MAX_SIZE
    MaxMsgs,     \* bound: messages published in a behaviour
    MaxLinkDown  \* bound: connection losses

ASSUME MqttMax \in Nat /\ MaxMsgs \in Nat \ {0} /\ MaxLinkDown \in Nat

\* every message: at most MaxMsgs batches and top_info messages, one
\* 'connect' per connection and one 'disconnect'
MsgBound == MaxMsgs + MaxLinkDown + 2

Kinds == {"metrics", "connect", "top_info", "disconnect"}
Threads == {"connector", "paho", "scheduler"}

VARIABLES
    cpc,           \* connector thread: where run() is
    ppc,           \* paho thread: idle, or in the middle of an update
    spc,           \* scheduler thread: idle, or in publish_top_info
    tmp,           \* Threads -> the _mqtt_queue_size value each one loaded
    mqtt_queue_size,
    inflight,      \* messages handed to paho and not yet acknowledged
    nextMsg,
    link,          \* paho's network link: "none" (no client), "down", "up"
    connected,
    terminating,   \* core.is_terminating
    configured,    \* bleemeo.account_id and registration_key are set
    agentRegistered, facts, statusRegistered,
    upgrade,       \* upgrade_in_progress (the upgrade file exists)
    deadlinePassed,\* the 5 s shutdown window is over
    linkDowns,
    spuriousDrop,  \* history: a message dropped while few were in flight
    publishedEarly \* history: a message published before _ready_for_mqtt

vars == <<cpc, ppc, spc, tmp, mqtt_queue_size, inflight, nextMsg, link,
          connected, terminating, configured, agentRegistered, facts,
          statusRegistered, upgrade, deadlinePassed, linkDowns,
          spuriousDrop, publishedEarly>>

Ready == agentRegistered /\ facts /\ statusRegistered

\* messages paho holds, plus an acknowledgement whose decrement is pending:
\* what _mqtt_queue_size should be when no publish is half done
Outstanding == Cardinality(inflight) + (IF ppc = "ack_store" THEN 1 ELSE 0)

Init ==
    /\ cpc = "config" /\ ppc = "idle" /\ spc = "idle"
    /\ tmp = [t \in Threads |-> 0]
    /\ mqtt_queue_size = 0 /\ inflight = {} /\ nextMsg = 1
    /\ link = "none" /\ connected = FALSE /\ terminating = FALSE
    /\ configured \in BOOLEAN
    /\ agentRegistered = FALSE /\ facts = FALSE /\ statusRegistered = FALSE
    /\ upgrade \in BOOLEAN
    /\ deadlinePassed = FALSE /\ linkDowns = 0
    /\ spuriousDrop = FALSE /\ publishedEarly = FALSE

-----------------------------------------------------------------------------
(* publish(topic, message, force): the ceiling test and the load of        *)
(* _mqtt_queue_size, then (a step later) the store of the loaded value + 1 *)
(* and the hand-over of the message to paho.                               *)

\* the test at line 439 drops the message
Drop(force) ==
    /\ mqtt_queue_size > MqttMax /\ ~force
    /\ spuriousDrop' = (spuriousDrop \/ Outstanding <= MqttMax)

\* the test passes and the thread loads the counter
Load(t, force) ==
    /\ ~(mqtt_queue_size > MqttMax /\ ~force)
    /\ tmp' = [tmp EXCEPT ![t] = mqtt_queue_size]
    /\ UNCHANGED spuriousDrop

\* the store of the increment and mqtt_client.publish(..., qos 1)
Store(t, kind) ==
    /\ mqtt_queue_size' = tmp[t] + 1
    /\ inflight' = inflight \cup {[id |-> nextMsg, kind |-> kind]}
    /\ nextMsg' = nextMsg + 1
    /\ publishedEarly' = (publishedEarly \/ ~Ready)

Env == <<terminating, configured, agentRegistered, facts, statusRegistered,
         upgrade, linkDowns>>

-----------------------------------------------------------------------------
(* The connector thread: run().                                            *)

\* check_config_requirement: the configuration is there; go on
ConfigOk ==
    /\ cpc = "config" /\ configured
    /\ cpc' = "ready_wait"
    /\ UNCHANGED <<ppc, spc, tmp, mqtt_queue_size, inflight, nextMsg, link,
                   connected, deadlinePassed, spuriousDrop,
                   publishedEarly>> /\ UNCHANGED Env

\* is_terminating while waiting for the configuration: StopIteration
ConfigStop ==
    /\ cpc = "config" /\ ~configured /\ terminating
    /\ cpc' = "done"
    /\ UNCHANGED <<ppc, spc, tmp, mqtt_queue_size, inflight, nextMsg, link,
                   connected, deadlinePassed, spuriousDrop,
                   publishedEarly>> /\ UNCHANGED Env

\* mutant: the MQTT session is set up without waiting for readiness
ReadyWaitNoGate ==
    /\ cpc = "ready_wait"
    /\ cpc' = "setup"
    /\ UNCHANGED <<ppc, spc, tmp, mqtt_queue_size, inflight, nextMsg, link,
                   connected, deadlinePassed, spuriousDrop,
                   publishedEarly>> /\ UNCHANGED Env

\* the _ready_for_mqtt loop: ready, or terminating while not ready
ReadyWait ==
    /\ cpc = "ready_wait"
    /\ \/ Ready /\ cpc' = "setup"
       \/ ~Ready /\ terminating /\ cpc' = "done"
    /\ UNCHANGED <<ppc, spc, tmp, mqtt_queue_size, inflight, nextMsg, link,
                   connected, deadlinePassed, spuriousDrop,
                   publishedEarly>> /\ UNCHANGED Env

\* _mqtt_setup: the client is configured, connect() is attempted (a
\* socket.error is ignored) and paho's thread starts
MqttSetup ==
    /\ cpc = "setup"
    /\ cpc' = "loop" /\ link' = "down"
    /\ UNCHANGED <<ppc, spc, tmp, mqtt_queue_size, inflight, nextMsg,
                   connected, deadlinePassed, spuriousDrop,
                   publishedEarly>> /\ UNCHANGED Env

\* _loop publishes a batch of points: the test and load
LoopPublish ==
    /\ cpc = "loop" /\ ~terminating /\ nextMsg <= MaxMsgs
    /\ \/ Drop(FALSE) /\ UNCHANGED <<cpc, tmp>>
       \/ Load("connector", FALSE) /\ cpc' = "loop_store"
    /\ UNCHANGED <<ppc, spc, mqtt_queue_size, inflight, nextMsg, link,
                   connected, deadlinePassed,
                   publishedEarly>> /\ UNCHANGED Env

\* _loop re-gets and re-puts a point whose uuid is unresolved: once
\* repush_metric is a point that was later batched, 'repush_metric is
\* metric' never holds again and _loop never returns (the spin the
\* MetricQueue module shows); run() then never sees is_terminating
LoopSpin ==
    /\ cpc = "loop" /\ ~terminating
    /\ cpc' = "spin"
    /\ UNCHANGED <<ppc, spc, tmp, mqtt_queue_size, inflight, nextMsg, link,
                   connected, deadlinePassed, spuriousDrop,
                   publishedEarly>> /\ UNCHANGED Env

LoopStore ==
    /\ cpc = "loop_store"
    /\ Store("connector", "metrics") /\ cpc' = "loop"
    /\ UNCHANGED <<ppc, spc, tmp, link, connected, deadlinePassed,
                   spuriousDrop>> /\ UNCHANGED Env

\* is_terminating ends the while loop; the 'disconnect' message is
\* published with force=True only if connected and no upgrade is going on
LoopExit ==
    /\ cpc = "loop" /\ terminating
    /\ \/ connected /\ ~upgrade /\ Load("connector", TRUE) /\ cpc' = "stop_store"
       \/ ~(connected /\ ~upgrade) /\ cpc' = "stop_wait" /\ UNCHANGED <<tmp, spuriousDrop>>
    /\ UNCHANGED <<ppc, spc, mqtt_queue_size, inflight, nextMsg, link,
                   connected, deadlinePassed,
                   publishedEarly>> /\ UNCHANGED Env

StopStore ==
    /\ cpc = "stop_store"
    /\ Store("connector", "disconnect") /\ cpc' = "stop_wait"
    /\ UNCHANGED <<ppc, spc, tmp, link, connected, deadlinePassed,
                   spuriousDrop>> /\ UNCHANGED Env

\* mutant: the shutdown waits for the queue to drain with no deadline
StopWaitNoDeadline ==
    /\ cpc = "stop_wait"
    /\ mqtt_queue_size <= 0
    /\ cpc' = "done" /\ link' = "closed"
    /\ UNCHANGED <<ppc, spc, tmp, mqtt_queue_size, inflight, nextMsg,
                   connected, deadlinePassed, spuriousDrop,
                   publishedEarly>> /\ UNCHANGED Env

\* wait while _mqtt_queue_size > 0 and the 5 s deadline is ahead, then
\* mqtt_client.disconnect() and loop_stop(): what is in flight is lost
StopWait ==
    /\ cpc = "stop_wait"
    /\ mqtt_queue_size <= 0 \/ deadlinePassed
    /\ cpc' = "done" /\ link' = "closed"
    /\ UNCHANGED <<ppc, spc, tmp, mqtt_queue_size, inflight, nextMsg,
                   connected, deadlinePassed, spuriousDrop,
                   publishedEarly>> /\ UNCHANGED Env

\* the clock passes the shutdown deadline
DeadlineExpires ==
    /\ cpc = "stop_wait" /\ ~deadlinePassed
    /\ deadlinePassed' = TRUE
    /\ UNCHANGED <<cpc, ppc, spc, tmp, mqtt_queue_size, inflight, nextMsg,
                   link, connected, spuriousDrop,
                   publishedEarly>> /\ UNCHANGED Env

-----------------------------------------------------------------------------
(* paho's network thread (runs once _mqtt_setup started it).               *)

\* the broker accepts the connection: on_connect sets connected and
\* publishes 'connect' (not forced), unless the agent is terminating
OnConnect ==
    /\ link = "down" /\ ppc = "idle"
    /\ link' = "up"
    /\ \/ /\ ~terminating
          /\ connected' = TRUE
          /\ \/ Drop(FALSE) /\ UNCHANGED <<ppc, tmp>>
             \/ Load("paho", FALSE) /\ ppc' = "connect_store"
       \/ /\ terminating
          /\ UNCHANGED <<connected, ppc, tmp, spuriousDrop>>
    /\ UNCHANGED <<cpc, spc, mqtt_queue_size, inflight, nextMsg,
                   deadlinePassed, publishedEarly>> /\ UNCHANGED Env

ConnectStore ==
    /\ ppc = "connect_store"
    /\ Store("paho", "connect") /\ ppc' = "idle"
    /\ UNCHANGED <<cpc, spc, tmp, link, connected, deadlinePassed,
                   spuriousDrop>> /\ UNCHANGED Env

\* the connection is lost: on_disconnect clears connected; paho keeps the
\* unacknowledged qos 1 messages and sends them again after reconnecting
OnDisconnect ==
    /\ link = "up" /\ ppc = "idle" /\ linkDowns < MaxLinkDown
    /\ link' = "down" /\ connected' = FALSE
    /\ linkDowns' = linkDowns + 1
    /\ UNCHANGED <<cpc, ppc, spc, tmp, mqtt_queue_size, inflight, nextMsg,
                   deadlinePassed, spuriousDrop, publishedEarly,
                   terminating, configured, agentRegistered, facts,
                   statusRegistered, upgrade>>

\* the broker acknowledges message m: on_publish loads the counter ...
OnPublish(m) ==
    /\ link = "up" /\ ppc = "idle" /\ m \in inflight
    /\ inflight' = inflight \ {m}
    /\ tmp' = [tmp EXCEPT !["paho"] = mqtt_queue_size]
    /\ ppc' = "ack_store"
    /\ UNCHANGED <<cpc, spc, mqtt_queue_size, nextMsg, link, connected,
                   deadlinePassed, spuriousDrop,
                   publishedEarly>> /\ UNCHANGED Env

OnPublishStore ==
    /\ ppc = "ack_store"
    /\ mqtt_queue_size' = tmp["paho"] - 1 /\ ppc' = "idle"
    /\ UNCHANGED <<cpc, spc, tmp, inflight, nextMsg, link, connected,
                   deadlinePassed, spuriousDrop,
                   publishedEarly>> /\ UNCHANGED Env

-----------------------------------------------------------------------------
(* The scheduler thread.                                                   *)

\* publish_top_info: only with an agent uuid and while connected
\* (core.run shuts the scheduler down, waiting for its running jobs, before
\* it sets is_terminating: no job of the scheduler starts once terminating)
TopInfo ==
    /\ spc = "idle" /\ ~terminating /\ agentRegistered /\ connected /\ nextMsg <= MaxMsgs
    /\ \/ Drop(FALSE) /\ UNCHANGED <<spc, tmp>>
       \/ Load("scheduler", FALSE) /\ spc' = "top_store"
    /\ UNCHANGED <<cpc, ppc, mqtt_queue_size, inflight, nextMsg, link,
                   connected, deadlinePassed,
                   publishedEarly>> /\ UNCHANGED Env

TopInfoStore ==
    /\ spc = "top_store"
    /\ Store("scheduler", "top_info") /\ spc' = "idle"
    /\ UNCHANGED <<cpc, ppc, tmp, link, connected, deadlinePassed,
                   spuriousDrop>> /\ UNCHANGED Env

\* the readiness inputs, set by jobs of the scheduler: facts gathered,
\* register() (which returns early without the fqdn fact), and the
\* registration of agent_status (whose job returns without an agent uuid)
NotReadiness == <<cpc, ppc, spc, tmp, mqtt_queue_size, inflight, nextMsg,
                  link, connected, deadlinePassed, spuriousDrop,
                  publishedEarly, terminating, configured,
                  upgrade, linkDowns>>

GatherFacts ==
    /\ ~terminating /\ ~facts /\ facts' = TRUE
    /\ UNCHANGED <<agentRegistered, statusRegistered>> /\ UNCHANGED NotReadiness
\* the synchronize job, scheduled by run() (lines 219-223) once the
\* configuration check passed
SyncScheduled == cpc # "config" /\ configured

Register ==
    /\ ~terminating /\ SyncScheduled /\ facts /\ ~agentRegistered /\ agentRegistered' = TRUE
    /\ UNCHANGED <<facts, statusRegistered>> /\ UNCHANGED NotReadiness
RegisterAgentStatus ==
    /\ ~terminating /\ SyncScheduled /\ agentRegistered /\ ~statusRegistered /\ statusRegistered' = TRUE
    /\ UNCHANGED <<facts, agentRegistered>> /\ UNCHANGED NotReadiness

-----------------------------------------------------------------------------
(* Operator and signals.                                                   *)

\* the configuration file is completed; reload_config reads it (only the
\* loop of check_config_requirement reads it)
Configure ==
    /\ cpc = "config" /\ ~configured /\ configured' = TRUE
    /\ UNCHANGED <<cpc, ppc, spc, tmp, mqtt_queue_size, inflight, nextMsg,
                   link, connected, deadlinePassed, spuriousDrop,
                   publishedEarly, terminating,
                   agentRegistered, facts, statusRegistered, upgrade, linkDowns>>

\* SIGTERM: core.run leaves scheduler.start(), scheduler.shutdown() waits
\* for the running job (a top_info publish completes), then is_terminating
\* is set
Terminate ==
    /\ ~terminating /\ spc = "idle" /\ terminating' = TRUE
    /\ UNCHANGED <<cpc, ppc, spc, tmp, mqtt_queue_size, inflight, nextMsg,
                   link, connected, deadlinePassed, spuriousDrop,
                   publishedEarly, configured,
                   agentRegistered, facts, statusRegistered, upgrade, linkDowns>>

Connector ==
    \/ ConfigOk \/ ConfigStop \/ ReadyWait \/ MqttSetup \/ LoopPublish
    \/ LoopStore \/ LoopExit \/ StopStore \/ StopWait

Next ==
    \/ Connector \/ LoopSpin \/ DeadlineExpires
    \/ OnConnect \/ ConnectStore \/ OnDisconnect
    \/ \E m \in inflight : OnPublish(m)
    \/ OnPublishStore
    \/ TopInfo \/ TopInfoStore
    \/ GatherFacts \/ Register \/ RegisterAgentStatus
    \/ Configure \/ Terminate

\* Threads that are running make progress, a thread in the middle of an
\* update completes it, and time passes.  The broker, the operator and the
\* scheduler's jobs are the environment.  The spin is something _loop may
\* fall into, never something it must do, so LoopSpin has no fairness.
Spec ==
    /\ Init /\ [][Next]_vars
    /\ WF_vars(Connector) /\ WF_vars(DeadlineExpires)
    /\ WF_vars(ConnectStore) /\ WF_vars(OnPublishStore) /\ WF_vars(TopInfoStore)

-----------------------------------------------------------------------------
(* Properties.                                                             *)

\* The type, and the range of _mqtt_queue_size: a store writes one more
\* than a value that passed the ceiling test, or the forced 'disconnect'
\* adds one more, so it never exceeds MQTT_QUEUE_MAX_SIZE + 2.
TypeOK ==
    /\ cpc \in {"config", "ready_wait", "setup", "loop", "loop_store",
                "stop_store", "stop_wait", "spin", "done"}
    /\ ppc \in {"idle", "connect_store", "ack_store"}
    /\ spc \in {"idle", "top_store"}
    /\ tmp \in [Threads -> -MsgBound..MsgBound]
    /\ mqtt_queue_size \in -MsgBound..(MqttMax + 2)
    /\ inflight \subseteq [id : 1..MsgBound, kind : Kinds]
    /\ link \in {"none", "down", "up", "closed"}
    /\ {connected, terminating, configured, agentRegistered, facts,
        statusRegistered, upgrade, deadlinePassed} \subseteq BOOLEAN

\* No message reaches paho before _ready_for_mqtt held: the agent is
\* registered, facts are known and agent_status has its uuid (run() opens
\* the MQTT session only then, and publish_top_info needs 'connected').
NoPublishBeforeReady == ~publishedEarly

\* Once is_terminating is set, run() returns unless _loop is caught in its
\* re-get spin: the configuration wait and the readiness wait poll the
\* event, the forced 'disconnect' bypasses the ceiling, and the wait for
\* acknowledgements is bounded by its 5 s deadline even when the link is
\* down and paho can acknowledge nothing.
ShutdownCompletes == terminating ~> (cpc \in {"done", "spin"})

\* A non-forced message is dropped only when more than MQTT_QUEUE_MAX_SIZE
\* messages are really unacknowledged, which holds only while
\* _mqtt_queue_size counts the unacknowledged messages exactly.
NoSpuriousDrop == ~spuriousDrop

====
