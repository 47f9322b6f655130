------------------------- MODULE MetricRegistration -------------------------
(***************************************************************************)
(* Metric registration in BleemeoConnector (bleemeo_agent/bleemeo.py):    *)
(*                                                                         *)
(*  - the synchronisation job (_bleemeo_synchronize, every 15 s, never    *)
(*    overlapping itself): an optional full pass (_retrive_threshold      *)
(*    forgets metrics the API no longer lists), container and service     *)
(*    registration, then _register_metric: a snapshot of metrics_uuid,   *)
(*    then for each unregistered key a locked dependency check, a POST    *)
(*    outside the lock and a locked write-back, each save going to the    *)
(*    state file;                                                         *)
(*  - producers' emit_metric (its locked section: metrics_info first      *)
(*    write wins, metrics_uuid setdefault None);                          *)
(*  - the registry: it creates a new metric for every POST, may fail a    *)
(*    call, may reject a metric or a service for good, may lose the       *)
(*    response of a call it executed; users may delete metrics on it;    *)
(*  - a crash and restart, which keeps only the state file.               *)
(*                                                                         *)
(* A key's dependencies (status_of parent, container, service) are fixed  *)
(* by the metric that carries it, so they are the constant Dep.           *)
(***************************************************************************)
EXTENDS Naturals, FiniteSets, Functions, TLC

CONSTANTS
    Keys, Services, Containers,
    AgentStatus,      \* ('agent_status', None, None), set up by __init__
    Dep,              \* Keys -> [parent : Keys \cup {NoKey}, container : .., service : ..]
    NoKey, NoContainer, NoService,
    None,
    Rejected,         \* metrics whose POST the API always refuses
    RejectedServices, \* services whose POST the API always refuses
    MaxId,            \* bound: metrics created on the API
    MaxFail,          \* bound: transient failures of API calls
    MaxCrash,         \* bound: crashes
    MaxUserDelete,    \* bound: metrics deleted by users on the API
    MaxContainerFail  \* bound: failed container registrations

ASSUME /\ AgentStatus \in Keys
       /\ Dep \in [Keys -> [parent : Keys \cup {NoKey},
                            container : Containers \cup {NoContainer},
                            service : Services \cup {NoService}]]
       /\ Rejected \subseteq Keys /\ RejectedServices \subseteq Services

VARIABLES
    metrics_uuid,   \* partial function Keys -> {None} \cup 1..MaxId
    metrics_info,   \* keys with a metrics_info entry (in memory only)
    persisted,      \* 'metrics_uuid' in the state file
    services_uuid,  \* registered services
    containers,     \* core.docker_containers (local discovery)
    container_uuid, \* registered containers ('docker_container_uuid')
    remote,         \* metrics on the API: [id, key, parent, container]
    sync,           \* the synchronisation job: pc, keys left (todo), key and id in hand
    failures, crashes, userDeletes,
    created,        \* history: every metric the API ever created
    discoveryChanged,  \* _last_discovery_sent < core.last_discovery_update
    containerFailures

vars == <<metrics_uuid, metrics_info, persisted, services_uuid, containers,
          container_uuid, remote, sync, failures, crashes, userDeletes, created,
          discoveryChanged, containerFailures>>

Ids == 1..MaxId
RemoteMetric == [id : Ids, key : Keys, parent : Ids \cup {0},
                 container : Containers \cup {NoContainer}]
Idle == [pc |-> "idle", todo |-> {}, key |-> NoKey, id |-> 0]

DelKey(f, k) == Restrict(f, DOMAIN f \ {k})
Unregistered == {k \in DOMAIN metrics_uuid : metrics_uuid[k] = None}

Init ==
    /\ metrics_uuid = (AgentStatus :> None)
    /\ metrics_info = {AgentStatus}
    /\ persisted = [k \in {} |-> None]
    /\ services_uuid = {}
    /\ containers = Containers
    /\ container_uuid = {}
    /\ remote = {}
    /\ sync = Idle
    /\ failures = 0 /\ crashes = 0 /\ userDeletes = 0
    /\ created = {}
    /\ discoveryChanged = TRUE /\ containerFailures = 0

-----------------------------------------------------------------------------
(* The environment.                                                        *)

\* emit_metric, the section under metrics_lock.  A point of a container's
\* metric comes from that container, so none arrives once it is gone.
Emit(k) ==
    /\ Dep[k].container \in containers \cup {NoContainer}
    /\ metrics_info' = metrics_info \cup {k}
    /\ metrics_uuid' = IF k \in DOMAIN metrics_uuid THEN metrics_uuid
                       ELSE metrics_uuid @@ (k :> None)
    /\ UNCHANGED <<persisted, services_uuid, containers, container_uuid,
                   remote, sync, failures, crashes, userDeletes, created,
                   discoveryChanged, containerFailures>>

\* a container disappears from local discovery
ContainerRemoved(c) ==
    /\ c \in containers
    /\ containers' = containers \ {c}
    /\ discoveryChanged' = TRUE
    /\ UNCHANGED <<metrics_uuid, metrics_info, persisted, services_uuid,
                   container_uuid, remote, sync, failures, crashes,
                   userDeletes, created, containerFailures>>

\* a user deletes a metric on the API
UserDelete(r) ==
    /\ userDeletes < MaxUserDelete
    /\ userDeletes' = userDeletes + 1
    /\ remote' = remote \ {r}
    /\ UNCHANGED <<metrics_uuid, metrics_info, persisted, services_uuid,
                   containers, container_uuid, sync, failures, crashes, created,
                   discoveryChanged, containerFailures>>

\* the agent crashes and restarts: BleemeoConnector.__init__ reloads the
\* state file and registers agent_status again; metrics_info is lost and
\* _last_discovery_sent starts at 0 again
Restart ==
    /\ crashes < MaxCrash
    /\ crashes' = crashes + 1
    /\ metrics_uuid' = IF AgentStatus \in DOMAIN persisted THEN persisted
                       ELSE persisted @@ (AgentStatus :> None)
    /\ metrics_info' = {AgentStatus}
    /\ sync' = Idle
    /\ discoveryChanged' = TRUE
    /\ UNCHANGED <<persisted, services_uuid, containers, container_uuid,
                   remote, failures, userDeletes, created, containerFailures>>

-----------------------------------------------------------------------------
(* The synchronisation job, before _register_metric.                       *)

\* _bleemeo_synchronize when no full pass is due
SyncIncremental ==
    /\ sync.pc = "idle"
    /\ sync' = [sync EXCEPT !.pc = "containers"]
    /\ UNCHANGED <<metrics_uuid, metrics_info, persisted, services_uuid,
                   containers, container_uuid, remote, failures, crashes,
                   userDeletes, created,
                   discoveryChanged, containerFailures>>

\* mutant: the full pass forgets metrics without saving the state file
ThresholdRefreshNoSave ==
    /\ sync.pc = "idle"
    /\ LET listed == {r.id : r \in remote}
           gone   == {k \in DOMAIN metrics_uuid :
                        metrics_uuid[k] # None /\ metrics_uuid[k] \notin listed}
       IN metrics_uuid' = Restrict(metrics_uuid, DOMAIN metrics_uuid \ gone)
    /\ sync' = [sync EXCEPT !.pc = "containers"]
    /\ UNCHANGED <<persisted, metrics_info, services_uuid, containers,
                   container_uuid, remote, failures, crashes, userDeletes, created,
                   discoveryChanged, containerFailures>>

\* full pass, _retrive_threshold: forget every registered metric whose uuid
\* the API no longer lists, saving the state file if any was forgotten
ThresholdRefresh ==
    /\ sync.pc = "idle"
    /\ LET listed == {r.id : r \in remote}
           gone   == {k \in DOMAIN metrics_uuid :
                        metrics_uuid[k] # None /\ metrics_uuid[k] \notin listed}
       IN /\ metrics_uuid' = Restrict(metrics_uuid, DOMAIN metrics_uuid \ gone)
          /\ persisted' = IF gone # {} THEN metrics_uuid' ELSE persisted
    /\ sync' = [sync EXCEPT !.pc = "containers"]
    /\ UNCHANGED <<metrics_info, services_uuid, containers, container_uuid,
                   remote, failures, crashes, userDeletes, created,
                   discoveryChanged, containerFailures>>

\* full pass, _retrive_threshold fails: the listing raises out of the job,
\* or the DELETE of a listed metric no longer sent (alerting mode) is not
\* answered 204 and the function returns before the save and the purge
ThresholdFailed ==
    /\ sync.pc = "idle" /\ failures < MaxFail
    /\ failures' = failures + 1
    /\ \/ sync' = Idle
       \/ remote # {} /\ sync' = [sync EXCEPT !.pc = "containers"]
    /\ UNCHANGED <<metrics_uuid, metrics_info, persisted, services_uuid,
                   containers, container_uuid, remote, crashes, userDeletes,
                   created, discoveryChanged, containerFailures>>

\* _register_containers, run when discovery changed since the last run
\* (_last_discovery_sent, set even when a call failed): POST every
\* unregistered container, DELETE every registered one that is gone (204
\* and 404 both count as done); a failed call is skipped
RegisterContainers ==
    /\ sync.pc = "containers"
    /\ \/ /\ discoveryChanged
          /\ \E okC \in SUBSET (containers \ container_uuid),
                okD \in SUBSET (container_uuid \ containers) :
               LET failed == Cardinality((containers \ container_uuid) \ okC)
                             + Cardinality((container_uuid \ containers) \ okD)
               IN /\ containerFailures + failed <= MaxContainerFail
                  /\ containerFailures' = containerFailures + failed
                  /\ container_uuid' = (container_uuid \cup okC) \ okD
          /\ discoveryChanged' = FALSE
       \/ /\ ~discoveryChanged
          /\ UNCHANGED <<container_uuid, discoveryChanged, containerFailures>>
    /\ sync' = [sync EXCEPT !.pc = "services"]
    /\ UNCHANGED <<metrics_uuid, metrics_info, persisted, services_uuid,
                   containers, remote, failures, crashes, userDeletes, created>>

\* _register_services: POST every unregistered service, a failed one is
\* skipped; then _register_metric's snapshot of metrics_uuid under the lock
RegisterServices ==
    /\ sync.pc = "services"
    /\ \E okS \in SUBSET ((Services \ services_uuid) \ RejectedServices) :
        LET failed == Cardinality(((Services \ services_uuid) \ RejectedServices) \ okS)
        IN /\ failures + failed <= MaxFail
           /\ failures' = failures + failed
           /\ services_uuid' = services_uuid \cup okS
    /\ sync' = [sync EXCEPT !.pc = "check", !.todo = Unregistered]
    /\ UNCHANGED <<metrics_uuid, metrics_info, persisted, containers,
                   container_uuid, remote, crashes, userDeletes, created,
                   discoveryChanged, containerFailures>>

-----------------------------------------------------------------------------
(* _register_metric: one step per key of the snapshot, in any order (the   *)
(* dict's order).  The locked dependency check and the POST after it are   *)
(* one step: only this job deletes keys or assigns uuids, so nothing the   *)
(* check read can change before the POST.                                  *)

Parent(k) == Dep[k].parent
ContainerOf(k) == Dep[k].container
ServiceOf(k) == Dep[k].service

\* the keys of the check in code order, each guard carrying the earlier ones
ParentPresent(k) == Parent(k) = NoKey \/ Parent(k) \in DOMAIN metrics_uuid
ParentRegistered(k) ==
    \/ Parent(k) = NoKey
    \/ Parent(k) \in DOMAIN metrics_uuid /\ metrics_uuid[Parent(k)] # None
ContainerPresent(k) == ContainerOf(k) = NoContainer \/ ContainerOf(k) \in containers
ContainerRegistered(k) ==
    ContainerOf(k) = NoContainer \/ ContainerOf(k) \in container_uuid
ServiceRegistered(k) == ServiceOf(k) = NoService \/ ServiceOf(k) \in services_uuid
Ready(k) ==
    /\ k \in metrics_info
    /\ ParentRegistered(k) /\ ContainerPresent(k) /\ ContainerRegistered(k)
    /\ ServiceRegistered(k)

CheckKey(k) == sync.pc = "check" /\ k \in sync.todo
KeepRemote == UNCHANGED <<services_uuid, containers, container_uuid, remote,
                          failures, crashes, userDeletes, created,
                   discoveryChanged, containerFailures>>

\* remove key k (and its info) and save the state file
Drop(k) ==
    /\ metrics_uuid' = DelKey(metrics_uuid, k)
    /\ metrics_info' = metrics_info \ {k}
    /\ persisted' = metrics_uuid'
    /\ sync' = [sync EXCEPT !.todo = @ \ {k}]
    /\ KeepRemote

\* seen in a previous run, not since: forget it
PurgeStale(k) ==
    /\ CheckKey(k) /\ k \notin metrics_info
    /\ Drop(k)

\* its status_of metric was deleted: delete it too
PurgeOrphanStatus(k) ==
    /\ CheckKey(k) /\ k \in metrics_info
    /\ ~ParentPresent(k)
    /\ Drop(k)

\* its container is gone from discovery: drop it
PurgeContainerGone(k) ==
    /\ CheckKey(k) /\ k \in metrics_info
    /\ ParentRegistered(k) /\ ~ContainerPresent(k)
    /\ Drop(k)

\* status_of an unregistered metric, or of an unregistered container: later
SkipUnresolvedDep(k) ==
    /\ CheckKey(k) /\ k \in metrics_info /\ ParentPresent(k)
    /\ \/ ~ParentRegistered(k)
       \/ ContainerPresent(k) /\ ~ContainerRegistered(k)
    /\ sync' = [sync EXCEPT !.todo = @ \ {k}]
    /\ UNCHANGED <<metrics_uuid, metrics_info, persisted>> /\ KeepRemote

\* self.services_uuid[(service, instance)] raises KeyError: the job ends
ServiceKeyError(k) ==
    /\ CheckKey(k) /\ k \in metrics_info
    /\ ParentRegistered(k) /\ ContainerPresent(k) /\ ContainerRegistered(k)
    /\ ~ServiceRegistered(k)
    /\ sync' = Idle
    /\ UNCHANGED <<metrics_uuid, metrics_info, persisted>> /\ KeepRemote

NewMetric(k) ==
    [id |-> Cardinality(created) + 1, key |-> k,
     parent |-> IF Parent(k) = NoKey THEN 0 ELSE metrics_uuid[Parent(k)],
     container |-> ContainerOf(k)]

\* the POST is answered 201: the API holds a new metric
PostCreated(k) ==
    /\ CheckKey(k) /\ Ready(k) /\ k \notin Rejected
    /\ Cardinality(created) < MaxId
    /\ remote' = remote \cup {NewMetric(k)}
    /\ created' = created \cup {NewMetric(k)}
    /\ sync' = [sync EXCEPT !.pc = "write", !.key = k,
                            !.id = NewMetric(k).id]
    /\ UNCHANGED <<metrics_uuid, metrics_info, persisted, services_uuid,
                   containers, container_uuid, failures, crashes, userDeletes,
                   discoveryChanged, containerFailures>>

\* any other answer: return, abandoning the rest of the pass
PostFailed(k) ==
    /\ CheckKey(k) /\ Ready(k)
    /\ k \in Rejected \/ failures < MaxFail
    /\ failures' = IF k \in Rejected THEN failures ELSE failures + 1
    /\ sync' = Idle
    /\ UNCHANGED <<metrics_uuid, metrics_info, persisted, services_uuid,
                   containers, container_uuid, remote, crashes, userDeletes,
                   created,
                   discoveryChanged, containerFailures>>

\* the API created the metric but the answer never arrived (requests
\* raises): the job ends and the key stays unregistered
PostLost(k) ==
    /\ CheckKey(k) /\ Ready(k) /\ k \notin Rejected
    /\ failures < MaxFail /\ Cardinality(created) < MaxId
    /\ failures' = failures + 1
    /\ remote' = remote \cup {NewMetric(k)}
    /\ created' = created \cup {NewMetric(k)}
    /\ sync' = Idle
    /\ UNCHANGED <<metrics_uuid, metrics_info, persisted, services_uuid,
                   containers, container_uuid, crashes, userDeletes,
                   discoveryChanged, containerFailures>>

\* mutant: the metric key is stored instead of the uuid the API returned
WriteBackStoresKey ==
    /\ sync.pc = "write"
    /\ metrics_uuid' = [metrics_uuid EXCEPT ![sync.key] = sync.key]
    /\ persisted' = metrics_uuid'
    /\ sync' = [pc |-> "check", todo |-> sync.todo \ {sync.key},
                 key |-> NoKey, id |-> 0]
    /\ UNCHANGED metrics_info /\ KeepRemote

WriteBack ==
    /\ sync.pc = "write"
    /\ metrics_uuid' = [metrics_uuid EXCEPT ![sync.key] = sync.id]
    /\ persisted' = metrics_uuid'
    /\ sync' = [pc |-> "check", todo |-> sync.todo \ {sync.key},
                 key |-> NoKey, id |-> 0]
    /\ UNCHANGED metrics_info /\ KeepRemote

\* every key of the snapshot was handled
PassDone ==
    /\ sync.pc = "check" /\ sync.todo = {}
    /\ sync' = Idle
    /\ UNCHANGED <<metrics_uuid, metrics_info, persisted>> /\ KeepRemote

-----------------------------------------------------------------------------
Job ==
    \/ SyncIncremental \/ ThresholdRefresh \/ ThresholdFailed
    \/ RegisterContainers \/ RegisterServices
    \/ \E k \in Keys :
         \/ PurgeStale(k) \/ PurgeOrphanStatus(k) \/ PurgeContainerGone(k)
         \/ SkipUnresolvedDep(k) \/ ServiceKeyError(k)
         \/ PostCreated(k) \/ PostFailed(k) \/ PostLost(k)
    \/ WriteBack \/ PassDone

Environment ==
    \/ \E k \in Keys : Emit(k)
    \/ \E c \in Containers : ContainerRemoved(c)
    \/ \E r \in remote : UserDelete(r)
    \/ Restart

Next == Job \/ Environment

\* the scheduler runs the job every 15 s for as long as the agent runs
Spec == Init /\ [][Next]_vars /\ WF_vars(Job)

-----------------------------------------------------------------------------
(* Properties.                                                             *)

TypeOK ==
    /\ DOMAIN metrics_uuid \subseteq Keys
    /\ \A k \in DOMAIN metrics_uuid : metrics_uuid[k] \in {None} \cup Ids
    /\ DOMAIN persisted \subseteq Keys
    /\ \A k \in DOMAIN persisted : persisted[k] \in {None} \cup Ids
    /\ metrics_info \subseteq Keys
    /\ services_uuid \subseteq Services /\ container_uuid \subseteq Containers
    /\ remote \subseteq created /\ created \subseteq RemoteMetric
    /\ sync \in [pc : {"idle", "containers", "services", "check", "write"}, todo : SUBSET Keys,
                 key : Keys \cup {NoKey}, id : 0..MaxId]
    /\ failures \in 0..MaxFail /\ crashes \in 0..MaxCrash
    /\ userDeletes \in 0..MaxUserDelete
    /\ discoveryChanged \in BOOLEAN /\ containerFailures \in 0..MaxContainerFail

\* Every uuid held in memory that the state file also holds is the same
\* uuid, and every registered uuid in memory is in the state file: a
\* restart of the agent neither forgets a registration nor resurrects a
\* metric that _retrive_threshold removed.
DiskAgreesWithMemory ==
    /\ \A k \in DOMAIN metrics_uuid :
         metrics_uuid[k] # None => k \in DOMAIN persisted /\ persisted[k] = metrics_uuid[k]
    /\ \A k \in DOMAIN persisted :
         persisted[k] # None => k \in DOMAIN metrics_uuid /\ metrics_uuid[k] = persisted[k]

\* metrics_uuid, beside the uuids the API lists, moves only as MetricCache
\* promises: across the job's snapshot, POSTs answered or lost, the full
\* pass, user deletions and a restart from the state file, a registered
\* metric is forgotten only once the API no longer lists its uuid, and no
\* uuid is ever changed or resurrected.
MCache == INSTANCE MetricCache
              WITH cache <- metrics_uuid, listed <- {r.id : r \in remote},
                   Uuids <- Ids
====
