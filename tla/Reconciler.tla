----------------------------- MODULE Reconciler -----------------------------
(***************************************************************************)
(* The service side of BleemeoConnector._bleemeo_synchronize (bleemeo.py): *)
(* the choice between an incremental and a full pass, the full pass's      *)
(* _purge_deleted_services, _register_services, and the 'resync' control   *)
(* message handled by on_message on the MQTT thread.                       *)
(*                                                                         *)
(* services_uuid maps a discovered (service, instance) key to the entry    *)
(* the API accepted; an entry's descriptor (listen_addresses, label,       *)
(* exe_path, instance) is abstracted to a member of Descs. The API's       *)
(* service list is `remote`. The timestamps of the pass trigger are kept   *)
(* as what the comparisons at lines 538-540 tell apart.                    *)
(***************************************************************************)
EXTENDS Naturals, FiniteSets, Functions, TLC

CONSTANTS
    SvcKeys,        \* (service_name, instance) keys discovery can report
    Descs,          \* service descriptors
    MaxId,          \* number of service ids the API hands out
    MaxFail,        \* HTTP failures (a non-2xx answer, a failed listing)
    MaxEnv,         \* discovery changes (a new or changed service, an autoremove)
    MaxUserDelete,  \* services a user deletes on the API
    FactKeys,       \* the keys of core.last_facts
    MaxFactId       \* number of fact ids the API hands out

Ids == 1..MaxId
Entry == [uuid : Ids, desc : Descs]
RemoteService == [id : Ids, key : SvcKeys, desc : Descs]
FactIds == 1..MaxFactId
RemoteFact == [id : FactIds, key : FactKeys]

VARIABLES
    discovered,        \* DOMAIN core.services
    desc,              \* the descriptor core.services gives each key
    services_uuid,     \* key -> Entry, persisted on every change
    remote,            \* the API's services of this agent
    lastUpdate,        \* _last_update: "zero" (initial or after resync) or "stamped"
    hourPassed,        \* clock_now - _last_update > 60 * 60
    autoremoved,       \* core.last_services_autoremove >= _last_update
    autoremovedInPass, \* an autoremove after this job read clock_now
    resyncPending,     \* history: a resync no full pass has yet started after
    job,               \* the synchronize job: [pc, todo]
    nextId, failures, envChanges, userDeletes,
    factsPending,      \* _last_facts_sent < core.last_facts_update
    factsRemote,       \* the API's agentfact objects of this agent
    oldFacts,          \* send_facts' old_facts: listed, not yet deleted
    nextFactId,
    alerting_mode,     \* core.alerting_mode, as set_alerting_mode last set it
    apiAlertingMode,   \* the agent's alerting_mode on the API
    lost,              \* history: ids of services the API created for a POST
                       \* whose answer the agent never read
    putUnread          \* history: ids whose descriptor on the API was last
                       \* written by a PUT whose answer the agent never read

factVars == <<factsPending, factsRemote, oldFacts, nextFactId>>
alertVars == <<alerting_mode, apiAlertingMode>>

vars == <<lost, putUnread, discovered, desc, services_uuid, remote, lastUpdate, hourPassed,
          autoremoved, autoremovedInPass, resyncPending, job, nextId,
          failures, envChanges, userDeletes, factVars, alertVars>>

Trigger == <<lastUpdate, hourPassed, autoremoved, autoremovedInPass, resyncPending>>

RemoteIds == {r.id : r \in remote}

Idle == [pc |-> "idle", todo |-> {}]

Init ==
    /\ discovered = {}
    /\ desc \in [SvcKeys -> Descs]
    /\ services_uuid = [k \in {} |-> CHOOSE e \in Entry : TRUE]
    /\ remote = {}
    /\ lastUpdate = "zero"
    /\ hourPassed = FALSE
    /\ autoremoved = FALSE
    /\ autoremovedInPass = FALSE
    /\ resyncPending = FALSE
    /\ job = Idle
    /\ nextId = 1
    /\ failures = 0
    /\ envChanges = 0
    /\ userDeletes = 0
    /\ factsPending = TRUE
    /\ factsRemote = {}
    /\ oldFacts = {}
    /\ nextFactId = 1
    /\ alerting_mode = FALSE
    /\ apiAlertingMode \in BOOLEAN
    /\ lost = {}
    /\ putUnread = {}

(***************************************************************************)
(* The trigger of the full pass (lines 538-540). No container is removed   *)
(* in this module, so last_containers_removed is 0 and its comparison      *)
(* holds exactly when _last_update is 0.                                   *)
(***************************************************************************)
FullDueNoHour == lastUpdate = "zero" \/ autoremoved

FullDue == hourPassed \/ lastUpdate = "zero" \/ autoremoved

\* Lines 536-549: read clock_now and branch; a full pass first fetches
\* the agent.
Start ==
    /\ job.pc = "idle"
    /\ IF FullDue
         THEN /\ job' = [pc |-> "agent", todo |-> {}]
              /\ resyncPending' = FALSE
         ELSE /\ job' = [pc |-> "register", todo |-> discovered]
              /\ UNCHANGED resyncPending
    /\ autoremovedInPass' = FALSE
    /\ UNCHANGED <<lost, putUnread, discovered, desc, services_uuid, remote, lastUpdate, hourPassed,
                   autoremoved, nextId, failures, envChanges, userDeletes>>
    /\ UNCHANGED <<factVars, alertVars>>

(***************************************************************************)
(* Lines 541-543 and get_agent_api (lines 448-471): GET the agent; a 200   *)
(* sets core's alerting mode, a 404 or another answer returns None and     *)
(* leaves it, a failed request raises out of the job. Then                 *)
(* _purge_deleted_services deletes the cached services discovery no longer *)
(* reports (its snapshot at line 635).                                     *)
(***************************************************************************)
FetchAgent ==
    /\ job.pc = "agent"
    /\ \/ /\ alerting_mode' = apiAlertingMode
          /\ UNCHANGED failures
       \/ /\ failures < MaxFail
          /\ failures' = failures + 1
          /\ UNCHANGED alerting_mode
    /\ job' = [pc |-> "purge_local", todo |-> DOMAIN services_uuid \ discovered]
    /\ UNCHANGED <<lost, putUnread, discovered, desc, services_uuid, remote, Trigger, nextId,
                   envChanges, userDeletes, factVars, apiAlertingMode>>

\* The GET raises (a connection error) out of the job.
FetchAgentRaises ==
    /\ job.pc = "agent"
    /\ failures < MaxFail
    /\ failures' = failures + 1
    /\ job' = Idle
    /\ UNCHANGED <<lost, putUnread, discovered, desc, services_uuid, remote, Trigger, nextId,
                   envChanges, userDeletes, factVars, alertVars>>

\* Lines 637-654: DELETE one cached service; 204 and 404 both drop the
\* entry and save it, any other answer keeps it for a later pass.
DeleteService(k) ==
    /\ job.pc = "purge_local"
    /\ k \in job.todo
    /\ \/ /\ services_uuid' = Restrict(services_uuid, DOMAIN services_uuid \ {k})
          /\ remote' = {r \in remote : r.id # services_uuid[k].uuid}
          /\ UNCHANGED failures
       \/ /\ failures < MaxFail
          /\ failures' = failures + 1
          /\ UNCHANGED <<services_uuid, remote>>
    /\ job' = [job EXCEPT !.todo = @ \ {k}]
    /\ UNCHANGED <<lost, putUnread, discovered, desc, Trigger, nextId, envChanges, userDeletes>>
    /\ UNCHANGED <<factVars, alertVars>>

\* Line 639: requests.delete raises (connection error, timeout) out of the
\* job, whether or not the API had deleted the service.
DeleteServiceRaises(k) ==
    /\ job.pc = "purge_local"
    /\ k \in job.todo
    /\ failures < MaxFail
    /\ failures' = failures + 1
    /\ job' = Idle
    /\ \/ remote' = {r \in remote : r.id # services_uuid[k].uuid}
       \/ UNCHANGED remote
    /\ UNCHANGED <<lost, putUnread, discovered, desc, services_uuid, Trigger, nextId,
                   envChanges, userDeletes, factVars, alertVars>>

(***************************************************************************)
(* Lines 656-686: list the API's services (api_iterator drains every page  *)
(* or raises), drop each cached entry whose uuid is not listed, save, and  *)
(* tell discovery the service is gone (core.update_discovery). A failed    *)
(* listing raises out of the job, before _last_update is written.          *)
(***************************************************************************)
PurgeRemote ==
    /\ job.pc = "purge_local"
    /\ job.todo = {}
    /\ \/ LET gone == {k \in DOMAIN services_uuid : services_uuid[k].uuid \notin RemoteIds}
          IN /\ services_uuid' = Restrict(services_uuid, DOMAIN services_uuid \ gone)
             /\ discovered' = discovered \ gone
             /\ job' = [pc |-> "threshold", todo |-> {}]
             /\ UNCHANGED failures
       \/ /\ failures < MaxFail
          /\ failures' = failures + 1
          /\ job' = Idle
          /\ UNCHANGED <<services_uuid, discovered>>
    /\ UNCHANGED <<lost, putUnread, desc, remote, Trigger, nextId, envChanges, userDeletes>>
    /\ UNCHANGED <<factVars, alertVars>>

(***************************************************************************)
(* Lines 545-546: after _retrive_threshold (whose early return at line 589 *)
(* ends only that method), _last_update = clock_now, the clock read when   *)
(* the job started. Events stamped later than clock_now still compare as   *)
(* newer; a resync's 0 is overwritten.                                     *)
(***************************************************************************)
Stamp ==
    /\ job.pc = "threshold"
    /\ lastUpdate' = "stamped"
    /\ hourPassed' = FALSE
    /\ autoremoved' = autoremovedInPass
    /\ job' = [pc |-> "register", todo |-> discovered]
    /\ UNCHANGED <<lost, putUnread, discovered, desc, services_uuid, remote, autoremovedInPass,
                   resyncPending, nextId, failures, envChanges, userDeletes>>
    /\ UNCHANGED <<factVars, alertVars>>

\* _retrive_threshold raises before line 546 (its api_iterator listing
\* fails): the job ends and _last_update keeps its value.
ThresholdRaises ==
    /\ job.pc = "threshold"
    /\ failures < MaxFail
    /\ failures' = failures + 1
    /\ job' = Idle
    /\ UNCHANGED <<lost, putUnread, discovered, desc, services_uuid, remote, Trigger,
                   nextId, envChanges, userDeletes, factVars, alertVars>>

(***************************************************************************)
(* Lines 688-747, one key of core.services: skip an unchanged entry, PUT a *)
(* changed one (200 expected; a service deleted on the API answers 404),   *)
(* POST a new one (201 expected). A failure is logged and the loop goes on;*)
(* a success stores the entry and saves it. A key discovery dropped since  *)
(* the loop began is passed over.                                          *)
(***************************************************************************)
\* Lines 708-712: the cached entry equals the one built from core.services.
UpToDate(k) == k \in DOMAIN services_uuid /\ services_uuid[k].desc = desc[k]

\* Lines 708-716: the entry exists and changed; PUT it. The API answers
\* 200 while the service exists and 404 once a user deleted it, which the
\* loop logs and passes over (lines 741-746).
PutService(k) ==
    /\ k \in DOMAIN services_uuid
    /\ services_uuid[k].desc # desc[k]
    /\ \/ /\ services_uuid[k].uuid \in RemoteIds
          /\ services_uuid' = [services_uuid EXCEPT ![k].desc = desc[k]]
          /\ remote' = {IF r.id = services_uuid[k].uuid THEN [r EXCEPT !.desc = desc[k]] ELSE r
                          : r \in remote}
          /\ putUnread' = putUnread \ {services_uuid[k].uuid}
       \/ /\ services_uuid[k].uuid \notin RemoteIds
          /\ UNCHANGED <<services_uuid, remote, putUnread>>
    /\ UNCHANGED nextId

\* The POST of a mutant that does not look the key up in services_uuid.
PostServiceUnchecked(k) ==
    /\ ~UpToDate(k)
    /\ nextId <= MaxId
    /\ services_uuid' = [j \in DOMAIN services_uuid \cup {k} |->
                           IF j = k THEN [uuid |-> nextId, desc |-> desc[k]] ELSE services_uuid[j]]
    /\ remote' = remote \cup {[id |-> nextId, key |-> k, desc |-> desc[k]]}
    /\ nextId' = nextId + 1

\* The POST of a mutant that caches an id one past the one the API returned.
PostServiceNextId(k) ==
    /\ k \notin DOMAIN services_uuid
    /\ nextId <= MaxId
    /\ services_uuid' = services_uuid @@ (k :> [uuid |-> nextId + 1, desc |-> desc[k]])
    /\ remote' = remote \cup {[id |-> nextId, key |-> k, desc |-> desc[k]]}
    /\ nextId' = nextId + 1

\* Lines 717-747: no entry; POST it (201 expected) and store the returned id
\* with the descriptor, saving services_uuid.
PostService(k) ==
    /\ k \notin DOMAIN services_uuid
    /\ nextId <= MaxId
    /\ services_uuid' = services_uuid @@ (k :> [uuid |-> nextId, desc |-> desc[k]])
    /\ remote' = remote \cup {[id |-> nextId, key |-> k, desc |-> desc[k]]}
    /\ nextId' = nextId + 1

RegisterService(k) ==
    /\ job.pc = "register"
    /\ k \in job.todo
    /\ job' = [job EXCEPT !.todo = @ \ {k}]
    /\ \/ /\ k \notin discovered \/ UpToDate(k)
          /\ UNCHANGED <<services_uuid, remote, nextId, failures, putUnread>>
       \/ /\ k \in discovered
          /\ \/ PutService(k)
             \/ PostService(k) /\ UNCHANGED putUnread
          /\ UNCHANGED failures
       \/ /\ k \in discovered
          /\ ~UpToDate(k)
          /\ failures < MaxFail
          /\ failures' = failures + 1
          /\ UNCHANGED <<services_uuid, remote, nextId, putUnread>>
    /\ UNCHANGED <<lost, discovered, desc, Trigger, envChanges, userDeletes>>
    /\ UNCHANGED <<factVars, alertVars>>

\* Line 728: the PUT or POST raises (connection error, timeout) out of the
\* job. The API may have applied it before the answer was lost: a PUT
\* changed the descriptor, a POST created a service whose id the agent
\* never stores, so the next pass POSTs the key again.
RegisterServiceRaises(k) ==
    /\ job.pc = "register"
    /\ k \in job.todo /\ k \in discovered /\ ~UpToDate(k)
    /\ failures < MaxFail
    /\ failures' = failures + 1
    /\ job' = Idle
    /\ \/ UNCHANGED <<remote, nextId, lost, putUnread>>
       \/ /\ k \in DOMAIN services_uuid /\ services_uuid[k].uuid \in RemoteIds
          /\ remote' = {IF r.id = services_uuid[k].uuid THEN [r EXCEPT !.desc = desc[k]] ELSE r
                          : r \in remote}
          /\ putUnread' = putUnread \cup {services_uuid[k].uuid}
          /\ UNCHANGED <<nextId, lost>>
       \/ /\ k \notin DOMAIN services_uuid /\ nextId <= MaxId
          /\ remote' = remote \cup {[id |-> nextId, key |-> k, desc |-> desc[k]]}
          /\ lost' = lost \cup {nextId}
          /\ nextId' = nextId + 1
          /\ UNCHANGED putUnread
    /\ UNCHANGED <<discovered, desc, services_uuid, Trigger, envChanges,
                   userDeletes, factVars, alertVars>>

\* Lines 552-556: the services loop ends (_register_metric is modelled in
\* MetricRegistration); facts are sent when refreshed since the last send.
RegisterDone ==
    /\ job.pc = "register"
    /\ job.todo = {}
    /\ job' = IF factsPending THEN [pc |-> "facts_list", todo |-> {}] ELSE Idle
    /\ UNCHANGED <<lost, putUnread, discovered, desc, services_uuid, remote, Trigger, nextId,
                   failures, envChanges, userDeletes, factVars, alertVars>>

(***************************************************************************)
(* send_facts (lines 1017-1086): list the old facts, POST every current    *)
(* fact, DELETE the old ones, and only then stamp _last_facts_sent with    *)
(* the clock of that moment. A failed POST or DELETE returns early; a      *)
(* failed listing or request raises out of the job. A fact's value is      *)
(* abstracted away: a fact is its key and the id the API gave it.          *)
(***************************************************************************)
Abort ==
    /\ failures < MaxFail
    /\ failures' = failures + 1
    /\ job' = Idle
    /\ oldFacts' = {}
    /\ UNCHANGED <<lost, putUnread, factsPending, factsRemote, nextFactId>>

\* Lines 1029-1038: api_iterator drains the listing before any POST, so
\* the new facts are not in it.
ListFacts ==
    /\ job.pc = "facts_list"
    /\ \/ /\ oldFacts' = factsRemote
          /\ job' = [pc |-> "facts_post", todo |-> FactKeys]
          /\ UNCHANGED <<lost, putUnread, failures, factsPending, factsRemote, nextFactId>>
       \/ Abort

\* A mutant whose loop goes on to the deletions after a failed POST.
PostFactNoReturn(k) ==
    /\ job.pc = "facts_post"
    /\ k \in job.todo
    /\ \/ /\ nextFactId <= MaxFactId
          /\ factsRemote' = factsRemote \cup {[id |-> nextFactId, key |-> k]}
          /\ nextFactId' = nextFactId + 1
          /\ job' = [job EXCEPT !.todo = @ \ {k}]
          /\ UNCHANGED <<lost, putUnread, failures, factsPending, oldFacts>>
       \/ /\ failures < MaxFail
          /\ failures' = failures + 1
          /\ job' = [job EXCEPT !.todo = @ \ {k}]
          /\ UNCHANGED <<lost, putUnread, factVars, alertVars>>

\* Lines 1040-1065: POST one fact of core.last_facts; 201 stores it, any
\* other answer returns before the deletions.
PostFact(k) ==
    /\ job.pc = "facts_post"
    /\ k \in job.todo
    /\ \/ /\ nextFactId <= MaxFactId
          /\ factsRemote' = factsRemote \cup {[id |-> nextFactId, key |-> k]}
          /\ nextFactId' = nextFactId + 1
          /\ job' = [job EXCEPT !.todo = @ \ {k}]
          /\ UNCHANGED <<lost, putUnread, failures, factsPending, oldFacts>>
       \/ Abort

DeleteFact(f) ==
    /\ job.pc = "facts_post"
    /\ job.todo = {}
    /\ f \in oldFacts
    /\ \/ /\ factsRemote' = factsRemote \ {f}
          /\ oldFacts' = oldFacts \ {f}
          /\ UNCHANGED <<job, failures, factsPending, nextFactId>>
       \/ Abort
    /\ UNCHANGED <<lost, putUnread, discovered, desc, services_uuid, remote, Trigger, nextId,
                   envChanges, userDeletes, alertVars>>

\* Line 1086: every old fact is gone; _last_facts_sent = get_clock(), which
\* is later than a refresh that happened while the facts were sent.
FactsSent ==
    /\ job.pc = "facts_post"
    /\ job.todo = {}
    /\ oldFacts = {}
    /\ factsPending' = FALSE
    /\ job' = Idle
    /\ UNCHANGED <<lost, putUnread, discovered, desc, services_uuid, remote, Trigger, nextId,
                   failures, envChanges, userDeletes, factsRemote, oldFacts, nextFactId,
                   alertVars>>

SendFacts ==
    /\ \/ ListFacts
       \/ \E k \in FactKeys : PostFact(k)
    /\ UNCHANGED <<lost, putUnread, discovered, desc, services_uuid, remote, Trigger, nextId,
                   envChanges, userDeletes, alertVars>>

(***************************************************************************)
(* Environment. Discovery (core, not part of this repository) reports a    *)
(* service or a changed descriptor, or autoremoves one and stamps          *)
(* last_services_autoremove; a user deletes a service on the API; an hour  *)
(* passes; on_message (lines 168-181) receives 'resync' and sets           *)
(* _last_update = 0 on the MQTT thread, whatever the job is doing.         *)
(***************************************************************************)
Discover(k, d) ==
    /\ envChanges < MaxEnv
    /\ k \notin discovered \/ desc[k] # d
    /\ discovered' = discovered \cup {k}
    /\ desc' = [desc EXCEPT ![k] = d]
    /\ envChanges' = envChanges + 1
    /\ UNCHANGED <<lost, putUnread, services_uuid, remote, Trigger, job, nextId, failures, userDeletes>>
    /\ UNCHANGED <<factVars, alertVars>>

Autoremove(k) ==
    /\ envChanges < MaxEnv
    /\ k \in discovered
    /\ discovered' = discovered \ {k}
    /\ autoremoved' = TRUE
    /\ autoremovedInPass' = (autoremovedInPass \/ job.pc # "idle")
    /\ envChanges' = envChanges + 1
    /\ UNCHANGED <<lost, putUnread, desc, services_uuid, remote, lastUpdate, hourPassed,
                   resyncPending, job, nextId, failures, userDeletes>>
    /\ UNCHANGED <<factVars, alertVars>>

UserDelete(r) ==
    /\ userDeletes < MaxUserDelete
    /\ remote' = remote \ {r}
    /\ userDeletes' = userDeletes + 1
    /\ UNCHANGED <<lost, putUnread, discovered, desc, services_uuid, Trigger, job, nextId,
                   failures, envChanges>>
    /\ UNCHANGED <<factVars, alertVars>>

HourPasses ==
    /\ ~hourPassed
    /\ hourPassed' = TRUE
    /\ UNCHANGED <<lost, putUnread, discovered, desc, services_uuid, remote, lastUpdate, autoremoved,
                   autoremovedInPass, resyncPending, job, nextId, failures,
                   envChanges, userDeletes>>
    /\ UNCHANGED <<factVars, alertVars>>

\* core refreshes last_facts and stamps last_facts_update (core is not part
\* of this repository; its revision here still pushes facts itself).
FactsRefresh ==
    /\ envChanges < MaxEnv
    /\ factsPending' = TRUE
    /\ envChanges' = envChanges + 1
    /\ UNCHANGED <<lost, putUnread, discovered, desc, services_uuid, remote, Trigger, job, nextId,
                   failures, userDeletes, factsRemote, oldFacts, nextFactId, alertVars>>

\* A user switches the agent's alerting mode on the API.
ApiAlertingToggle ==
    /\ envChanges < MaxEnv
    /\ apiAlertingMode' = ~apiAlertingMode
    /\ envChanges' = envChanges + 1
    /\ UNCHANGED <<lost, putUnread, discovered, desc, services_uuid, remote, Trigger, job, nextId,
                   failures, userDeletes, factVars, alerting_mode>>

OnMessageResync ==
    /\ lastUpdate' = "zero"
    /\ resyncPending' = TRUE
    /\ UNCHANGED <<lost, putUnread, discovered, desc, services_uuid, remote, hourPassed, autoremoved,
                   autoremovedInPass, job, nextId, failures, envChanges, userDeletes>>
    /\ UNCHANGED <<factVars, alertVars>>

Job ==
    \/ Start
    \/ FetchAgent
    \/ FetchAgentRaises
    \/ \E k \in SvcKeys : DeleteService(k) \/ DeleteServiceRaises(k)
    \/ PurgeRemote
    \/ Stamp \/ ThresholdRaises
    \/ \E k \in SvcKeys : RegisterService(k) \/ RegisterServiceRaises(k)
    \/ RegisterDone
    \/ SendFacts
    \/ \E f \in oldFacts : DeleteFact(f)
    \/ FactsSent

Environment ==
    \/ \E k \in SvcKeys, d \in Descs : Discover(k, d)
    \/ \E k \in SvcKeys : Autoremove(k)
    \/ \E r \in remote : UserDelete(r)
    \/ HourPasses
    \/ FactsRefresh
    \/ ApiAlertingToggle
    \/ OnMessageResync

Next == Job \/ Environment

\* The job is scheduled every 15 s for as long as the agent runs, and the
\* clock keeps moving; discovery, users and the control channel are not
\* obliged to do anything.
Spec == Init /\ [][Next]_vars /\ WF_vars(Job) /\ WF_vars(HourPasses)

-----------------------------------------------------------------------------

\* The type, and every cached uuid is one the API has handed out.
TypeOK ==
    /\ discovered \subseteq SvcKeys
    /\ desc \in [SvcKeys -> Descs]
    /\ DOMAIN services_uuid \subseteq SvcKeys
    /\ \A k \in DOMAIN services_uuid : services_uuid[k] \in Entry /\ services_uuid[k].uuid < nextId
    /\ remote \subseteq RemoteService
    /\ lastUpdate \in {"zero", "stamped"}
    /\ {hourPassed, autoremoved, autoremovedInPass, resyncPending} \subseteq BOOLEAN
    /\ job.pc \in {"idle", "agent", "purge_local", "threshold", "register", "facts_list", "facts_post"}
    /\ job.todo \subseteq SvcKeys \cup FactKeys
    /\ nextId \in 1..(MaxId + 1)
    /\ lost \cup putUnread \subseteq Ids
    /\ factsPending \in BOOLEAN
    /\ oldFacts \subseteq factsRemote
    /\ factsRemote \subseteq RemoteFact
    /\ nextFactId \in 1..(MaxFactId + 1)
    /\ {alerting_mode, apiAlertingMode} \subseteq BOOLEAN

\* Apart from a service whose POST answer was lost, the API never holds
\* two services for one key: _register_services POSTs only a key with no
\* cache entry, and an entry is dropped (a purge, a 204 or 404 DELETE, the
\* full pass's listing) only once its service is gone from the API or is
\* being deleted, whatever the order of user deletions, failed calls and
\* passes.
NoDuplicateService ==
    \A r1, r2 \in remote : r1.key = r2.key /\ r1 # r2 => {r1.id, r2.id} \cap lost # {}

\* The spec: a 'resync' message forces the next pass to be a full one. A
\* job that has not started a full pass since the message must find the
\* full-pass condition true.
ResyncHonoured ==
    job.pc = "idle" /\ resyncPending => FullDue

\* Once discovery and the API stop changing, the cache and the API agree
\* with discovery: every discovered service is registered with its current
\* descriptor, nothing else is cached or left on the API (but a service
\* whose POST answer was lost, which nothing ever deletes), and core's
\* alerting mode is the one the API holds. The one exception to the
\* descriptor: a PUT the API applied but whose answer was lost leaves the
\* cache with the older descriptor, and once discovery reports that one
\* again line 711 finds the entry up to date and never PUTs it back.
Converged ==
    /\ DOMAIN services_uuid = discovered
    /\ \A k \in discovered : \E r \in remote :
          /\ r.id = services_uuid[k].uuid /\ r.key = k
          /\ r.desc = desc[k] \/ r.id \in putUnread
    /\ \A r \in remote : r.key \in discovered \/ r.id \in lost
    /\ alerting_mode = apiAlertingMode

EventuallyConverged == <>[]Converged

FactsOf(k) == {f \in factsRemote : f.key = k}

\* send_facts never leaves the API without a fact it had: the old facts
\* are listed before the new ones are POSTed, and deleted only once every
\* POST succeeded (the early return at line 1065).
FactKeptOnApi ==
    [][\A k \in FactKeys : FactsOf(k) # {} => FactsOf(k)' # {}]_vars

====
