---------------------------- MODULE MetricCache ----------------------------
(***************************************************************************)
(* What the identity cache metrics_uuid promises its readers (_loop,      *)
(* emit_metric), relative to the metrics the API lists.  A metric key is  *)
(* absent, known but unregistered (None), or registered with a uuid.  A   *)
(* key becomes known as unregistered; only an unregistered key receives a *)
(* uuid, one no other key holds.  A registered key keeps its uuid until   *)
(* it is forgotten, and it is forgotten only once the API no longer lists *)
(* that uuid.  A restart may forget unregistered keys and learn new       *)
(* unregistered ones, but never forgets a listed uuid, changes one or     *)
(* invents one.  The API lists new uuids and drops listed ones on its own.*)
(***************************************************************************)
EXTENDS Functions, TLC

CONSTANTS Keys, None, Uuids

VARIABLES
    cache,   \* the identity cache
    listed   \* the uuids the API lists

TypeOK ==
    /\ DOMAIN cache \subseteq Keys
    /\ \A k \in DOMAIN cache : cache[k] \in {None} \cup Uuids
    /\ listed \subseteq Uuids

Init == /\ DOMAIN cache \subseteq Keys
        /\ \A k \in DOMAIN cache : cache[k] = None
        /\ listed = {}

Registered == {k \in DOMAIN cache : cache[k] # None}

\* keys the cache may drop: unregistered ones, and those whose uuid the API
\* no longer lists
Forgettable == {k \in DOMAIN cache : cache[k] = None \/ cache[k] \notin listed}

\* a key becomes known, unregistered
Add(k) ==
    /\ k \notin DOMAIN cache
    /\ cache' = cache @@ (k :> None)
    /\ UNCHANGED listed

\* an unregistered key is given a uuid that no other key holds
Assign(k, u) ==
    /\ k \in DOMAIN cache
    /\ cache[k] = None
    /\ \A j \in Registered : cache[j] # u
    /\ cache' = [cache EXCEPT ![k] = u]
    /\ UNCHANGED listed

\* some keys are forgotten
Forget(S) ==
    /\ S \subseteq Forgettable
    /\ cache' = Restrict(cache, DOMAIN cache \ S)
    /\ UNCHANGED listed

\* a restart: some forgettable keys are forgotten, others become known
Reload(S, A) ==
    /\ S \subseteq Forgettable
    /\ A \cap (DOMAIN cache \ S) = {}
    /\ cache' = Restrict(cache, DOMAIN cache \ S) @@ [k \in A |-> None]
    /\ UNCHANGED listed

\* the API lists a new metric, or stops listing one
Listed(u) == u \notin listed /\ listed' = listed \cup {u} /\ UNCHANGED cache
Unlisted(u) == u \in listed /\ listed' = listed \ {u} /\ UNCHANGED cache

Next ==
    \/ \E k \in Keys : Add(k)
    \/ \E k \in Keys, u \in Uuids : Assign(k, u)
    \/ \E S \in SUBSET DOMAIN cache : Forget(S)
    \/ \E S \in SUBSET DOMAIN cache, A \in SUBSET Keys : Reload(S, A)
    \/ \E u \in Uuids : Listed(u) \/ Unlisted(u)

Spec == Init /\ [][Next]_<<cache, listed>>

=============================================================================
