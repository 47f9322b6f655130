--------------------------- MODULE ComputedMetrics ---------------------------
(***************************************************************************)
(* Derived metrics of the collectd front-end (collectd.py) and the core's  *)
(* last-value cache they read (core.py).  collectd sends, every Interval   *)
(* seconds, one point per input of a plugin read, all with the read's     *)
(* timestamp, over the graphite TCP stream.  Collectd.emit_metric stores   *)
(* each point in core.last_metrics and flags the derived metric pending    *)
(* for that timestamp; _check_computed_metrics, run when the timestamp     *)
(* jumps, after each TCP packet and on close, computes a pending entry     *)
(* once every needed input holds a value of that exact timestamp.          *)
(* Core's _purge_metrics, a scheduler job on another thread, rebuilds      *)
(* last_metrics from a scan of it with no lock ("XXX: concurrent access    *)
(* with emit_metric"), so a store between the scan and the assignment is   *)
(* lost.                                                                   *)
(*                                                                         *)
(* One derived metric with item '' is modelled (mem_total: the memory      *)
(* plugin's points all flag it, get_metric reads the needed ones in code   *)
(* order); values are abstracted to the timestamp of the point they come   *)
(* from, which is all the computation compares.                            *)
(***************************************************************************)
EXTENDS Naturals, Sequences, FiniteSetsExt, Functions

CONSTANTS
    Inputs,     \* the points of one plugin read that flag the derived metric
    Needed,     \* the inputs get_metric reads, as a sequence in code order
    Interval,   \* seconds between two reads of the plugin
    MaxCycle,   \* reads modelled; the agent stops after the last one
    MaxLost,    \* points the graphite stream loses (a reconnect drops its buffer)
    MaxPurge,   \* _purge_metrics runs (every 5 minutes: at most one per 30 reads)
    PurgeAge,   \* _purge_metrics drops values older than this (360 s)
    NoSnap      \* no purge between its scan and its assignment

NeededSet == Range(Needed)

ASSUME NeededSet \subseteq Inputs

Cycles == 1..MaxCycle
Stamp(c) == c * Interval
Stamps == {Stamp(c) : c \in Cycles}
Times == {0} \cup Stamps                 \* 0: no value in last_metrics

VARIABLES
    cycle,      \* the plugin read collectd is sending
    toSend,     \* points of that read not yet sent or lost
    lastTs,     \* Collectd.last_timestamp
    pending,    \* Collectd.computed_metrics_pending: the pending timestamps
    cache,      \* core.last_metrics: input -> timestamp of its stored value
    snap,       \* the dict _purge_metrics built from its scan, or NoSnap
    inPacket,   \* points received since the last packet_finish
    emitted,    \* derived points sent to core: timestamp and input stamps used
    lost,
    purges,
    closed

vars == <<cycle, toSend, lastTs, pending, cache, snap, inPacket, emitted,
          lost, purges, closed>>

TypeOK ==
    /\ cycle \in Cycles
    /\ toSend \subseteq Inputs
    /\ lastTs \in Times
    /\ pending \subseteq Stamps
    /\ cache \in [Inputs -> Times]
    /\ snap \in {NoSnap} \cup [Inputs -> Times]
    /\ inPacket \in BOOLEAN
    /\ emitted \subseteq [ts : Stamps, from : [NeededSet -> Times]]
    /\ lost \in 0..MaxLost
    /\ purges \in 0..MaxPurge
    /\ closed \in BOOLEAN

\* Collectd.__init__ (pending empty, last_timestamp 0), Core.__init__
\* (last_metrics empty); collectd starts sending its first read.
Init ==
    /\ cycle = 1
    /\ toSend = Inputs
    /\ lastTs = 0
    /\ pending = {}
    /\ cache = [m \in Inputs |-> 0]
    /\ snap = NoSnap
    /\ inPacket = FALSE
    /\ emitted = {}
    /\ lost = 0
    /\ purges = 0
    /\ closed = FALSE

-----------------------------------------------------------------------------
(* _compute_metric and _check_computed_metrics                             *)

\* Core.get_last_metric: the timestamp stored for input n, 0 for None.
LastMetric(c, n) == c[n]

\* Core.emit_metric -> _store_last_value: the point replaces the previous
\* value of its key.
StoreLastValue(c, m, ts) == [c EXCEPT ![m] = ts]

\* The needed inputs, by position in code order, whose stored value is not
\* of timestamp t: get_metric raises at the first of them.
FirstOff(c, t) == {i \in 1..Len(Needed) : LastMetric(c, Needed[i]) # t}

\* get_metric: no value, or an older one, raises MissingMetric (the entry is
\* kept); a newer one raises ComputationFail (the entry is dropped);
\* otherwise _compute_metric emits the derived point.
Outcome(c, t) ==
    IF FirstOff(c, t) = {} THEN "computed"
    ELSE IF LastMetric(c, Needed[Min(FirstOff(c, t))]) < t THEN "missing"
    ELSE "fail"

\* A mutant that keeps the entries whose computation failed.
CheckKeepsFailed(c, P) ==
    [pending |-> {t \in P : Outcome(c, t) # "computed"},
     out     |-> {[ts |-> t, from |-> [n \in NeededSet |-> c[n]]] :
                    t \in {u \in P : Outcome(c, u) = "computed"}}]

\* _check_computed_metrics over last_metrics c and pending entries P: the
\* entries kept and the derived points emitted.
CheckComputedMetrics(c, P) ==
    [pending |-> {t \in P : Outcome(c, t) = "missing"},
     out     |-> {[ts |-> t, from |-> [n \in NeededSet |-> c[n]]] :
                    t \in {u \in P : Outcome(c, u) = "computed"}}]

\* A mutant flagging the previous read's timestamp.
FlagPendingPrevious(P, ts) == P \cup {ts - Interval}

\* emit_metric's computed_metrics_pending.add((name, item, '', timestamp)).
FlagPending(P, ts) == P \cup {ts}

-----------------------------------------------------------------------------
(* Actions                                                                 *)

\* Collectd.emit_metric of input m of the current read: a timestamp more
\* than a second after last_timestamp first runs _check_computed_metrics;
\* then last_timestamp is set, the derived metric flagged pending, and the
\* point stored by core.emit_metric -> _store_last_value.
EmitMetric(m) ==
    LET ts == Stamp(cycle)
        ck == IF ts - lastTs > 1 THEN CheckComputedMetrics(cache, pending)
              ELSE [pending |-> pending, out |-> {}]
    IN
    /\ ~closed
    /\ m \in toSend
    /\ toSend' = toSend \ {m}
    /\ lastTs' = ts
    /\ pending' = FlagPending(ck.pending, ts)
    /\ emitted' = emitted \cup ck.out
    /\ cache' = StoreLastValue(cache, m, ts)
    /\ inPacket' = TRUE
    /\ UNCHANGED <<cycle, snap, lost, purges, closed>>

\* A point of the read never reaches emit_metric.
LosePoint(m) ==
    /\ ~closed
    /\ m \in toSend
    /\ lost < MaxLost
    /\ toSend' = toSend \ {m}
    /\ lost' = lost + 1
    /\ UNCHANGED <<cycle, lastTs, pending, cache, snap, inPacket, emitted,
                   purges, closed>>

\* Collectd.packet_finish, after each TCP packet the graphite client read.
PacketFinish ==
    LET ck == CheckComputedMetrics(cache, pending) IN
    /\ ~closed
    /\ inPacket
    /\ inPacket' = FALSE
    /\ pending' = ck.pending
    /\ emitted' = emitted \cup ck.out
    /\ UNCHANGED <<cycle, toSend, lastTs, cache, snap, lost,
                   purges, closed>>

\* collectd reads the plugin again Interval seconds later.
NextRead ==
    /\ ~closed
    /\ toSend = {}
    /\ cycle < MaxCycle
    /\ cycle' = cycle + 1
    /\ toSend' = Inputs
    /\ UNCHANGED <<lastTs, pending, cache, snap, inPacket, emitted,
                   lost, purges, closed>>

\* _purge_metrics, first half: the dict comprehension over
\* last_metrics.items() keeps the values at most PurgeAge old.
PurgeScan ==
    /\ ~closed
    /\ snap = NoSnap
    /\ purges < MaxPurge
    /\ snap' = [m \in Inputs |->
                  IF cache[m] >= Stamp(cycle) - PurgeAge THEN cache[m] ELSE 0]
    /\ purges' = purges + 1
    /\ UNCHANGED <<cycle, toSend, lastTs, pending, cache, inPacket, emitted,
                   lost, closed>>

\* _purge_metrics, second half: self.last_metrics = the new dict.
PurgeAssign ==
    /\ snap # NoSnap
    /\ cache' = snap
    /\ snap' = NoSnap
    /\ UNCHANGED <<cycle, toSend, lastTs, pending, inPacket, emitted,
                   lost, purges, closed>>

\* Collectd.close when the agent stops after the last read.
Close ==
    LET ck == CheckComputedMetrics(cache, pending) IN
    /\ ~closed
    /\ toSend = {}
    /\ cycle = MaxCycle
    /\ snap = NoSnap
    /\ closed' = TRUE
    /\ pending' = ck.pending
    /\ emitted' = emitted \cup ck.out
    /\ UNCHANGED <<cycle, toSend, lastTs, cache, snap, inPacket,
                   lost, purges>>

\* The stopped agent does nothing more.
Stopped == closed /\ UNCHANGED vars

Next ==
    \/ \E m \in Inputs : EmitMetric(m) \/ LosePoint(m)
    \/ PacketFinish
    \/ NextRead
    \/ PurgeScan
    \/ PurgeAssign
    \/ Close
    \/ Stopped

(***************************************************************************)
(* collectd keeps sending, the graphite client processes every packet it   *)
(* read, the purge job finishes once started, and the agent's shutdown     *)
(* runs close.  Losing a point is never forced.                            *)
(***************************************************************************)
Spec ==
    /\ Init /\ [][Next]_vars
    /\ WF_vars(\E m \in Inputs : EmitMetric(m))
    /\ WF_vars(PacketFinish)
    /\ WF_vars(NextRead)
    /\ WF_vars(PurgeAssign)
    /\ WF_vars(Close)

-----------------------------------------------------------------------------
(* Properties                                                              *)

(***************************************************************************)
(* A pending entry is not kept for ever while its inputs keep arriving:    *)
(* _check_computed_metrics drops the entries it computed and those a newer *)
(* value made impossible, so an entry flagged for a read followed by       *)
(* enough further reads (one per point lost, one per purge that may undo a *)
(* store) eventually leaves computed_metrics_pending.                      *)
(***************************************************************************)
PendingEventuallyDropped ==
    \A c \in 1..(MaxCycle - MaxLost - MaxPurge) :
        Stamp(c) \in pending ~> Stamp(c) \notin pending

=============================================================================
