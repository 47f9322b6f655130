------------------------------- MODULE Jmxtrans -------------------------------
(***************************************************************************)
(* The jmxtrans front-end's aggregator (jmxtrans.py, class Jmxtrans).      *)
(* jmxtrans queries the JVM every Interval seconds and sends one graphite  *)
(* point per (attribute, mbean) to the agent's graphite listener thread,   *)
(* which calls Jmxtrans.emit_metric for each.  A counter attribute         *)
(* ('derive') becomes a rate by get_derivate; a 'sum' metric (the mbean    *)
(* pattern name=* matches one mbean per connector) is held in _sum_value   *)
(* until flush, which runs when a point's timestamp is more than a second  *)
(* away from the previous one, and on close; a 'ratio' metric is divided   *)
(* at flush by the sum of its divisor metric, cached in _values_cache.     *)
(*                                                                         *)
(* Modelled: the tomcat/Catalina GlobalRequestProcessor pair: 'requests'   *)
(* (requestCount, sum, derive) and 'request_time' (processingTime, sum,    *)
(* derive, ratio of 'requests').  A connector's two counters grow and      *)
(* reset together (one mbean); a rate is abstracted to the connector and  *)
(* read it comes from, which is what a sum or ratio is made of.            *)
(***************************************************************************)
EXTENDS Naturals, FiniteSets, Functions

CONSTANTS
    Metrics,    \* the sum metrics of the service
    RatioOf,    \* ratio metric -> the metric it is divided by
    Conns,      \* the connectors matched by name=*
    Interval,   \* seconds between two jmxtrans queries
    MaxRead,    \* queries modelled; the agent stops after the last one
    MaxCount,   \* bound on a counter's value
    MaxRestart, \* JVM restarts, which reset every counter
    PurgeAge,   \* purge_metrics drops readings older than this (60 * 6 s)
    PurgeEvery, \* emit_metric purges at most once per this many seconds (60)
    Gaps,       \* lengths of a JMX outage: seconds with no query answered
    MaxOutage   \* outages modelled

Divisors == Range(RatioOf)

ASSUME DOMAIN RatioOf \subseteq Metrics /\ Divisors \subseteq Metrics

Reads == 1..MaxRead
MaxGap == CHOOSE g \in Gaps : \A h \in Gaps : h <= g
Times == 0..(MaxRead * Interval + MaxOutage * MaxGap + 1)
Points == Metrics \X Conns
Contribs == Conns \X Reads                \* the rate of connector c at read r
NoRaw == [ts |-> 0, val |-> 0]            \* _raw_value.get(key) is None

VARIABLES
    read,        \* the query jmxtrans is sending
    toSend,      \* its points not yet sent
    counter,     \* the JVM's counter of each connector
    lastTs,      \* Jmxtrans.last_timestamp
    raw,         \* _raw_value: point -> [ts, val] of its last reading
    sumVal,      \* _sum_value: metric -> the rates appended since the flush
    valuesCache, \* _values_cache: divisor -> [ts, parts] of its last sum
    emitted,     \* points flush sent to core
    contributed, \* <<metric, rate>> of every rate appended to _sum_value
    restarts,
    closed,
    readAt,      \* the time each query ran
    lastPurge,   \* Jmxtrans.last_purge (the agent's clock is the points' one)
    outages,
    maxSpan      \* the longest time a rate was computed over

vars == <<read, toSend, counter, lastTs, raw, sumVal, valuesCache, emitted,
          contributed, restarts, closed, readAt, lastPurge, outages, maxSpan>>

\* A point of read r is stamped when its query ran: in the query's second
\* or the next.
PointStamps(r) == {readAt[r], readAt[r] + 1}

TypeOK ==
    /\ read \in Reads
    /\ toSend \subseteq Points
    /\ counter \in [Conns -> 0..MaxCount]
    /\ lastTs \in Times
    /\ raw \in [Points -> [ts : Times, val : 0..MaxCount]]
    /\ sumVal \in [Metrics -> SUBSET Contribs]
    /\ valuesCache \in [Divisors -> [ts : Times, parts : SUBSET Contribs]]
    /\ emitted \subseteq [name : Metrics, ts : Times \ {0},
                          parts : SUBSET Contribs, div : SUBSET Contribs]
    /\ contributed \subseteq Metrics \X Contribs
    /\ restarts \in 0..MaxRestart
    /\ closed \in BOOLEAN
    /\ readAt \in [Reads -> Times]
    /\ lastPurge \in Times
    /\ outages \in 0..MaxOutage
    /\ maxSpan \in Times

\* Jmxtrans.__init__: last_timestamp 0 and empty dicts; the JVM's
\* counters have some value when the agent starts.
Init ==
    /\ read = 1
    /\ toSend = Points
    /\ counter \in [Conns -> 0..1]
    /\ lastTs = 0
    /\ raw = [p \in Points |-> NoRaw]
    /\ sumVal = [m \in Metrics |-> {}]
    /\ valuesCache = [d \in Divisors |-> [ts |-> 0, parts |-> {}]]
    /\ emitted = {}
    /\ contributed = {}
    /\ restarts = 0
    /\ closed = FALSE
    /\ readAt = [r \in Reads |-> IF r = 1 THEN Interval ELSE 0]
    /\ lastPurge = 0
    /\ outages = 0
    /\ maxSpan = 0

-----------------------------------------------------------------------------
(* get_derivate and flush                                                  *)

Dist(a, b) == IF a >= b THEN a - b ELSE b - a

\* get_derivate (lines 521-541) for the reading v at ts of point p, given
\* _raw_value's old reading: no old reading, no time elapsed or a counter
\* that went down (a reset) give None, anything else a rate.
HasRate(old, ts, v) ==
    /\ old.ts # 0
    /\ ts - old.ts # 0
    /\ v - old.val >= 0

\* The _raw_value key of point p: (name, item), item the connector.
RawKey(p) == p

\* A mutant whose flush walks every configured metric, not only the keys
\* of _sum_value.
FlushAllMetrics(t) ==
    LET S == Metrics IN
    [sumVal |-> [m \in Metrics |-> {}],
     cache  |-> valuesCache,
     out    |-> {[name |-> m, ts |-> t, parts |-> sumVal[m], div |-> {}] :
                   m \in S \ DOMAIN RatioOf}]

\* flush(timestamp), lines 469-519: each sum of _sum_value is sent (and,
\* for a divisor, cached with the timestamp) or, for a ratio metric, moved
\* to _ratio_value; then each ratio is sent divided by its divisor's
\* cached sum when that sum is at most a second away, and dropped
\* otherwise; both dicts are emptied.
Flush(t) ==
    LET S == {m \in Metrics : sumVal[m] # {}}
        cache == [d \in Divisors |->
                    IF d \in S \ DOMAIN RatioOf
                    THEN [ts |-> t, parts |-> sumVal[d]] ELSE valuesCache[d]]
        ratios == {m \in S \cap DOMAIN RatioOf :
                     /\ cache[RatioOf[m]].ts # 0
                     /\ Dist(cache[RatioOf[m]].ts, t) <= 1}
    IN
    [sumVal |-> [m \in Metrics |-> {}],
     cache  |-> cache,
     out    |-> {[name |-> m, ts |-> t, parts |-> sumVal[m], div |-> {}] :
                   m \in S \ DOMAIN RatioOf}
                \cup
                {[name |-> m, ts |-> t, parts |-> sumVal[m],
                  div |-> cache[RatioOf[m]].parts] : m \in ratios}]

\* A mutant of purge_metrics that forgets to rebuild _raw_value.
PurgeMetricsCacheOnly(now, r, vc) ==
    [raw   |-> r,
     cache |-> [d \in Divisors |->
                  IF vc[d].ts + PurgeAge < now
                  THEN [ts |-> 0, parts |-> {}] ELSE vc[d]]]

\* purge_metrics (lines 543-559) at time now: _raw_value r and
\* _values_cache vc keep the entries whose timestamp is at least
\* now - 60 * 6.
PurgeMetrics(now, r, vc) ==
    [raw   |-> [p \in Points |-> IF r[p].ts + PurgeAge < now THEN NoRaw ELSE r[p]],
     cache |-> [d \in Divisors |->
                  IF vc[d].ts + PurgeAge < now
                  THEN [ts |-> 0, parts |-> {}] ELSE vc[d]]]

-----------------------------------------------------------------------------
(* Actions                                                                 *)

\* A mutant that sets last_timestamp before the flush, so the sums held
\* are sent with the new point's timestamp.
EmitFlushesNew(p, ts) ==
    LET fl == Flush(ts) IN
    IF Dist(ts, lastTs) > 1 THEN fl
    ELSE [sumVal |-> sumVal, cache |-> valuesCache, out |-> {}]

\* Lines 382-384: a point more than a second away from last_timestamp
\* first flushes what is held, under the old timestamp.
EmitFlush(p, ts) ==
    LET fl == Flush(lastTs) IN
    IF Dist(ts, lastTs) > 1 THEN fl
    ELSE [sumVal |-> sumVal, cache |-> valuesCache, out |-> {}]

(***************************************************************************)
(* Jmxtrans.emit_metric (lines 378-462) for point p = <<metric, connector>>*)
(* of the current query, stamped ts: flush if the timestamp moved, set     *)
(* last_timestamp, purge if the last purge is more than PurgeEvery seconds *)
(* old, compute the rate (storing the reading in _raw_value), and append a *)
(* rate to the metric's _sum_value list.                                   *)
(***************************************************************************)
EmitMetric(p, ts) ==
    LET fl    == EmitFlush(p, ts)
        purge == ts - lastPurge > PurgeEvery
        pm    == IF purge THEN PurgeMetrics(ts, raw, fl.cache)
                 ELSE [raw |-> raw, cache |-> fl.cache]
        old   == pm.raw[RawKey(p)]
        v     == counter[p[2]]
        rate  == <<p[2], read>>
    IN
    /\ ~closed
    /\ p \in toSend
    /\ ts \in PointStamps(read)
    /\ toSend' = toSend \ {p}
    /\ lastTs' = ts
    /\ lastPurge' = IF purge THEN ts ELSE lastPurge
    /\ raw' = [pm.raw EXCEPT ![RawKey(p)] = [ts |-> ts, val |-> v]]
    /\ valuesCache' = pm.cache
    /\ emitted' = emitted \cup fl.out
    /\ IF HasRate(old, ts, v)
         THEN /\ sumVal' = [fl.sumVal EXCEPT ![p[1]] = @ \cup {rate}]
              /\ contributed' = contributed \cup {<<p[1], rate>>}
              /\ maxSpan' = IF ts - old.ts > maxSpan THEN ts - old.ts ELSE maxSpan
         ELSE /\ sumVal' = fl.sumVal
              /\ UNCHANGED <<contributed, maxSpan>>
    /\ UNCHANGED <<read, counter, restarts, closed, readAt, outages>>

\* jmxtrans queries again Interval seconds later, or after an outage in
\* which the JVM answered no query; each connector has served zero or one
\* more request meanwhile.
NextRead ==
    /\ ~closed
    /\ toSend = {}
    /\ read < MaxRead
    /\ read' = read + 1
    /\ toSend' = Points
    /\ \E inc \in [Conns -> 0..1] :
         /\ \A c \in Conns : counter[c] + inc[c] <= MaxCount
         /\ counter' = [c \in Conns |-> counter[c] + inc[c]]
    /\ \E g \in {0} \cup (IF outages < MaxOutage THEN Gaps ELSE {}) :
         /\ readAt' = [readAt EXCEPT ![read + 1] = readAt[read] + Interval + g]
         /\ outages' = IF g = 0 THEN outages ELSE outages + 1
    /\ UNCHANGED <<lastTs, raw, sumVal, valuesCache, emitted, contributed,
                   restarts, closed, lastPurge, maxSpan>>

\* The JVM restarts between two queries: every counter starts over.
Restart ==
    /\ ~closed
    /\ toSend = {}
    /\ restarts < MaxRestart
    /\ counter' = [c \in Conns |-> 0]
    /\ restarts' = restarts + 1
    /\ UNCHANGED <<read, toSend, lastTs, raw, sumVal, valuesCache, emitted,
                   contributed, closed, readAt, lastPurge, outages, maxSpan>>

\* A mutant of close that does not flush.
CloseNoFlush(t) == [sumVal |-> sumVal, cache |-> valuesCache, out |-> {}]

\* Jmxtrans.close (lines 375-376): flush(last_timestamp).
CloseFlush(t) == Flush(t)

\* The agent stops after the last query.
Close ==
    LET fl == CloseFlush(lastTs) IN
    /\ ~closed
    /\ toSend = {}
    /\ read = MaxRead
    /\ closed' = TRUE
    /\ sumVal' = fl.sumVal
    /\ valuesCache' = fl.cache
    /\ emitted' = emitted \cup fl.out
    /\ UNCHANGED <<read, toSend, counter, lastTs, raw, contributed, restarts,
                   readAt, lastPurge, outages, maxSpan>>

Stopped == closed /\ UNCHANGED vars

Next ==
    \/ \E p \in Points, ts \in PointStamps(read) : EmitMetric(p, ts)
    \/ NextRead
    \/ Restart
    \/ Close
    \/ Stopped

(***************************************************************************)
(* jmxtrans keeps querying and the listener thread handles every point;    *)
(* the agent's shutdown calls close.  A JVM restart is never forced.       *)
(***************************************************************************)
Spec ==
    /\ Init /\ [][Next]_vars
    /\ WF_vars(\E p \in Points, ts \in PointStamps(read) : EmitMetric(p, ts))
    /\ WF_vars(NextRead)
    /\ WF_vars(Close)

-----------------------------------------------------------------------------
(* Properties                                                              *)

(***************************************************************************)
(* Every sum and every ratio flush sends is made of rates of one query     *)
(* only, and carries that query's timestamp: emit_metric must flush what   *)
(* _sum_value holds under the old last_timestamp before it appends a rate  *)
(* of the new query, and flush must empty _sum_value, or a sum mixes two   *)
(* queries or is sent with the next query's time.                          *)
(***************************************************************************)
FlushedSumOfOneRead ==
    \A e \in emitted : \A x \in e.parts \cup e.div : e.ts \in PointStamps(x[2])

\* Rate x of metric m went out in a sum (or ratio) of m.
Sent(m, x) == \E e \in emitted : e.name = m /\ x \in e.parts

(***************************************************************************)
(* No rate of a summed metric is left in _sum_value: once close has run,  *)
(* every rate appended has been sent, by the flush the next query's first *)
(* point triggered or, for the last query, by close itself. A ratio's     *)
(* rates are left out: flush drops them, by design, when _values_cache    *)
(* holds no divisor sum of the same second (lines 495-496), as after a    *)
(* purge. Every behaviour ends with Close (it is fair), so this is what   *)
(* "every rate is eventually sent" says of the model.                     *)
(***************************************************************************)
SentByClose ==
    closed => \A y \in contributed : y[1] \notin DOMAIN RatioOf => Sent(y[1], y[2])

(***************************************************************************)
(* A rate never spans an outage longer than the purge age: the first point *)
(* after the outage runs purge_metrics (its last run is more than 60 s     *)
(* old) before get_derivate reads _raw_value, so every older reading is    *)
(* gone.  One second of slack: a point of the same query stamped one       *)
(* second after the purge may still use a reading purge just kept.         *)
(***************************************************************************)
RateSpanBounded == maxSpan <= PurgeAge + 1

=============================================================================
