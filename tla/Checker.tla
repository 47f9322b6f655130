------------------------------- MODULE Checker -------------------------------
(***************************************************************************)
(* One checker.Check of type tcp or http and its persistent TCP sockets    *)
(* (checker.py). Three scheduler jobs of the check run on the scheduler's *)
(* worker threads and may overlap one another (a job never overlaps       *)
(* itself):                                                                *)
(*   "run"      run_check, every 60 s;                                     *)
(*   "open"     the open_sockets date job that an OK run_check schedules;  *)
(*   "periodic" periodic_check -> check_sockets, every 3 s, which calls    *)
(*              open_sockets itself when it finds a closed connection.     *)
(* update_checks, on the discovery thread, stops the check at any time.    *)
(*                                                                         *)
(* A socket object is an id; ids of sockets neither open nor referenced    *)
(* are reused, as the objects are.                                         *)
(***************************************************************************)
EXTENDS Naturals, FiniteSetsExt, Functions

CONSTANTS
    Ports,      \* the keys of tcp_sockets: the service port and its extra tcp ports
    MainPort,   \* self.port, checked first by run_check
    NoSocket,   \* None
    MaxSock,    \* socket ids
    MaxFlap,    \* times a port of the service, or its HTTP answer, changes
    CheckType,  \* check_info['type']: "tcp" or "http"
    FourxxIsOk, \* check_info['4xx_is_ok']
    MaxOpenJobs \* open_sockets date jobs pending at once

ASSUME MainPort \in Ports /\ CheckType \in {"tcp", "http"}

SockIds == 1..MaxSock
Threads == {"run", "open", "periodic"}
Statuses == {"none", "ok", "warning", "critical"}
Answers == {"2xx", "4xx", "5xx"}      \* classes of the HTTP status code

VARIABLES
    up,            \* which ports of the service accept connections
    answer,        \* the class of status code the service answers GET url with
    tcp_sockets,   \* port -> socket id or None
    conns,         \* sockets the process holds open: [id, port, eof]
    pc,            \* per job thread
    todo,          \* ports open_sockets has yet to visit, per thread
    cur,           \* the port a thread is connecting to
    result,        \* run_check's return_code between its probes and its effects
    status,        \* the last <service>_status emitted
    openPending,   \* open_sockets date jobs pending; self.open_sockets_job
                   \* names the last one scheduled, which fires last
    stopped,       \* stop() has run
    flaps

vars == <<up, answer, tcp_sockets, conns, pc, todo, cur, result, status, openPending,
          stopped, flaps>>

OpenIds == {c.id : c \in conns}

\* The socket object a new socket() gets: one not open nor referenced.
FreeIds == SockIds \ (OpenIds \cup Range(tcp_sockets))

\* Lines 218-233: every tcp port of the service starts with no socket.
Init ==
    /\ up \in [Ports -> BOOLEAN]
    /\ answer \in Answers
    /\ tcp_sockets = [p \in Ports |-> NoSocket]
    /\ conns = {}
    /\ pc = [t \in Threads |-> "idle"]
    /\ todo = [t \in Threads |-> {}]
    /\ cur = [t \in Threads |-> MainPort]
    /\ result = "none"
    /\ status = "none"
    /\ openPending = 0
    /\ stopped = FALSE
    /\ flaps = 0

\* Close the sockets tcp_sockets references on the ports in P.
CloseReferenced(P) ==
    conns' = {c \in conns : ~(c.port \in P /\ tcp_sockets[c.port] = c.id)}

-----------------------------------------------------------------------------
(* run_check                                                               *)

(***************************************************************************)
(* Lines 489-527, check_http: a refused connection is critical; a 5xx      *)
(* answer critical; a 4xx one a warning unless 4xx_is_ok; any other OK.    *)
(* check_tcp (440-487) is OK once the port accepts.                        *)
(***************************************************************************)
\* A mutant reporting a 4xx answer as STATUS_UNKNOWN.
HttpResultUnknown(a) ==
    IF a = "5xx" THEN "critical"
    ELSE IF a = "4xx" /\ ~FourxxIsOk THEN "unknown"
    ELSE "ok"

HttpResult(a) ==
    IF a = "5xx" THEN "critical"
    ELSE IF a = "4xx" /\ ~FourxxIsOk THEN "warning"
    ELSE "ok"

MainResult ==
    IF ~up[MainPort] THEN "critical"
    ELSE IF CheckType = "http" THEN HttpResult(answer)
    ELSE "ok"

(***************************************************************************)
(* Lines 305-341: the check of the service's type on its port, then,      *)
(* unless that is critical, check_tcp on each extra port, a critical one   *)
(* replacing the result (a warning stays a warning otherwise).             *)
(***************************************************************************)
\* A mutant reporting a failed extra port as a warning.
CheckResultExtraWarning ==
    IF MainResult = "critical" THEN "critical"
    ELSE IF \E p \in Ports \ {MainPort} : ~up[p] THEN "warning"
    ELSE MainResult

\* A mutant that never checks the extra ports.
CheckResultMainOnly == MainResult

CheckResult ==
    IF MainResult = "critical" THEN "critical"
    ELSE IF \E p \in Ports \ {MainPort} : ~up[p] THEN "critical"
    ELSE MainResult

RunProbe ==
    /\ pc["run"] = "idle"
    /\ ~stopped
    /\ result' = CheckResult
    /\ pc' = [pc EXCEPT !["run"] = "apply"]
    /\ UNCHANGED <<up, answer, tcp_sockets, conns, todo, cur, status, openPending, stopped, flaps>>

(***************************************************************************)
(* Lines 343-384: emit the status; on a result other than OK close every   *)
(* socket and set it to None; on OK schedule open_sockets in 5 s. A run    *)
(* open_sockets moved 1 s ahead (line 266) can add a second date job       *)
(* while the first is pending; self.open_sockets_job keeps the later one.  *)
(***************************************************************************)
RunApply ==
    /\ pc["run"] = "apply"
    /\ status' = result
    /\ IF result # "ok"
         THEN /\ CloseReferenced(Ports)
              /\ tcp_sockets' = [p \in Ports |-> NoSocket]
              /\ UNCHANGED openPending
         ELSE /\ openPending < MaxOpenJobs
              /\ openPending' = openPending + 1
              /\ UNCHANGED <<conns, tcp_sockets>>
    /\ pc' = [pc EXCEPT !["run"] = "idle"]
    /\ UNCHANGED <<up, answer, todo, cur, result, stopped, flaps>>

-----------------------------------------------------------------------------
(* open_sockets, run by the date job or inline by check_sockets            *)

\* The date job fires and open_sockets starts over every key.
OpenJob ==
    /\ pc["open"] = "idle"
    /\ openPending > 0
    /\ openPending' = openPending - 1
    /\ pc' = [pc EXCEPT !["open"] = "iter"]
    /\ todo' = [todo EXCEPT !["open"] = Ports]
    /\ UNCHANGED <<up, answer, tcp_sockets, conns, cur, result, status, stopped, flaps>>

\* A mutant whose test is inverted: it passes over the keys that are None.
OpenReadInverted(t, p) ==
    /\ pc[t] = "iter"
    /\ p \in todo[t]
    /\ todo' = [todo EXCEPT ![t] = @ \ {p}]
    /\ IF tcp_sockets[p] # NoSocket
         THEN /\ pc' = [pc EXCEPT ![t] = "connect"]
              /\ cur' = [cur EXCEPT ![t] = p]
         ELSE UNCHANGED <<pc, cur>>
    /\ UNCHANGED <<up, answer, tcp_sockets, conns, result, status, openPending, stopped, flaps>>

\* Lines 244-248: a key whose socket is not None is passed over.
OpenRead(t, p) ==
    /\ pc[t] = "iter"
    /\ p \in todo[t]
    /\ todo' = [todo EXCEPT ![t] = @ \ {p}]
    /\ IF tcp_sockets[p] = NoSocket
         THEN /\ pc' = [pc EXCEPT ![t] = "connect"]
              /\ cur' = [cur EXCEPT ![t] = p]
         ELSE UNCHANGED <<pc, cur>>
    /\ UNCHANGED <<up, answer, tcp_sockets, conns, result, status, openPending, stopped, flaps>>

(***************************************************************************)
(* Lines 249-261: socket(), connect() with a 2 s timeout (other threads    *)
(* run meanwhile), then store the socket under the key, or close it and    *)
(* ask for an early run_check (lines 263-273), which only moves run_check  *)
(* earlier in time.                                                        *)
(***************************************************************************)
OpenConnect(t) ==
    /\ pc[t] = "connect"
    /\ LET p == cur[t] IN
         IF up[p]
           THEN /\ FreeIds # {}
                /\ conns' = conns \cup {[id |-> Min(FreeIds), port |-> p, eof |-> FALSE]}
                /\ tcp_sockets' = [tcp_sockets EXCEPT ![p] = Min(FreeIds)]
           ELSE UNCHANGED <<conns, tcp_sockets>>
    /\ pc' = [pc EXCEPT ![t] = "iter"]
    /\ UNCHANGED <<up, answer, todo, cur, result, status, openPending, stopped, flaps>>

OpenDone(t) ==
    /\ pc[t] = "iter"
    /\ todo[t] = {}
    /\ pc' = [pc EXCEPT ![t] = "idle"]
    /\ UNCHANGED <<up, answer, tcp_sockets, conns, todo, cur, result, status, openPending,
                   stopped, flaps>>

-----------------------------------------------------------------------------

(***************************************************************************)
(* Lines 158-165 and 275-303: periodic_check runs check_sockets on every   *)
(* check still in CHECKS. A socket the peer closed reads b''; it is closed *)
(* and its key set to None, and open_sockets runs on this thread.          *)
(***************************************************************************)
CheckSockets ==
    /\ pc["periodic"] = "idle"
    /\ ~stopped
    /\ LET closing == {c.port : c \in {c \in conns : c.eof /\ tcp_sockets[c.port] = c.id}}
       IN /\ closing # {}
          /\ CloseReferenced(closing)
          /\ tcp_sockets' = [p \in Ports |-> IF p \in closing THEN NoSocket ELSE tcp_sockets[p]]
          /\ pc' = [pc EXCEPT !["periodic"] = "iter"]
          /\ todo' = [todo EXCEPT !["periodic"] = Ports]
    /\ UNCHANGED <<up, answer, cur, result, status, openPending, stopped, flaps>>

(***************************************************************************)
(* Lines 129-133 and 386-400: update_checks stops the check: unschedule   *)
(* the last open_sockets date job (a KeyError if it already ran) and       *)
(* run_check, and close the sockets in tcp_sockets. An earlier date job    *)
(* still pending, and a job already running, go on; the check is then      *)
(* dropped from CHECKS.                                                    *)
(***************************************************************************)
Stop ==
    /\ ~stopped
    /\ stopped' = TRUE
    /\ openPending' = IF openPending > 0 THEN openPending - 1 ELSE 0
    /\ CloseReferenced(Ports)
    /\ UNCHANGED <<up, answer, tcp_sockets, pc, todo, cur, result, status, flaps>>

\* The service's port p stops or starts accepting; stopping closes its
\* connections from the peer's side.
Flap(p) ==
    /\ flaps < MaxFlap
    /\ flaps' = flaps + 1
    /\ up' = [up EXCEPT ![p] = ~@]
    /\ conns' = {IF c.port = p /\ up[p] THEN [c EXCEPT !.eof = TRUE] ELSE c : c \in conns}
    /\ UNCHANGED <<answer, tcp_sockets, pc, todo, cur, result, status, openPending, stopped>>

\* The HTTP service starts answering GET url with another class of code.
Answer(a) ==
    /\ CheckType = "http"
    /\ flaps < MaxFlap
    /\ a # answer
    /\ flaps' = flaps + 1
    /\ answer' = a
    /\ UNCHANGED <<up, tcp_sockets, conns, pc, todo, cur, result, status,
                   openPending, stopped>>

Next ==
    \/ RunProbe \/ RunApply
    \/ OpenJob
    \/ \E t \in {"open", "periodic"}, p \in Ports : OpenRead(t, p)
    \/ \E t \in {"open", "periodic"} : OpenConnect(t) \/ OpenDone(t)
    \/ CheckSockets
    \/ Stop
    \/ \E p \in Ports : Flap(p)
    \/ \E a \in Answers : Answer(a)

\* Each job's steps: the scheduler fires run_check every 60 s, check_sockets
\* every 3 s and a pending date job once, and a started job runs on.
RunThread == RunProbe \/ RunApply
OpenThread == OpenJob \/ \E p \in Ports : OpenRead("open", p) \/ OpenConnect("open") \/ OpenDone("open")
PeriodicThread == CheckSockets \/ \E p \in Ports : OpenRead("periodic", p)
                  \/ OpenConnect("periodic") \/ OpenDone("periodic")

Spec == Init /\ [][Next]_vars
        /\ WF_vars(RunThread) /\ WF_vars(OpenThread) /\ WF_vars(PeriodicThread)

-----------------------------------------------------------------------------

\* The type (check_tcp and check_http report only OK, WARNING or CRITICAL;
\* STATUS_UNKNOWN comes only from nagios checks), and socket ids are
\* never exhausted by the model's bound.
TypeOK ==
    /\ up \in [Ports -> BOOLEAN]
    /\ answer \in Answers
    /\ tcp_sockets \in [Ports -> SockIds \cup {NoSocket}]
    /\ conns \subseteq [id : SockIds, port : Ports, eof : BOOLEAN]
    /\ pc \in [Threads -> {"idle", "apply", "iter", "connect"}]
    /\ result \in Statuses /\ status \in Statuses
    /\ openPending \in 0..MaxOpenJobs
    /\ stopped \in BOOLEAN
    /\ FreeIds # {}

\* Every socket the process holds open is the one tcp_sockets keeps for its
\* port, and a stopped check holds none: open_sockets, check_sockets,
\* run_check and stop never lose track of a connection.
NoSocketLeak ==
    \A c \in conns : ~stopped /\ tcp_sockets[c.port] = c.id

\* A port of the service that is down, main or extra, and an HTTP service
\* answering 5xx, are eventually reported: run_check emits a critical
\* status (a 4xx warning on the main port does not hide a down extra
\* port), unless the fault goes away or the check stops.
DownReported ==
    /\ \A p \in Ports : ~up[p] ~> (status = "critical" \/ up[p] \/ stopped)
    /\ (CheckType = "http" /\ answer = "5xx")
          ~> (status = "critical" \/ answer # "5xx" \/ stopped)

\* When the service stays healthy (every port up and, for HTTP, an answer
\* run_check takes as OK) and the check keeps running, every port ends with
\* a persistent open connection. A warning closes them (line 370), by design.
SocketsEventuallyOpen ==
    (<>[](~stopped /\ CheckResult = "ok")) => <>[](\A p \in Ports : tcp_sockets[p] \in OpenIds)

====
