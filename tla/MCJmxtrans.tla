------------------------------ MODULE MCJmxtrans ------------------------------
(* The tomcat GlobalRequestProcessor metrics over two connectors, three     *)
(* queries 10 s apart and one JVM restart.                                 *)
EXTENDS Jmxtrans, TLC

CONSTANTS requests, request_time, http, ajp

MCMetrics == {requests, request_time}
MCRatioOf == request_time :> requests
MCConns == {http, ajp}

=============================================================================
