------------------------ MODULE MCMetricRegistration ------------------------
(***************************************************************************)
(* Three metric keys that use every dependency the resolver checks:        *)
(*   agent : ('agent_status', None, None), no dependency;                 *)
(*   m     : a metric of service svc, in container c1;                     *)
(*   s     : a status_of m.  _register_metric looks the parent up as       *)
(*           (status_of, service, item), so m shares s's service.          *)
(* One container and one service, so that a key waits on a container, on  *)
(* a service and on its parent, and a removed container purges m and then *)
(* s in cascade.  The API rejects s for good.                              *)
(***************************************************************************)
EXTENDS MetricRegistration

CONSTANTS agent, m, s, c1, svc

MCKeys == {agent, m, s}
MCDep ==
    (agent :> [parent |-> NoKey, container |-> NoContainer, service |-> NoService])
 @@ (m :> [parent |-> NoKey, container |-> c1, service |-> svc])
 @@ (s :> [parent |-> m, container |-> NoContainer, service |-> svc])

====
