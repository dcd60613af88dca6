----------------------- MODULE MCBackgroundMonitoring -----------------------
(* Instances of BackgroundMonitoring for TLC: the configurations give the  *)
(* constants their values.                                                 *)
EXTENDS BackgroundMonitoring

(* The safety run has two scopes.  While the SRV poller runs, servers come *)
(* and go and the clients are idle; if its thread could not be created,    *)
(* clients work and select.  A bound of the second: the other threads are  *)
(* created, and the monitor of the second server is slow and has not made  *)
(* its first check, so that this server is known by handshakes only.       *)
SrvThreadRuns == srv.pc # "none"
SecondMonitorSlow ==
  /\ monitor[<<"hello", 2>>].pc \in {"none", "top"}
  /\ \A m \in Listed : monitor[m].pc # "none"
Scope == SrvThreadRuns \/ app \in {"new", "start"} \/ SecondMonitorSlow

ClientStep ==
  \/ Handshake \/ NetworkError \/ NotPrimaryError
  \/ \E s \in Selectors : SelectBegin(s)
ClientsIdle == SrvThreadRuns => ~ClientStep
=============================================================================
