------------------------------ MODULE Monitoring ------------------------------
(***************************************************************************)
(* The monitors of src/edrader/monitoring on one clock. They share nothing *)
(* else, so a behaviour follows one of them, chosen at first.              *)
(***************************************************************************)
EXTENDS AlertManager, MetricsCollector

CONSTANT MetricsTime  (* bound: the last moment for the collector *)

VARIABLE monitor  (* the one this behaviour follows *)

MonitoringInit ==
  /\ AlertInit
  /\ CollectorInit
  /\ monitor \in {"alerts", "metrics"}

MonitoringNext ==
  /\ \/ monitor = "alerts" /\ AlertNext /\ UNCHANGED collectorVars
     \/ monitor = "metrics" /\ CollectorStep(time) /\ UNCHANGED alertVars
     \/ monitor = "metrics" /\ time < MetricsTime /\ PassTime /\ UNCHANGED collectorVars
  /\ UNCHANGED monitor

MonitoringSpec == MonitoringInit /\ [][MonitoringNext]_<<alertVars, collectorVars, monitor>>
=============================================================================
