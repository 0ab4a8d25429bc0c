---------------------------- MODULE EventStream ----------------------------
(***************************************************************************)
(* The event log as its readers see it: one JSON line per event, one file  *)
(* per daemon run (events.py).  The design calls the order of the mockup   *)
(* log "the contract" (PHASE_1_DAEMON_DESIGN.md:28); events.py defines the *)
(* events and no order of them.  What follows is a contract written for    *)
(* this project: that order, completed with the lines the mockup's happy   *)
(* path does not show: failed probes, empty censuses, lost devices and     *)
(* stops in the middle of anything.                                        *)
(*                                                                         *)
(* The log is abstracted to its last line.  A further line with the same   *)
(* event name (supported_pids and mode_06_results are written once per     *)
(* ECU) is a stuttering step.                                              *)
(***************************************************************************)
VARIABLE last   \* name of the last event written

\* The lines after which the daemon holds no device.
Unheld == {"daemon_start", "device_released"}

\* The lines after which the device may turn out to be lost: the daemon's
\* next act is a call to the driver.
CallsNext ==
  {"device_opened", "probe_start", "probe_success", "rx_clear_unsupported",
   "vin_read", "supported_pids", "mil_and_dtc", "mode_06_results",
   "connection_complete", "probe_failed", "channel_closed"}

\* A device is given up after a loss, after a stop between two handlers, or
\* after an error no handler catches.
GivesUp == CallsNext \cup {"device_lost", "voltage_detected"}

Events ==
  GivesUp \cup Unheld \cup {"ecu_census", "voltage_read", "voltage_dropped", "daemon_stop"}

\* The lines that open the harvest of a channel, before the census.
Connected == {"probe_success", "rx_clear_unsupported", "vin_read"}

\* May a line f come right after a line e?
MayFollow(e, f) ==
  \/ e \in Unheld                     /\ f \in {"device_opened", "daemon_stop"}
  \/ e \in {"device_opened", "probe_failed", "channel_closed"}
                                      /\ f = "voltage_detected"
  \/ e = "voltage_detected"           /\ f = "probe_start"
  \/ e = "probe_start"                /\ f \in {"probe_success", "probe_failed"}
  \/ e = "probe_success"              /\ f = "rx_clear_unsupported"
  \/ e \in Connected \ {"vin_read"}   /\ f = "vin_read"
  \/ e \in Connected                  /\ f \in {"ecu_census", "channel_closed"}
  \/ e = "ecu_census"                 /\ f = "supported_pids"
  \/ e = "supported_pids"             /\ f \in {"mil_and_dtc", "mode_06_results"}
  \/ e = "mil_and_dtc"                /\ f = "mode_06_results"
  \/ e = "mode_06_results"            /\ f = "voltage_read"
  \/ e = "voltage_read"               /\ f = "connection_complete"
  \/ e = "connection_complete"        /\ f = "voltage_dropped"
  \/ e = "voltage_dropped"            /\ f = "channel_closed"
  \/ e \in CallsNext                  /\ f = "device_lost"
  \/ e \in GivesUp                    /\ f = "device_released"

Init == last = "daemon_start"

Next == \E f \in Events : MayFollow(last, f) /\ last' = f

Spec == Init /\ [][Next]_last

=============================================================================
