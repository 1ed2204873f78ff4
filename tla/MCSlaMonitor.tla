---------------------------- MODULE MCSlaMonitor ----------------------------
(***************************************************************************)
(* A small instance of SlaMonitor for TLC: one status with an SLA, one    *)
(* without, one terminal.                                                 *)
(***************************************************************************)
EXTENDS SlaMonitor

CONSTANTS new, quote, closed

MCStatuses == {new, quote, closed}
MCInitialKind == [s \in MCStatuses |->
                    CASE s = new -> "sla" [] s = quote -> "free"
                      [] s = closed -> "terminal"]
=============================================================================
